------------------------------- MODULE Schemas -------------------------------
(***************************************************************************)
(* proto/schema_2015.py and proto/schema_current.py: the fields of every   *)
(* message and the members of every enum, as the bindings of upstream's    *)
(* jar have them (compat's view) and as the pinned .proto has them         *)
(* (modern's); and proto/descriptor.py, which says what a schema is.       *)
(*                                                                         *)
(* A message is the set of its fields: nothing the decoder does depends on *)
(* their order.  A default is a number: zero, except where one is declared.*)
(***************************************************************************)
EXTENDS Integers, FiniteSets, TLC

LOCAL INSTANCE Functions

FieldDesc(number, name, kind, label, type, default) ==
  [number |-> number, name |-> name, kind |-> kind, label |-> label, type |-> type, default |-> default]

\* A string, a number, a member of an enum or a message, optional; and the other labels.
Str(number, name) == FieldDesc(number, name, "string", "optional", "none", 0)
Num(number, name, kind) == FieldDesc(number, name, kind, "optional", "none", 0)
Enm(number, name, type, default) == FieldDesc(number, name, "enum", "optional", type, default)
Sub(number, name, type) == FieldDesc(number, name, "message", "optional", type, 0)
Req(field) == [field EXCEPT !.label = "required"]
Rep(field) == [field EXCEPT !.label = "repeated"]

-----------------------------------------------------------------------------
(* The schema of compat: gtfs-realtime-bindings 0.0.4, of 2015.            *)

UPDATES_2015 ==
  "FeedMessage" :> {Req(Sub(1, "header", "FeedHeader")), Rep(Sub(2, "entity", "FeedEntity"))} @@
  "FeedHeader" :> {Req(Str(1, "gtfs_realtime_version")),
     Enm(2, "incrementality", "FeedHeader.Incrementality", 0), Num(3, "timestamp", "uint64")} @@
  "FeedEntity" :> {Req(Str(1, "id")), Num(2, "is_deleted", "bool"), Sub(3, "trip_update", "TripUpdate"),
     Sub(4, "vehicle", "VehiclePosition"), Sub(5, "alert", "Alert")} @@
  "TripUpdate" :> {Req(Sub(1, "trip", "TripDescriptor")), Sub(3, "vehicle", "VehicleDescriptor"),
     Rep(Sub(2, "stop_time_update", "TripUpdate.StopTimeUpdate")), Num(4, "timestamp", "uint64"),
     Num(5, "delay", "int32")} @@
  "TripUpdate.StopTimeEvent" :> {Num(1, "delay", "int32"), Num(2, "time", "int64"),
     Num(3, "uncertainty", "int32")} @@
  "TripUpdate.StopTimeUpdate" :> {Num(1, "stop_sequence", "uint32"), Str(4, "stop_id"),
     Sub(2, "arrival", "TripUpdate.StopTimeEvent"), Sub(3, "departure", "TripUpdate.StopTimeEvent"),
     Enm(5, "schedule_relationship", "TripUpdate.StopTimeUpdate.ScheduleRelationship", 0)} @@
  "VehiclePosition" :> {Sub(1, "trip", "TripDescriptor"), Sub(8, "vehicle", "VehicleDescriptor"),
     Sub(2, "position", "Position"), Num(3, "current_stop_sequence", "uint32"), Str(7, "stop_id"),
     Enm(4, "current_status", "VehiclePosition.VehicleStopStatus", 2), Num(5, "timestamp", "uint64"),
     Enm(6, "congestion_level", "VehiclePosition.CongestionLevel", 0),
     Enm(9, "occupancy_status", "VehiclePosition.OccupancyStatus", 0)} @@
  "Alert" :> {Rep(Sub(1, "active_period", "TimeRange")), Rep(Sub(5, "informed_entity", "EntitySelector")),
     Enm(6, "cause", "Alert.Cause", 1), Enm(7, "effect", "Alert.Effect", 8),
     Sub(8, "url", "TranslatedString"), Sub(10, "header_text", "TranslatedString"),
     Sub(11, "description_text", "TranslatedString")} @@
  "TimeRange" :> {Num(1, "start", "uint64"), Num(2, "end", "uint64")} @@
  "Position" :> {Req(Num(1, "latitude", "float")), Req(Num(2, "longitude", "float")),
     Num(3, "bearing", "float"), Num(4, "odometer", "double"), Num(5, "speed", "float")}

SELECTORS_2015 ==
  "TripDescriptor" :> {Str(1, "trip_id"), Str(5, "route_id"), Num(6, "direction_id", "uint32"),
     Str(2, "start_time"), Str(3, "start_date"),
     Enm(4, "schedule_relationship", "TripDescriptor.ScheduleRelationship", 0)} @@
  "VehicleDescriptor" :> {Str(1, "id"), Str(2, "label"), Str(3, "license_plate")} @@
  "EntitySelector" :> {Str(1, "agency_id"), Str(2, "route_id"), Num(3, "route_type", "int32"),
     Sub(4, "trip", "TripDescriptor"), Str(5, "stop_id")} @@
  "TranslatedString" :> {Rep(Sub(1, "translation", "TranslatedString.Translation"))} @@
  "TranslatedString.Translation" :> {Req(Str(1, "text")), Str(2, "language")}

ENUMS_2015 ==
  "FeedHeader.Incrementality" :> [FULL_DATASET |-> 0, DIFFERENTIAL |-> 1] @@
  "TripUpdate.StopTimeUpdate.ScheduleRelationship" :> [SCHEDULED |-> 0, SKIPPED |-> 1, NO_DATA |-> 2] @@
  "VehiclePosition.VehicleStopStatus" :> [INCOMING_AT |-> 0, STOPPED_AT |-> 1, IN_TRANSIT_TO |-> 2] @@
  "VehiclePosition.CongestionLevel" :> [UNKNOWN_CONGESTION_LEVEL |-> 0, RUNNING_SMOOTHLY |-> 1,
     STOP_AND_GO |-> 2, CONGESTION |-> 3, SEVERE_CONGESTION |-> 4] @@
  "VehiclePosition.OccupancyStatus" :> [EMPTY |-> 0, MANY_SEATS_AVAILABLE |-> 1,
     FEW_SEATS_AVAILABLE |-> 2, STANDING_ROOM_ONLY |-> 3, CRUSHED_STANDING_ROOM_ONLY |-> 4, FULL |-> 5,
     NOT_ACCEPTING_PASSENGERS |-> 6] @@
  "Alert.Cause" :> [UNKNOWN_CAUSE |-> 1, OTHER_CAUSE |-> 2, TECHNICAL_PROBLEM |-> 3, STRIKE |-> 4,
     DEMONSTRATION |-> 5, ACCIDENT |-> 6, HOLIDAY |-> 7, WEATHER |-> 8, MAINTENANCE |-> 9,
     CONSTRUCTION |-> 10, POLICE_ACTIVITY |-> 11, MEDICAL_EMERGENCY |-> 12] @@
  "Alert.Effect" :> [NO_SERVICE |-> 1, REDUCED_SERVICE |-> 2, SIGNIFICANT_DELAYS |-> 3, DETOUR |-> 4,
     ADDITIONAL_SERVICE |-> 5, MODIFIED_SERVICE |-> 6, OTHER_EFFECT |-> 7, UNKNOWN_EFFECT |-> 8,
     STOP_MOVED |-> 9] @@
  "TripDescriptor.ScheduleRelationship" :> [SCHEDULED |-> 0, ADDED |-> 1, UNSCHEDULED |-> 2,
     CANCELED |-> 3]

-----------------------------------------------------------------------------
(* The schema of modern: the pinned .proto.                                *)

UPDATES_CURRENT ==
  "FeedMessage" :> {Req(Sub(1, "header", "FeedHeader")), Rep(Sub(2, "entity", "FeedEntity"))} @@
  "FeedHeader" :> {Req(Str(1, "gtfs_realtime_version")),
     Enm(2, "incrementality", "FeedHeader.Incrementality", 0), Num(3, "timestamp", "uint64"),
     Str(4, "feed_version")} @@
  "FeedEntity" :> {Req(Str(1, "id")), Num(2, "is_deleted", "bool"), Sub(3, "trip_update", "TripUpdate"),
     Sub(4, "vehicle", "VehiclePosition"), Sub(5, "alert", "Alert"), Sub(6, "shape", "Shape"),
     Sub(7, "stop", "Stop"), Sub(8, "trip_modifications", "TripModifications")} @@
  "TripUpdate" :> {Req(Sub(1, "trip", "TripDescriptor")), Sub(3, "vehicle", "VehicleDescriptor"),
     Rep(Sub(2, "stop_time_update", "TripUpdate.StopTimeUpdate")), Num(4, "timestamp", "uint64"),
     Num(5, "delay", "int32"), Sub(6, "trip_properties", "TripUpdate.TripProperties")} @@
  "TripUpdate.StopTimeEvent" :> {Num(1, "delay", "int32"), Num(2, "time", "int64"),
     Num(3, "uncertainty", "int32"), Num(4, "scheduled_time", "int64")} @@
  "TripUpdate.StopTimeUpdate" :> {Num(1, "stop_sequence", "uint32"), Str(4, "stop_id"),
     Sub(2, "arrival", "TripUpdate.StopTimeEvent"), Sub(3, "departure", "TripUpdate.StopTimeEvent"),
     Enm(7, "departure_occupancy_status", "VehiclePosition.OccupancyStatus", 0),
     Enm(5, "schedule_relationship", "TripUpdate.StopTimeUpdate.ScheduleRelationship", 0),
     Sub(6, "stop_time_properties", "TripUpdate.StopTimeUpdate.StopTimeProperties")} @@
  "TripUpdate.StopTimeUpdate.StopTimeProperties" :> {Str(1, "assigned_stop_id"), Str(2, "stop_headsign"),
     Enm(3, "pickup_type", "TripUpdate.StopTimeUpdate.StopTimeProperties.DropOffPickupType", 0),
     Enm(4, "drop_off_type", "TripUpdate.StopTimeUpdate.StopTimeProperties.DropOffPickupType", 0)} @@
  "TripUpdate.TripProperties" :> {Str(1, "trip_id"), Str(2, "start_date"), Str(3, "start_time"),
     Str(4, "shape_id"), Str(5, "trip_headsign"), Str(6, "trip_short_name")}

POSITIONS_CURRENT ==
  "VehiclePosition" :> {Sub(1, "trip", "TripDescriptor"), Sub(8, "vehicle", "VehicleDescriptor"),
     Sub(2, "position", "Position"), Num(3, "current_stop_sequence", "uint32"), Str(7, "stop_id"),
     Enm(4, "current_status", "VehiclePosition.VehicleStopStatus", 2), Num(5, "timestamp", "uint64"),
     Enm(6, "congestion_level", "VehiclePosition.CongestionLevel", 0),
     Enm(9, "occupancy_status", "VehiclePosition.OccupancyStatus", 0),
     Num(10, "occupancy_percentage", "uint32"),
     Rep(Sub(11, "multi_carriage_details", "VehiclePosition.CarriageDetails"))} @@
  "VehiclePosition.CarriageDetails" :> {Str(1, "id"), Str(2, "label"),
     Enm(3, "occupancy_status", "VehiclePosition.OccupancyStatus", 7),
     FieldDesc(4, "occupancy_percentage", "int32", "optional", "none", -1),
     Num(5, "carriage_sequence", "uint32")} @@
  "Alert" :> {Rep(Sub(1, "active_period", "TimeRange")), Rep(Sub(2, "communication_period", "TimeRange")),
     Rep(Sub(3, "impact_period", "TimeRange")), Rep(Sub(5, "informed_entity", "EntitySelector")),
     Enm(6, "cause", "Alert.Cause", 1), Enm(7, "effect", "Alert.Effect", 8),
     Sub(8, "url", "TranslatedString"), Sub(10, "header_text", "TranslatedString"),
     Sub(11, "description_text", "TranslatedString"), Sub(12, "tts_header_text", "TranslatedString"),
     Sub(13, "tts_description_text", "TranslatedString"),
     Enm(14, "severity_level", "Alert.SeverityLevel", 1), Sub(15, "image", "TranslatedImage"),
     Sub(16, "image_alternative_text", "TranslatedString"), Sub(17, "cause_detail", "TranslatedString"),
     Sub(18, "effect_detail", "TranslatedString")} @@
  "TimeRange" :> {Num(1, "start", "uint64"), Num(2, "end", "uint64")} @@
  "Position" :> {Req(Num(1, "latitude", "float")), Req(Num(2, "longitude", "float")),
     Num(3, "bearing", "float"), Num(4, "odometer", "double"), Num(5, "speed", "float")}

SELECTORS_CURRENT ==
  "TripDescriptor" :> {Str(1, "trip_id"), Str(5, "route_id"), Num(6, "direction_id", "uint32"),
     Str(2, "start_time"), Str(3, "start_date"),
     Enm(4, "schedule_relationship", "TripDescriptor.ScheduleRelationship", 0),
     Sub(7, "modified_trip", "TripDescriptor.ModifiedTripSelector")} @@
  "TripDescriptor.ModifiedTripSelector" :> {Str(1, "modifications_id"), Str(2, "affected_trip_id"),
     Str(3, "start_time"), Str(4, "start_date")} @@
  "VehicleDescriptor" :> {Str(1, "id"), Str(2, "label"), Str(3, "license_plate"),
     Enm(4, "wheelchair_accessible", "VehicleDescriptor.WheelchairAccessible", 0)} @@
  "EntitySelector" :> {Str(1, "agency_id"), Str(2, "route_id"), Num(3, "route_type", "int32"),
     Sub(4, "trip", "TripDescriptor"), Str(5, "stop_id"), Num(6, "direction_id", "uint32")} @@
  "TranslatedString" :> {Rep(Sub(1, "translation", "TranslatedString.Translation"))} @@
  "TranslatedString.Translation" :> {Req(Str(1, "text")), Str(2, "language")} @@
  "TranslatedImage" :> {Rep(Sub(1, "localized_image", "TranslatedImage.LocalizedImage"))} @@
  "TranslatedImage.LocalizedImage" :> {Req(Str(1, "url")), Req(Str(2, "media_type")), Str(3, "language")} @@
  "Shape" :> {Str(1, "shape_id"), Str(2, "encoded_polyline")} @@
  "Stop" :> {Str(1, "stop_id"), Sub(2, "stop_code", "TranslatedString"),
     Sub(3, "stop_name", "TranslatedString"), Sub(4, "tts_stop_name", "TranslatedString"),
     Sub(5, "stop_desc", "TranslatedString"), Num(6, "stop_lat", "float"), Num(7, "stop_lon", "float"),
     Str(8, "zone_id"), Sub(9, "stop_url", "TranslatedString"), Str(11, "parent_station"),
     Str(12, "stop_timezone"), Enm(13, "wheelchair_boarding", "Stop.WheelchairBoarding", 0),
     Str(14, "level_id"), Sub(15, "platform_code", "TranslatedString")}

DETOURS_CURRENT ==
  "TripModifications" :> {Rep(Sub(1, "selected_trips", "TripModifications.SelectedTrips")),
     Rep(Str(2, "start_times")), Rep(Str(3, "service_dates")),
     Rep(Sub(4, "modifications", "TripModifications.Modification"))} @@
  "TripModifications.Modification" :> {Sub(1, "start_stop_selector", "StopSelector"),
     Sub(2, "end_stop_selector", "StopSelector"), Num(3, "propagated_modification_delay", "int32"),
     Rep(Sub(4, "replacement_stops", "ReplacementStop")), Str(5, "service_alert_id"),
     Num(6, "last_modified_time", "uint64")} @@
  "TripModifications.SelectedTrips" :> {Rep(Str(1, "trip_ids")), Str(2, "shape_id")} @@
  "StopSelector" :> {Num(1, "stop_sequence", "uint32"), Str(2, "stop_id")} @@
  "ReplacementStop" :> {Num(1, "travel_time_to_stop", "int32"), Str(2, "stop_id")}

ENUMS_CURRENT ==
  "FeedHeader.Incrementality" :> [FULL_DATASET |-> 0, DIFFERENTIAL |-> 1] @@
  "TripUpdate.StopTimeUpdate.ScheduleRelationship" :> [SCHEDULED |-> 0, SKIPPED |-> 1, NO_DATA |-> 2,
     UNSCHEDULED |-> 3] @@
  "TripUpdate.StopTimeUpdate.StopTimeProperties.DropOffPickupType" :> [REGULAR |-> 0, NONE |-> 1,
     PHONE_AGENCY |-> 2, COORDINATE_WITH_DRIVER |-> 3] @@
  "VehiclePosition.VehicleStopStatus" :> [INCOMING_AT |-> 0, STOPPED_AT |-> 1, IN_TRANSIT_TO |-> 2] @@
  "VehiclePosition.CongestionLevel" :> [UNKNOWN_CONGESTION_LEVEL |-> 0, RUNNING_SMOOTHLY |-> 1,
     STOP_AND_GO |-> 2, CONGESTION |-> 3, SEVERE_CONGESTION |-> 4] @@
  "VehiclePosition.OccupancyStatus" :> [EMPTY |-> 0, MANY_SEATS_AVAILABLE |-> 1,
     FEW_SEATS_AVAILABLE |-> 2, STANDING_ROOM_ONLY |-> 3, CRUSHED_STANDING_ROOM_ONLY |-> 4, FULL |-> 5,
     NOT_ACCEPTING_PASSENGERS |-> 6, NO_DATA_AVAILABLE |-> 7, NOT_BOARDABLE |-> 8] @@
  "Alert.Cause" :> [UNKNOWN_CAUSE |-> 1, OTHER_CAUSE |-> 2, TECHNICAL_PROBLEM |-> 3, STRIKE |-> 4,
     DEMONSTRATION |-> 5, ACCIDENT |-> 6, HOLIDAY |-> 7, WEATHER |-> 8, MAINTENANCE |-> 9,
     CONSTRUCTION |-> 10, POLICE_ACTIVITY |-> 11, MEDICAL_EMERGENCY |-> 12, SPECIAL_EVENT |-> 13] @@
  "Alert.Effect" :> [NO_SERVICE |-> 1, REDUCED_SERVICE |-> 2, SIGNIFICANT_DELAYS |-> 3, DETOUR |-> 4,
     ADDITIONAL_SERVICE |-> 5, MODIFIED_SERVICE |-> 6, OTHER_EFFECT |-> 7, UNKNOWN_EFFECT |-> 8,
     STOP_MOVED |-> 9, NO_EFFECT |-> 10, ACCESSIBILITY_ISSUE |-> 11] @@
  "Alert.SeverityLevel" :> [UNKNOWN_SEVERITY |-> 1, INFO |-> 2, WARNING |-> 3, SEVERE |-> 4] @@
  "TripDescriptor.ScheduleRelationship" :>
     ([SCHEDULED |-> 0, ADDED |-> 1, UNSCHEDULED |-> 2, CANCELED |-> 3, REPLACEMENT |-> 5,
       DUPLICATED |-> 6, DELETED |-> 7] @@ "NEW" :> 8) @@
  "VehicleDescriptor.WheelchairAccessible" :> [NO_VALUE |-> 0, UNKNOWN |-> 1, WHEELCHAIR_ACCESSIBLE |-> 2,
     WHEELCHAIR_INACCESSIBLE |-> 3] @@
  "Stop.WheelchairBoarding" :> [UNKNOWN |-> 0, AVAILABLE |-> 1, NOT_AVAILABLE |-> 2]

\* What the pinned .proto calls deprecated: the fields, then the members.
DEPRECATED_FIELDS == {<<"Alert", "active_period">>}
DEPRECATED_MEMBERS == {<<"TripDescriptor.ScheduleRelationship", "ADDED">>}

-----------------------------------------------------------------------------
(* What the rules take from the tables by name.                            *)

\* Enum.toString(), of a member E013 writes.
java_enum(value, constants) == CHOOSE name \in DOMAIN constants : constants[name] = value

TRIP_ENUM == "TripDescriptor.ScheduleRelationship"
STOP_TIME_ENUM == "TripUpdate.StopTimeUpdate.ScheduleRelationship"

TRIP_RELATIONSHIPS ==
  {"SCHEDULED", "ADDED", "UNSCHEDULED", "CANCELED", "REPLACEMENT", "DUPLICATED", "DELETED", "NEW"}
STOP_TIME_RELATIONSHIPS == {"SCHEDULED", "UNSCHEDULED", "SKIPPED", "NO_DATA"}

_member(enum, name) == name \in DOMAIN ENUMS_CURRENT[enum]

-----------------------------------------------------------------------------
(* A schema as the decoder asks it: fields of a type, values of an enum.   *)

enum_values(enums) == [e \in DOMAIN enums |-> Range(enums[e])]

SCHEMA_2015 ==
  [messages |-> UPDATES_2015 @@ SELECTORS_2015, enums |-> enum_values(ENUMS_2015)]
SCHEMA_CURRENT ==
  [messages |-> UPDATES_CURRENT @@ POSITIONS_CURRENT @@ SELECTORS_CURRENT @@ DETOURS_CURRENT,
   enums |-> enum_values(ENUMS_CURRENT)]

Submessages(messages, type) == {f.type : f \in {g \in messages[type] : g.kind = "message"}}

\* The types a message of `type` holds at a depth; every depth there could be.
Holds(messages, type) ==
  LET at[n \in 1..Cardinality(DOMAIN messages)] ==
        IF n = 1 THEN Submessages(messages, type)
        ELSE UNION {Submessages(messages, t) : t \in at[n - 1] \cap DOMAIN messages}
  IN  UNION {at[n] : n \in DOMAIN at}

\* A schema is one the decoder can use: a number and a name each tell one field
\* of a message (by_number and by_name keep the last), a field's type is declared
\* and an enum's default is a member of it, two members are two values, no message holds itself, so reading, merging and
\* requiring come to an end, and every type is there for FeedMessage's sake.
IsWhole(schema, enums) ==
  /\ \A t \in DOMAIN schema.messages :
       LET fields == schema.messages[t] IN
       /\ \A f, g \in fields : f.number = g.number \/ f.name = g.name => f = g
       /\ \A f \in fields :
            /\ f.kind = "message" => f.type \in DOMAIN schema.messages
            /\ f.kind = "enum"    => f.type \in DOMAIN enums /\ f.default \in schema.enums[f.type]
       /\ t \notin Holds(schema.messages, t)
  /\ \A e \in DOMAIN enums : IsInjective(enums[e])
  /\ DOMAIN schema.messages = {"FeedMessage"} \cup Holds(schema.messages, "FeedMessage")
  /\ DOMAIN enums = {f.type : f \in {g \in UNION Range(schema.messages) : g.kind = "enum"}}

\* What is called deprecated is there to be used (Schema.__post_init__, S024, S025).
DeprecatedIsDeclared ==
  /\ \A d \in DEPRECATED_FIELDS : \E f \in SCHEMA_CURRENT.messages[d[1]] : f.name = d[2]
  /\ \A d \in DEPRECATED_MEMBERS : d[2] \in DOMAIN ENUMS_CURRENT[d[1]]

\* The constants the rules compare with are members, or a rule goes quiet (_member
\* raises on import), and no member is left out that _named could answer.
RelationshipsAreDeclared ==
  /\ \A name \in TRIP_RELATIONSHIPS : _member(TRIP_ENUM, name)
  /\ \A name \in STOP_TIME_RELATIONSHIPS : _member(STOP_TIME_ENUM, name)
  /\ DOMAIN ENUMS_CURRENT[TRIP_ENUM] \subseteq TRIP_RELATIONSHIPS
  /\ DOMAIN ENUMS_CURRENT[STOP_TIME_ENUM] \subseteq STOP_TIME_RELATIONSHIPS

\* E013 asks the current schema for the name of a value compat read: it has one,
\* and it is the name the jar's bindings give that value.
NamesAreKept ==
  \A e \in DOMAIN ENUMS_2015 : \A m \in DOMAIN ENUMS_2015[e] :
    LET value == ENUMS_2015[e][m] IN
    value \in Range(ENUMS_CURRENT[e]) /\ java_enum(value, ENUMS_CURRENT[e]) = m

\* Both tables are whole, the later one keeps the names of the earlier, and what
\* the rules spell is in it.
SchemasAreWhole ==
  /\ IsWhole(SCHEMA_2015, ENUMS_2015)
  /\ IsWhole(SCHEMA_CURRENT, ENUMS_CURRENT)
  /\ DeprecatedIsDeclared
  /\ RelationshipsAreDeclared
  /\ NamesAreKept
=============================================================================
