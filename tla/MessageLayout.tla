--------------------------- MODULE MessageLayout ---------------------------
(***************************************************************************)
(* parse_ais_payload and its handlers (parse_ais_msg.c): for every message *)
(* type, the fields its handler reads, in order.  A field is               *)
(*   hard : an unsigned field, the handler fails when it cannot be read;   *)
(*   soft : speed, lon, lat, heading, which become NaN or -1 instead;      *)
(*   text : a 6-bit string, the handler fails when it cannot be read;      *)
(*   bin  : the 8-bit blob that runs to the end of the payload.            *)
(* Decode is the handlers' result; the other operators say what a decode   *)
(* that succeeded left in the AISMessage.                                  *)
(***************************************************************************)
EXTENDS Payload, Sequences

CONSTANT RecordsUnsupported
  \* parse_ais_payload has two default labels: the first records the failed
  \* parse, the second returns without.  TRUE selects the first.

ASSUME RecordsAssumption == RecordsUnsupported \in BOOLEAN

Field(kind, name, start, n) ==
  [kind |-> kind, name |-> name, start |-> start, n |-> n]

Hard(name, start, n) == Field("hard", name, start, n)
Soft(name, start, n) == Field("soft", name, start, n)
Text(name, start, n) == Field("text", name, start, n)
\* Fields whose width is what is left of the payload after start.
TextToEnd(p, name, start) == Text(name, start, Bits(p) - start)
BinToEnd(p, start) == Field("bin", "bin_data", start, Bits(p) - start)

Mmsi    == Hard("mmsi", 8, 30)
Repeat  == Hard("repeat", 6, 2)
Raim    == Hard("raim", 148, 1)
Radio   == Hard("radio", 149, 19)
Speed(start)   == Soft("speed", start, 10)
Lon(start)     == Soft("lon", start, 28)
Lat(start)     == Soft("lat", start, 27)
Heading(start) == Soft("heading", start, 9)

\* A bug that reads the RAIM flag before the manoeuvre, whose store covers it.
Mut_parse_msg_1_2_3 ==
  <<Repeat, Mmsi, Hard("nav_status", 38, 4), Hard("rot", 42, 8), Speed(50),
    Hard("accuracy", 60, 1), Lon(61), Lat(89), Hard("course", 116, 12),
    Heading(128), Hard("timestamp", 137, 6), Raim, Hard("maneuver", 143, 2),
    Radio>>

parse_msg_1_2_3 ==
  <<Repeat, Mmsi, Hard("nav_status", 38, 4), Hard("rot", 42, 8), Speed(50),
    Hard("accuracy", 60, 1), Lon(61), Lat(89), Hard("course", 116, 12),
    Heading(128), Hard("timestamp", 137, 6), Hard("maneuver", 143, 2),
    Raim, Radio>>

\* A bug that takes a report whose tail is missing.
Mut_parse_msg_4_11 ==
  <<Repeat, Mmsi, Hard("accuracy", 78, 1), Lon(79), Lat(107)>>

parse_msg_4_11 ==
  <<Repeat, Mmsi, Hard("accuracy", 78, 1), Lon(79), Lat(107),
    Hard("timestamp", 137, 6), Raim, Radio>>

parse_msg_5 ==
  <<Mmsi, Hard("imo", 40, 30), Text("callsign", 70, 42),
    Text("vessel_name", 112, 120)>>

\* A bug that leaves the course out.
Mut_parse_msg_9 == <<Mmsi, Lat(107), Lon(79), Speed(50), Heading(128)>>

parse_msg_9 ==
  <<Mmsi, Lat(107), Lon(79), Speed(50), Heading(128), Hard("course", 116, 12)>>

\* A bug that takes the heading's width for the time stamp.
Mut_parse_msg_18_19_24 ==
  <<Repeat, Mmsi, Speed(46), Hard("accuracy", 56, 1), Lon(57), Lat(85),
    Hard("course", 112, 12), Heading(128), Hard("timestamp", 134, 9),
    Raim, Radio>>

parse_msg_18_19_24 ==
  <<Repeat, Mmsi, Speed(46), Hard("accuracy", 56, 1), Lon(57), Lat(85),
    Hard("course", 112, 12), Heading(128), Hard("timestamp", 134, 6),
    Raim, Radio>>

parse_msg_21 == <<Mmsi, Lon(57), Lat(85)>>
parse_msg_27 == <<Mmsi, Lon(44), Lat(61)>>

\* Messages with a text or a blob that runs to the end of the payload.
parse_msg_6(p)  == <<Mmsi, BinToEnd(p, 88)>>
parse_msg_8(p)  == <<Mmsi, BinToEnd(p, 56)>>
parse_msg_12(p) == <<Mmsi, TextToEnd(p, "vessel_name", 72)>>
parse_msg_14(p) == <<Mmsi, TextToEnd(p, "vessel_name", 40)>>
parse_msg_17(p) == <<Mmsi, BinToEnd(p, 80)>>
parse_msg_25(p) == <<Mmsi, BinToEnd(p, 40)>>
parse_msg_26(p) == <<Mmsi, BinToEnd(p, 90)>>

\* Messages of which only the sender is read.
parse_msg_7  == <<Mmsi>>
parse_msg_10 == <<Mmsi>>
parse_msg_13 == <<Mmsi>>
parse_msg_15 == <<Mmsi>>
parse_msg_16 == <<Mmsi>>
parse_msg_20 == <<Mmsi>>
parse_msg_22 == <<Mmsi>>
parse_msg_23 == <<Mmsi>>

SupportedTypes == 1..27

\* The handler that parse_ais_payload's switch selects for p.
Layout(p) ==
  CASE p.type \in 1..3         -> parse_msg_1_2_3
    [] p.type \in {4, 11}      -> parse_msg_4_11
    [] p.type = 5              -> parse_msg_5
    [] p.type = 6              -> parse_msg_6(p)
    [] p.type = 7              -> parse_msg_7
    [] p.type = 8              -> parse_msg_8(p)
    [] p.type = 9              -> parse_msg_9
    [] p.type = 10             -> parse_msg_10
    [] p.type = 12             -> parse_msg_12(p)
    [] p.type = 13             -> parse_msg_13
    [] p.type = 14             -> parse_msg_14(p)
    [] p.type = 15             -> parse_msg_15
    [] p.type = 16             -> parse_msg_16
    [] p.type = 17             -> parse_msg_17(p)
    [] p.type \in {18, 19, 24} -> parse_msg_18_19_24
    [] p.type = 20             -> parse_msg_20
    [] p.type = 21             -> parse_msg_21
    [] p.type = 22             -> parse_msg_22
    [] p.type = 23             -> parse_msg_23
    [] p.type = 25             -> parse_msg_25(p)
    [] p.type = 26             -> parse_msg_26(p)
    [] p.type = 27             -> parse_msg_27

\* parse_string_utf8 succeeds.
ReadsText(p, start, n) ==
  /\ n > 0 /\ n % 6 = 0
  /\ start + n <= Bits(p)
  /\ Legal(p, start, n)

\* parse_bin_payload succeeds: whole bytes are read, a partial one is dropped.
ReadsBin(p, start, n) ==
  /\ n > 0 /\ start + n <= Bits(p)
  /\ \A k \in 0..(n \div 8) - 1 : ReadsUint(p, start + 8 * k, 8)

FieldOk(p, f) == CASE f.kind = "hard" -> ReadsUint(p, f.start, f.n)
                   [] f.kind = "soft" -> TRUE
                   [] f.kind = "text" -> ReadsText(p, f.start, f.n)
                   [] f.kind = "bin"  -> ReadsBin(p, f.start, f.n)

\* parse_ais_payload reads the type, or returns before it selects a handler.
HasType(p) == p.len >= 1 /\ ReadsUint(p, 0, 6)

\* The result of parse_ais_payload; it does not look at fill_bits.
Decode(p) ==
  IF ~HasType(p) THEN "PARSE_ERROR"
  ELSE IF p.type \notin SupportedTypes THEN "PARSE_UNSUPPORTED"
  ELSE IF \A k \in DOMAIN Layout(p) : FieldOk(p, Layout(p)[k]) THEN "PARSE_OK"
  ELSE "PARSE_ERROR"

\* parse_ais_payload calls pg_ais_record_parse_result before it returns.
Recorded(p) == /\ HasType(p)
               /\ p.type \in SupportedTypes \/ RecordsUnsupported

\* Heap pointers of AISMessage, which free_ais_message frees.
HeapFields == {"callsign", "vessel_name", "destination", "bin_data"}

\* Fields that pg_ais_parse prints.
ReportFields == {"mmsi", "lat", "lon", "speed", "heading"}

\* Fields of AISMessage that a successful decode of p has assigned.
Assigned(p) == {Layout(p)[k].name : k \in DOMAIN Layout(p)}

\* lat or lon of a successful decode is NaN: the soft read failed, and
\* normalize_position_fields compares NaN with its limits, which is false.
NaNFields(p) ==
  {f \in {"lat", "lon"} :
     \E k \in DOMAIN Layout(p) :
        LET r == Layout(p)[k]
        IN  r.kind = "soft" /\ r.name = f /\ ~ReadsUint(p, r.start, r.n)}

\* Strings a failing handler leaves behind: parse_msg_5 returns with the call
\* sign allocated when the vessel name cannot be read.
OrphanedStrings(p) ==
  IF /\ HasType(p) /\ p.type = 5
     /\ \A k \in 1..3 : FieldOk(p, parse_msg_5[k])
     /\ ~FieldOk(p, parse_msg_5[4])
  THEN 1 ELSE 0
=============================================================================
