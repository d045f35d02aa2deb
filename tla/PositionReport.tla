--------------------------- MODULE PositionReport ---------------------------
(***************************************************************************)
(* From the raw fields of a payload to what the SQL accessors return: the  *)
(* reads of the type's handler, normalize_position_fields, and the         *)
(* functions of ais_core.c on the AISMessage.  That is a local variable    *)
(* nobody initialises: a member no handler stored holds a residue.         *)
(*                                                                         *)
(* Units are those of the raw fields: lat and lon in 1/600000 degree,      *)
(* speed and course in tenths, heading in degrees; -1 stands for the C     *)
(* value -1 in each.  The members are floats, which matters at the limits  *)
(* of lat and lon only: the floats next to 90 and 180 are several raw      *)
(* units apart.                                                            *)
(***************************************************************************)
EXTENDS MessageMemory

CONSTANTS Reports,   \* payloads, each with the numbers in its fields
          Leftovers, \* what a stack slot may happen to hold
          Missing,   \* the number in a field that cannot be read
          NaN,       \* the float value
          Residue,   \* the content of a member nothing was stored in
          Own,       \* the content of a field that is no number
          Null       \* SQL NULL

VARIABLES report, \* the payload and its numbers
          msg,    \* the AISMessage
          stage   \* "received", "read", "ready" for the accessors, "refused"
pvars == <<report, msg, stage>>

Degree == 600000
Numbers == {"mmsi", "nav_status", "lat", "lon", "speed", "course", "heading",
            "timestamp"}

\* The numbers are as wide as their fields.
ASSUME ReportsAssumption ==
  \A r \in Reports : /\ DOMAIN r = Numbers \cup {"payload"}
                     /\ IsPayload(r.payload)
                     /\ \A m \in Numbers : r[m] \in Int
                     /\ r.speed \in 0..1023
                     /\ r.course \in 0..4095
                     /\ r.heading \in 0..511

ASSUME TokensAssumption ==
  /\ \A t \in {Missing, NaN, Residue, Own, Null} : t \notin Int
  /\ Residue \notin {Missing, NaN, Own}
  /\ Null \notin {Missing, NaN, Own, Residue}
  /\ Null \notin (Int \cup {NaN}) \X (Int \cup {NaN})
  /\ Missing # NaN

\* The stack may hold anything: among the rest a null pointer, a value that
\* every test of the accessors takes and one that none takes.
ASSUME LeftoversAssumption == {0, 5, -1} \subseteq Leftovers

\* The last raw values that the conversion to float does not lift above 90
\* and 180 degrees.
LatLimit == 90 * Degree + 2
LonLimit == 180 * Degree + 4

\* a < -limit || a > limit, on floats: false for NaN.
Outside(a, limit) == a # NaN /\ a \notin -limit..limit

\* The numbers of a report as its payload gives them: a soft field may lie
\* past the payload's end, or over an illegal character.
Raw(r, m) ==
  IF \E k \in DOMAIN Layout(r.payload) :
       LET f == Layout(r.payload)[k]
       IN  f.name = m /\ f.kind = "soft" /\ ~ReadsUint(r.payload, f.start, f.n)
  THEN Missing ELSE r[m]

-----------------------------------------------------------------------------
(* Reading                                                                 *)

\* What parse_lat, parse_lon, parse_speed and parse_heading return for a field
\* that is not available.
Unavailable == [lat |-> NaN, lon |-> NaN, speed |-> -1, heading |-> -1]

parse_soft(m, v) ==
  IF v = Missing \/ (m = "speed" /\ v = 1023) \/ (m = "heading" /\ v = 511)
  THEN Unavailable[m] ELSE v

\* A bug that labels base station reports as class A ones.
MutHandledAs(type) == IF type \in {1, 2, 3, 4, 11} THEN 1
                      ELSE IF type \in {18, 19, 24} THEN 18
                      ELSE type

\* msg->type: a handler of several types stores one of them.
HandledAs(type) == IF type \in 1..3 THEN 1
                   ELSE IF type \in {4, 11} THEN 4
                   ELSE IF type \in {18, 19, 24} THEN 18
                   ELSE type

\* What a handler that succeeds leaves in *msg.
StoredIn(r, m) == IF m \in Numbers THEN parse_soft(m, Raw(r, m)) ELSE Own

\* Members the accessors name that no handler stores; three of them are not
\* even declared.
Unstored == {"shipname", "assigned", "alt_sensor", "retransmit"}
Fields   == Members \cup Unstored \cup {"type"}

Unread == [m \in Fields |-> Residue]

Filled(r) ==
  [m \in Fields |->
     IF m = "type" THEN HandledAs(r.payload.type)
     ELSE IF m \in Assigned(r.payload) THEN StoredIn(r, m)
     ELSE IF m \in Overrun(r.payload) THEN 0
     ELSE Residue]

Init == report \in Reports /\ msg = Unread /\ stage = "received"

\* The accessors return NULL, or raise an ERROR.
Refuse ==
  /\ stage = "received"
  /\ Decode(report.payload) # "PARSE_OK"
  /\ stage' = "refused"
  /\ UNCHANGED <<report, msg>>

\* The handlers that read a position go on to normalise it.
ReadFields ==
  /\ stage = "received"
  /\ Decode(report.payload) = "PARSE_OK"
  /\ msg' = Filled(report)
  /\ stage' = IF "lat" \in Assigned(report.payload) THEN "read" ELSE "ready"
  /\ UNCHANGED report

\* A bug that leaves the course out.
MutSentinel(f, v) ==
  \/ f = "lat"       /\ Outside(v, LatLimit)
  \/ f = "lon"       /\ Outside(v, LonLimit)
  \/ f = "speed"     /\ v > 1022
  \/ f = "heading"   /\ v >= 511
  \/ f = "timestamp" /\ v = 60

\* The values that are replaced, and what by.
Sentinel(f, v) ==
  \/ f = "lat"       /\ Outside(v, LatLimit)
  \/ f = "lon"       /\ Outside(v, LonLimit)
  \/ f = "speed"     /\ v > 1022
  \/ f = "course"    /\ v >= 3600
  \/ f = "heading"   /\ v >= 511
  \/ f = "timestamp" /\ v = 60
Canonical == [lat |-> 91 * Degree, lon |-> 181 * Degree, speed |-> -1,
              course |-> -1, heading |-> -1, timestamp |-> 255]

\* A residue stays one, whichever way its test goes.
normalize_position_fields(m) ==
  [f \in DOMAIN m |->
     IF m[f] # Residue /\ Sentinel(f, m[f]) THEN Canonical[f] ELSE m[f]]

Normalize ==
  /\ stage = "read"
  /\ msg' = normalize_position_fields(msg)
  /\ stage' = "ready"
  /\ UNCHANGED report

Next == Refuse \/ ReadFields \/ Normalize

Spec == Init /\ [][Next]_pvars

-----------------------------------------------------------------------------
(* Accessors, on an AISMessage whose residues have some value              *)

With(m, residue) ==
  [f \in DOMAIN m |-> IF m[f] = Residue THEN residue ELSE m[f]]

\* A bug that tests one coordinate only.
MutOffGlobe(m) == Outside(m.lat, LatLimit)

OffGlobe(m) == Outside(m.lat, LatLimit) \/ Outside(m.lon, LonLimit)

pg_ais_point(m) == IF OffGlobe(m) THEN Null ELSE <<m.lon, m.lat>>

\* memcpy of eight bytes from the address of a float: it and its neighbour.
Eight(m, f) == <<m[f], m[CHOOSE g \in Members : Offsets[g] = Offsets[f] + 4]>>

pg_ais_point_geom(m) ==
  IF OffGlobe(m) THEN Null ELSE <<Eight(m, "lon"), Eight(m, "lat")>>

pg_ais_get_int_field(m, name) ==
  IF \/ name = "mmsi"       /\ m.mmsi > 0
     \/ name = "heading"    /\ m.heading \in 0..359
     \/ name = "nav_status" /\ m.nav_status \in 0..15
     \/ name = "course"     /\ m.course \in 0..3600
  THEN IF name = "course" THEN m.course \div 10 ELSE m[name]
  ELSE Null

pg_ais_get_float_field(m, name) ==
  IF name \in {"speed", "course"} /\ m[name] >= 0 THEN m[name] ELSE Null

pg_ais_get_bool_field(m, name) ==
  IF name \in {"raim", "accuracy", "assigned"} THEN m[name] ELSE Null

\* Zero is the null pointer.
pg_ais_get_text_field(m, name) ==
  IF name \in {"shipname", "callsign"} /\ m[name] # 0 THEN m[name] ELSE Null

\* The members of which pg_ais_debug makes its object and pg_ais_fields its row.
DebugKeys == {"type", "mmsi", "lat", "lon", "speed", "heading", "raim",
              "accuracy", "alt_sensor", "retransmit"}
RowColumns == pg_ais_fields \cup {"type"}

-----------------------------------------------------------------------------
(* What the readers of a message are promised                              *)

Ready == stage = "ready"
Type  == report.payload.type
Carries(m) == m \in Assigned(report.payload)

\* A report whose coordinates can be read gives a point exactly when both are
\* on the globe, and then its own: the sentinels 91 and 181, and raw values
\* past the limits, come through normalisation and the accessor's test as NULL.
PointIffOnGlobe ==
  Ready /\ Carries("lat") /\ Missing \notin {Raw(report, "lat"), Raw(report, "lon")} =>
    \A v \in Leftovers :
      pg_ais_point(With(msg, v)) =
        IF /\ report.lat \in -LatLimit..LatLimit
           /\ report.lon \in -LonLimit..LonLimit
        THEN <<report.lon, report.lat>> ELSE Null

\* "Not available" in the payload is NULL for every accessor, and a value in
\* the range of its field comes out as it went in.  The expected outputs of the
\* regression test have a heading of 511 and a course of 360.0, which the code
\* answers for none that has them.
SentinelsAreNull ==
  Ready => \A v \in Leftovers :
    LET m       == With(msg, v)
        speed   == Raw(report, "speed")
        heading == Raw(report, "heading")
    IN  /\ Carries("speed") =>
             pg_ais_get_float_field(m, "speed")
               = IF speed \in {1023, Missing} THEN Null ELSE speed
        /\ Carries("course") =>
             pg_ais_get_float_field(m, "course")
               = IF report.course >= 3600 THEN Null ELSE report.course
        /\ Carries("heading") =>
             pg_ais_get_int_field(m, "heading")
               = IF heading \in 0..359 THEN heading ELSE Null

\* The two readings of the course agree: both NULL, or one the other's floor.
CoursesAgree ==
  Ready /\ Carries("course") => \A v \in Leftovers :
    LET i == pg_ais_get_int_field(With(msg, v), "course")
        f == pg_ais_get_float_field(With(msg, v), "course")
    IN  IF f = Null THEN i = Null ELSE i = f \div 10

\* The answer does not depend on what the stack held.
Known(Ask(_)) ==
  \A v, w \in Leftovers : Ask(With(msg, v)) = Ask(With(msg, w))

Located == {1, 2, 3, 4, 9, 11, 18, 19, 21, 24, 27}
Moving  == {1, 2, 3, 9, 18, 19, 24}
Flagged == {1, 2, 3, 4, 11, 18, 19, 24}

\* Which accessors answer from the message, by its type, and for which types
\* they give away what the stack held.  The geometry copies the speed too, so
\* that it is known for fewer types than the point.  nav_status is known to
\* be 0 ("under way") in types that have none: the repeat indicator, stored
\* one byte before it, runs over it.
AnswersAreKnown ==
  Ready =>
    /\ Known(LAMBDA m : pg_ais_get_int_field(m, "mmsi"))
    /\ Known(pg_ais_point) <=> Type \in Located
    /\ Known(pg_ais_point_geom) <=>
         \/ Type \in Moving
         \/ Type \in Located /\ pg_ais_point(msg) = Null
    /\ \A f \in {"speed", "course"} :
         Known(LAMBDA m : pg_ais_get_float_field(m, f)) <=> Type \in Moving
    /\ \A f \in {"heading", "course"} :
         Known(LAMBDA m : pg_ais_get_int_field(m, f)) <=> Type \in Moving
    /\ \A f \in {"raim", "accuracy"} :
         Known(LAMBDA m : pg_ais_get_bool_field(m, f)) <=> Type \in Flagged
    /\ Known(LAMBDA m : pg_ais_get_int_field(m, "nav_status")) <=> Type \in Flagged
    /\ Type \in Flagged \ 1..3 => msg.nav_status = 0
    /\ Known(LAMBDA m : pg_ais_get_text_field(m, "callsign")) <=> Type = 5
    /\ ~Known(LAMBDA m : pg_ais_get_bool_field(m, "assigned"))
    /\ ~Known(LAMBDA m : pg_ais_get_text_field(m, "shipname"))

\* The type in a row or object tells which of its other entries are the
\* message's: a message of that type stores exactly the same ones.
TypeTellsColumns ==
  Ready => \A m \in RowColumns \cup DebugKeys :
    msg[m] = Residue <=>
      Filled([report EXCEPT !.payload.type = msg.type])[m] = Residue

\* A coordinate of a legal payload becomes NaN, which passes for one on the
\* globe, only in the three types whose handlers need nothing behind it, and
\* there only in payloads that end too early.
NaNOnlyWhenCutOff ==
  Ready /\ report.payload.bad = {} /\ NaN \in {msg.lat, msg.lon} =>
    LET Needed == [t \in {9, 21, 27} |-> CASE t = 9 -> 23 [] t = 21 -> 19 [] t = 27 -> 15]
    IN  Type \in DOMAIN Needed /\ report.payload.len < Needed[Type]
=============================================================================
