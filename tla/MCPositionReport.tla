-------------------------- MODULE MCPositionReport --------------------------
(***************************************************************************)
(* Reports with each field at its sentinel, at its limits and just past    *)
(* them, in all combinations of the coordinates and of the other fields;   *)
(* and messages of every type, whole, cut short and damaged.               *)
(***************************************************************************)
EXTENDS PositionReport

Lats == {0, 90 * Degree, LatLimit, LatLimit + 1, -LatLimit, -LatLimit - 1,
         91 * Degree, 2^26 - 1, -(2^26)}
Lons == {0, 180 * Degree, LonLimit, LonLimit + 1, -LonLimit, -LonLimit - 1,
         181 * Degree, 2^27 - 1, -(2^27)}
Headings == {0, 359, 360, 510, 511}

Report(payload, lat, lon, speed, course, heading, timestamp) ==
  [payload |-> payload, mmsi |-> 1, nav_status |-> 15, lat |-> lat, lon |-> lon,
   speed |-> speed, course |-> course, heading |-> heading,
   timestamp |-> timestamp]

Whole(type) == [type |-> type, len |-> 28, bad |-> {}]
Cut == {q \in [type : 1..28, len : {7, 13, 14, 15, 18, 19, 22, 23, 28, 39},
               bad : {{}, {15}}] : \A b \in q.bad : b < q.len}

EdgeReports ==
  {Report(Whole(t), a, o, 0, 0, 0, 0) : t \in {1, 4}, a \in Lats, o \in Lons}
    \cup {Report(Whole(18), 0, 0, s, c, h, t) :
            s \in {0, 1, 1021, 1022, 1023}, c \in {9, 3599, 3600, 3601, 4095},
            h \in Headings, t \in {59, 60}}
    \cup {Report(p, 0, 0, 1, 0, 0, 0) : p \in Cut}

\* A null pointer, a value that every test takes, one that it does not, and
\* one that lies off the globe.
StackValues == {0, 5, -1, 200 * Degree}
=============================================================================
