------------------------ MODULE PositionReportProofs ------------------------
(***************************************************************************)
(* Normalisation and accessors, for any set of reports and whatever the    *)
(* stack held.  The invariant says what *msg is at each stage.             *)
(***************************************************************************)
EXTENDS PositionReport, MessageLayoutProofs, TLAPS

PInv ==
  /\ report \in Reports
  /\ stage \in {"read", "ready"} => /\ Type \in SupportedTypes
                                   /\ Decode(report.payload) = "PARSE_OK"
  /\ stage = "read" => Carries("lat") /\ msg = Filled(report)
  /\ stage = "ready" =>
       msg = IF Carries("lat") THEN normalize_position_fields(Filled(report))
                               ELSE Filled(report)

\* A message is filled only when its type has a handler.
LEMMA DecodedIsSupported ==
  ASSUME NEW q, Decode(q) = "PARSE_OK"
  PROVE  q.type \in SupportedTypes
PROOF
  BY DEF Decode

\* The invariant holds at the start and is kept by every step.
LEMMA PInvHolds == Spec => []PInv
PROOF
  <1>1. Init => PInv
    BY DEF Init, PInv
  <1>2. PInv /\ [Next]_pvars => PInv'
    <2> SUFFICES ASSUME PInv, [Next]_pvars PROVE PInv'
      OBVIOUS
    <2> USE DEF PInv, Type, Carries
    <2>1. CASE Refuse
      BY <2>1 DEF Refuse
    <2>2. CASE ReadFields
      BY <2>2, DecodedIsSupported DEF ReadFields
    <2>3. CASE Normalize
      BY <2>3 DEF Normalize
    <2>4. CASE UNCHANGED pvars
      BY <2>4 DEF pvars
    <2> QED
      BY <2>1, <2>2, <2>3, <2>4 DEF Next
  <1> QED
    BY <1>1, <1>2, PTL DEF Spec

-----------------------------------------------------------------------------
\* What the handler stored for a number, when it reads one.
LEMMA FilledWithNumbers ==
  ASSUME NEW r \in Reports, NEW m \in Numbers, m \in Assigned(r.payload)
  PROVE  Filled(r)[m] = StoredIn(r, m)
PROOF
  <1>1. m \in Fields /\ m # "type"
    BY DEF Fields, Members, Offsets, Numbers
  <1> QED
    BY <1>1 DEF Filled

\* Residues are filled in where there are residues, and nowhere else.
LEMMA WithKeeps ==
  ASSUME NEW m, NEW v, NEW f \in DOMAIN m, m[f] # Residue
  PROVE  With(m, v)[f] = m[f]
PROOF
  BY DEF With

-----------------------------------------------------------------------------
\* A position that can be read is a point exactly when it is on the globe, for
\* every report and every content of the stack.
THEOREM PointsAreOnGlobe == Spec => []PointIffOnGlobe
PROOF
  <1>1. PInv => PointIffOnGlobe
    <2> SUFFICES ASSUME PInv, Ready, Carries("lat"),
                        Missing \notin {Raw(report, "lat"), Raw(report, "lon")},
                        NEW v \in Leftovers
                 PROVE  pg_ais_point(With(msg, v)) =
                          IF /\ report.lat \in -LatLimit..LatLimit
                             /\ report.lon \in -LonLimit..LonLimit
                          THEN <<report.lon, report.lat>> ELSE Null
      BY DEF PointIffOnGlobe
    <2> DEFINE m == Filled(report)
               a == With(msg, v)
    <2>1. report \in Reports /\ Type \in SupportedTypes
      BY DEF PInv, Ready
    <2>2. msg = normalize_position_fields(m)
      BY DEF PInv, Ready
    <2>3. Carries("lon")
      BY <2>1, MovingIsLocated DEF Carries, Type
    <2>4. "lat" \in Numbers /\ "lon" \in Numbers
      BY DEF Numbers
    <2>5. report.lat \in Int /\ report.lon \in Int
      BY <2>1, <2>4, ReportsAssumption
    <2>6. m.lat = report.lat /\ m.lon = report.lon
      <3>1. Raw(report, "lat") = report.lat /\ Raw(report, "lon") = report.lon
        BY DEF Raw
      <3>2. m.lat = StoredIn(report, "lat") /\ m.lon = StoredIn(report, "lon")
        BY <2>1, <2>3, <2>4, FilledWithNumbers DEF Carries
      <3> QED
        BY <2>4, <3>1, <3>2 DEF StoredIn, parse_soft
    <2>7. DOMAIN msg = Fields /\ "lat" \in Fields /\ "lon" \in Fields
      <3>1. DOMAIN m = Fields
        BY DEF Filled
      <3>2. "lat" \in Fields /\ "lon" \in Fields
        BY DEF Fields, Members, Offsets
      <3> QED
        BY <2>2, <3>1, <3>2 DEF normalize_position_fields
    <2>8. /\ msg.lat = IF report.lat \in -LatLimit..LatLimit THEN report.lat
                       ELSE 91 * Degree
          /\ msg.lon = IF report.lon \in -LonLimit..LonLimit THEN report.lon
                       ELSE 181 * Degree
      <3> HIDE DEF m
      <3>1. m.lat \notin {NaN, Residue} /\ m.lon \notin {NaN, Residue}
        BY <2>5, <2>6, TokensAssumption
      <3>2. DOMAIN m = DOMAIN msg
        BY <2>2 DEF normalize_position_fields
      <3>3. /\ msg.lat = IF Sentinel("lat", m.lat) THEN Canonical["lat"] ELSE m.lat
            /\ msg.lon = IF Sentinel("lon", m.lon) THEN Canonical["lon"] ELSE m.lon
        BY <2>2, <2>7, <3>1, <3>2 DEF normalize_position_fields
      <3>4. /\ Canonical["lat"] = 91 * Degree /\ Canonical["lon"] = 181 * Degree
            /\ Sentinel("lat", m.lat) <=> m.lat \notin -LatLimit..LatLimit
            /\ Sentinel("lon", m.lon) <=> m.lon \notin -LonLimit..LonLimit
        BY <3>1 DEF Canonical, Sentinel, Outside
      <3> QED
        BY <2>6, <3>3, <3>4
    <2>9. msg.lat \in Int /\ msg.lon \in Int
      BY <2>5, <2>8 DEF Degree
    <2>10. a.lat = msg.lat /\ a.lon = msg.lon
      BY <2>7, <2>9, WithKeeps, TokensAssumption
    <2>11. /\ 91 * Degree \notin -LatLimit..LatLimit
           /\ 181 * Degree \notin -LonLimit..LonLimit
      <3>1. Degree \in Int /\ Degree > 4
        BY SMT DEF Degree
      <3>2. /\ LatLimit \in Int /\ 91 * Degree \in Int /\ 91 * Degree > LatLimit
            /\ LonLimit \in Int /\ 181 * Degree \in Int /\ 181 * Degree > LonLimit
        BY <3>1, SMT DEF LatLimit, LonLimit
      <3>3. \A x, l \in Int : x > l => x \notin -l..l
        BY SMT
      <3> QED
        BY <3>2, <3>3, SMT
    <2>12. OffGlobe(a) <=> ~(/\ report.lat \in -LatLimit..LatLimit
                             /\ report.lon \in -LonLimit..LonLimit)
      <3>1. msg.lat # NaN /\ msg.lon # NaN
        BY <2>9, TokensAssumption
      <3>2. Outside(a.lat, LatLimit) <=> report.lat \notin -LatLimit..LatLimit
        BY <2>8, <2>10, <2>11, <3>1 DEF Outside
      <3>3. Outside(a.lon, LonLimit) <=> report.lon \notin -LonLimit..LonLimit
        BY <2>8, <2>10, <2>11, <3>1 DEF Outside
      <3> QED
        BY <3>2, <3>3 DEF OffGlobe
    <2> QED
      BY <2>8, <2>10, <2>12 DEF pg_ais_point
  <1> QED
    BY <1>1, PInvHolds, PTL

\* What an accessor finds in a number of the message: what the handler stored,
\* or -1 for a sentinel.
LEMMA AccessedNumber ==
  ASSUME PInv, Ready, NEW f \in {"speed", "course", "heading"}, Carries(f), NEW v
  PROVE  LET x == parse_soft(f, Raw(report, f))
         IN  /\ x \in Int
             /\ With(msg, v)[f] = IF Sentinel(f, x) THEN -1 ELSE x
PROOF
  <1> DEFINE m == Filled(report)
             x == parse_soft(f, Raw(report, f))
  <1>1. /\ report \in Reports /\ Type \in SupportedTypes
        /\ f \in Numbers /\ f \in Fields
    BY DEF PInv, Ready, Numbers, Fields, Members, Offsets
  <1>2. Carries("lat")
    BY <1>1, MovingIsLocated DEF Carries, Type
  <1>3. msg = normalize_position_fields(m)
    BY <1>2 DEF PInv, Ready
  <1>4. m[f] = x /\ DOMAIN m = Fields
    <2>1. m[f] = StoredIn(report, f)
      BY <1>1, FilledWithNumbers DEF Carries
    <2>2. DOMAIN m = Fields
      BY DEF Filled
    <2> QED
      BY <1>1, <2>1, <2>2 DEF StoredIn
  <1>5. x \in Int
    <2>1. report[f] \in Int
      BY <1>1, ReportsAssumption
    <2>2. Raw(report, f) = report[f] \/ (f # "course" /\ Raw(report, f) = Missing)
      BY <1>1, SoftFields DEF Raw, Type
    <2>3. f # "course" => Unavailable[f] = -1
      BY DEF Unavailable
    <2>4. CASE f = "course"
      BY <2>1, <2>2, <2>4, TokensAssumption DEF parse_soft
    <2>5. CASE f # "course"
      BY <2>1, <2>2, <2>3, <2>5 DEF parse_soft
    <2> QED
      BY <2>4, <2>5
  <1> HIDE DEF m, x
  <1>6. msg[f] = IF Sentinel(f, x) THEN -1 ELSE x
    <2>1. Canonical[f] = -1
      BY SMT DEF Canonical
    <2>2. x # Residue
      BY <1>5, TokensAssumption
    <2> QED
      BY <1>1, <1>3, <1>4, <2>1, <2>2 DEF normalize_position_fields
  <1>7. f \in DOMAIN msg /\ msg[f] \in Int
    <2>1. DOMAIN msg = Fields
      BY <1>3, <1>4 DEF normalize_position_fields
    <2> QED
      BY <1>1, <1>5, <1>6, <2>1
  <1>8. With(msg, v)[f] = msg[f]
    BY <1>7, WithKeeps, TokensAssumption
  <1> QED
    BY <1>5, <1>6, <1>8 DEF x

\* The numbers of the fields that are not available, and of those that are.
LEMMA SoftNumbers ==
  ASSUME PInv, Ready
  PROVE  /\ Raw(report, "speed") \in 0..1023 \cup {Missing}
         /\ Raw(report, "heading") \in 0..511 \cup {Missing}
         /\ Raw(report, "course") = report.course /\ report.course \in 0..4095
         /\ report.course \in Int
PROOF
  <1>1. report \in Reports /\ Type \in SupportedTypes
    BY DEF PInv, Ready
  <1>2. /\ report.speed \in 0..1023 /\ report.heading \in 0..511
        /\ report.course \in 0..4095 /\ report.course \in Int
    <2>1. "course" \in Numbers
      BY DEF Numbers
    <2> QED
      BY <1>1, <2>1, ReportsAssumption
  <1>3. Raw(report, "course") = report.course
    BY <1>1, SoftFields DEF Raw, Type
  <1> QED
    BY <1>2, <1>3 DEF Raw

\* A course has no sentinel when it is read.
LEMMA CourseIsKept ==
  ASSUME PInv, Ready
  PROVE  parse_soft("course", report.course) = report.course
PROOF
  <1>1. report.course \in Int
    BY SoftNumbers
  <1>2. report.course # Missing
    BY <1>1, TokensAssumption
  <1> QED
    BY <1>2 DEF parse_soft

\* Every sentinel is NULL and every value in range comes out as it went in,
\* for every report.
THEOREM SentinelsAlwaysNull == Spec => []SentinelsAreNull
PROOF
  <1>1. PInv => SentinelsAreNull
    <2> SUFFICES ASSUME PInv, Ready, NEW v \in Leftovers
                 PROVE  LET m       == With(msg, v)
                            speed   == Raw(report, "speed")
                            heading == Raw(report, "heading")
                        IN  /\ Carries("speed") =>
                                 pg_ais_get_float_field(m, "speed")
                                   = IF speed \in {1023, Missing} THEN Null ELSE speed
                            /\ Carries("course") =>
                                 pg_ais_get_float_field(m, "course")
                                   = IF report.course >= 3600 THEN Null ELSE report.course
                            /\ Carries("heading") =>
                                 pg_ais_get_int_field(m, "heading")
                                   = IF heading \in 0..359 THEN heading ELSE Null
      BY DEF SentinelsAreNull
    <2> DEFINE m == With(msg, v)
    <2>1. ASSUME Carries("speed")
          PROVE  pg_ais_get_float_field(m, "speed")
                   = IF Raw(report, "speed") \in {1023, Missing} THEN Null
                     ELSE Raw(report, "speed")
      <3> DEFINE s == Raw(report, "speed")
      <3>1. m["speed"] = IF s \in {1023, Missing} THEN -1 ELSE s
        <4>1. m["speed"] = IF Sentinel("speed", parse_soft("speed", s)) THEN -1
                           ELSE parse_soft("speed", s)
          BY <2>1, AccessedNumber
        <4>2. parse_soft("speed", s) = IF s \in {1023, Missing} THEN -1 ELSE s
          BY SMT DEF parse_soft, Unavailable
        <4>3. s \in 0..1023 \cup {Missing}
          BY SoftNumbers
        <4> QED
          BY <4>1, <4>2, <4>3, SMT DEF Sentinel
      <3>2. s \in 0..1023 \cup {Missing}
        BY SoftNumbers
      <3> HIDE DEF m, s
      <3>3. pg_ais_get_float_field(m, "speed") = IF s \in {1023, Missing} THEN Null ELSE s
        BY <3>1, <3>2, SMT DEF pg_ais_get_float_field
      <3> QED
        BY <3>3 DEF m, s
    <2>2. ASSUME Carries("course")
          PROVE  pg_ais_get_float_field(m, "course")
                   = IF report.course >= 3600 THEN Null ELSE report.course
      <3>1. m["course"] = IF report.course >= 3600 THEN -1 ELSE report.course
        <4>1. m["course"] = IF Sentinel("course", parse_soft("course", report.course))
                            THEN -1 ELSE parse_soft("course", report.course)
          BY <2>2, AccessedNumber, SoftNumbers
        <4>2. parse_soft("course", report.course) = report.course
          BY CourseIsKept
        <4> QED
          BY <4>1, <4>2, SMT DEF Sentinel
      <3>2. report.course \in 0..4095 /\ report.course \in Int
        BY SoftNumbers
      <3> HIDE DEF m
      <3>3. pg_ais_get_float_field(m, "course")
              = IF m["course"] >= 0 THEN m["course"] ELSE Null
        BY DEF pg_ais_get_float_field
      <3>4. PICK c \in 0..4095 : c = report.course
        BY <3>2
      <3>5. m["course"] = IF c >= 3600 THEN -1 ELSE c
        BY <3>1, <3>4
      <3>6. pg_ais_get_float_field(m, "course") = IF c >= 3600 THEN Null ELSE c
        BY <3>3, <3>5
      <3> QED
        BY <3>4, <3>6 DEF m
    <2>3. ASSUME Carries("heading")
          PROVE  pg_ais_get_int_field(m, "heading")
                   = IF Raw(report, "heading") \in 0..359 THEN Raw(report, "heading")
                     ELSE Null
      <3> DEFINE h == Raw(report, "heading")
      <3>1. h \in 0..511 \cup {Missing}
        BY SoftNumbers
      <3>2. m["heading"] = IF h \in {511, Missing} THEN -1 ELSE h
        <4>1. m["heading"] = IF Sentinel("heading", parse_soft("heading", h)) THEN -1
                             ELSE parse_soft("heading", h)
          BY <2>3, AccessedNumber
        <4>2. parse_soft("heading", h) = IF h \in {511, Missing} THEN -1 ELSE h
          BY SMT DEF parse_soft, Unavailable
        <4> QED
          BY <3>1, <4>1, <4>2, SMT DEF Sentinel
      <3> HIDE DEF m, h
      <3>3. pg_ais_get_int_field(m, "heading") = IF h \in 0..359 THEN h ELSE Null
        BY <3>1, <3>2, TokensAssumption, SMT DEF pg_ais_get_int_field
      <3> QED
        BY <3>3 DEF m, h
    <2> QED
      BY <2>1, <2>2, <2>3
  <1> QED
    BY <1>1, PInvHolds, PTL

\* The integer and the float reading of the course agree, for every report.
THEOREM CoursesAlwaysAgree == Spec => []CoursesAgree
PROOF
  <1>1. PInv => CoursesAgree
    <2> SUFFICES ASSUME PInv, Ready, Carries("course"), NEW v \in Leftovers
                 PROVE  LET i == pg_ais_get_int_field(With(msg, v), "course")
                            f == pg_ais_get_float_field(With(msg, v), "course")
                        IN  IF f = Null THEN i = Null ELSE i = f \div 10
      BY DEF CoursesAgree
    <2> DEFINE c == With(msg, v)["course"]
    <2>1. c \in -1..3599
      <3>1. c = IF Sentinel("course", parse_soft("course", report.course))
                THEN -1 ELSE parse_soft("course", report.course)
        BY AccessedNumber, SoftNumbers
      <3>2. parse_soft("course", report.course) = report.course
        BY CourseIsKept
      <3>3. report.course \in 0..4095
        BY SoftNumbers
      <3> QED
        BY <3>1, <3>2, <3>3, SMT DEF Sentinel
    <2>2. /\ pg_ais_get_float_field(With(msg, v), "course") = IF c >= 0 THEN c ELSE Null
          /\ pg_ais_get_int_field(With(msg, v), "course")
               = IF c \in 0..3600 THEN c \div 10 ELSE Null
      BY DEF pg_ais_get_float_field, pg_ais_get_int_field
    <2> HIDE DEF c
    <2>3. c # Null
      <3>1. Null \notin Int
        BY TokensAssumption
      <3> QED
        BY <2>1, <3>1
    <2>4. CASE c >= 0
      <3>1. pg_ais_get_float_field(With(msg, v), "course") = c
        BY <2>2, <2>4
      <3>2. pg_ais_get_int_field(With(msg, v), "course") = c \div 10
        BY <2>1, <2>2, <2>4
      <3> QED
        BY <2>3, <3>1, <3>2
    <2>5. c >= 0 \/ c = -1
      BY <2>1
    <2>6. CASE c = -1
      <3>1. pg_ais_get_float_field(With(msg, v), "course") = Null
        BY <2>2, <2>6
      <3>2. pg_ais_get_int_field(With(msg, v), "course") = Null
        BY <2>2, <2>6
      <3> QED
        BY <3>1, <3>2
    <2> QED
      BY <2>4, <2>5, <2>6
  <1> QED
    BY <1>1, PInvHolds, PTL

-----------------------------------------------------------------------------
(* What is in a message                                                    *)

\* What is stored for a field is never a residue, and is Own or a number.
LEMMA StoredIsNumber ==
  ASSUME NEW r, r.payload.type \in SupportedTypes,
         \A m \in Numbers : r[m] \in Int,
         NEW m, m \in Assigned(r.payload)
  PROVE  /\ m \in Numbers => StoredIn(r, m) \in Int \cup {NaN}
         /\ m \notin Numbers => StoredIn(r, m) = Own
         /\ StoredIn(r, m) # Residue
PROOF
  <1>1. ASSUME m \in Numbers  PROVE StoredIn(r, m) \in Int \cup {NaN}
    <2>1. Raw(r, m) = Missing => m \in {"lat", "lon", "speed", "heading"}
      BY <1>1, SoftFields, TokensAssumption DEF Raw
    <2>2. Raw(r, m) = Missing \/ Raw(r, m) \in Int
      BY <1>1 DEF Raw
    <2>3. \A f \in {"lat", "lon", "speed", "heading"} :
            Unavailable[f] \in Int \cup {NaN}
      BY DEF Unavailable
    <2>4. StoredIn(r, m) = Raw(r, m) \/ StoredIn(r, m) = Unavailable[m]
      BY <1>1 DEF StoredIn, parse_soft
    <2>5. Raw(r, m) = Missing => StoredIn(r, m) = Unavailable[m]
      BY <1>1 DEF StoredIn, parse_soft
    <2>6. StoredIn(r, m) = Unavailable[m]
            => m \in {"lat", "lon", "speed", "heading"} \/ StoredIn(r, m) = Raw(r, m)
      BY <1>1, <2>1 DEF StoredIn, parse_soft
    <2> QED
      BY <2>1, <2>2, <2>3, <2>4, <2>5, <2>6
  <1>2. m \notin Numbers => StoredIn(r, m) = Own
    BY DEF StoredIn
  <1> QED
    BY <1>1, <1>2, TokensAssumption

\* A member is left over exactly when the handler neither stores nor covers it.
LEMMA FilledResidue ==
  ASSUME NEW r, r.payload.type \in SupportedTypes,
         \A m \in Numbers : r[m] \in Int,
         NEW m \in Fields
  PROVE  Filled(r)[m] = Residue
           <=> m # "type" /\ m \notin Assigned(r.payload) \cup Overrun(r.payload)
PROOF
  <1>1. HandledAs(r.payload.type) \in Int
    BY DEF HandledAs, SupportedTypes
  <1>2. Filled(r)[m] = IF m = "type" THEN HandledAs(r.payload.type)
                       ELSE IF m \in Assigned(r.payload) THEN StoredIn(r, m)
                       ELSE IF m \in Overrun(r.payload) THEN 0
                       ELSE Residue
    BY DEF Filled
  <1>3. m \in Assigned(r.payload) => StoredIn(r, m) # Residue
    BY StoredIsNumber
  <1> QED
    BY <1>1, <1>2, <1>3, TokensAssumption

\* Normalisation leaves residues what they are, and values what they are or
\* the canonical value of a sentinel.
LEMMA NormalizeKeeps ==
  ASSUME NEW m, NEW f \in DOMAIN m
  PROVE  LET n == normalize_position_fields(m)
         IN  /\ DOMAIN n = DOMAIN m
             /\ \/ n[f] = m[f]
                \/ m[f] # Residue /\ Sentinel(f, m[f]) /\ n[f] = Canonical[f]
             /\ n[f] = Residue <=> m[f] = Residue
PROOF
  <1>1. ASSUME NEW v, Sentinel(f, v)
        PROVE  Canonical[f] \in Int
    <2>1. f \in {"lat", "lon", "speed", "course", "heading", "timestamp"}
      BY <1>1 DEF Sentinel
    <2>2. 91 * Degree \in Int /\ 181 * Degree \in Int
      BY SMT DEF Degree
    <2> QED
      BY <2>1, <2>2 DEF Canonical
  <1> DEFINE n == normalize_position_fields(m)
  <1>2. DOMAIN n = DOMAIN m
    BY DEF normalize_position_fields
  <1>3. n[f] = IF m[f] # Residue /\ Sentinel(f, m[f]) THEN Canonical[f] ELSE m[f]
    BY DEF normalize_position_fields
  <1> HIDE DEF n
  <1>4. /\ \/ n[f] = m[f]
           \/ m[f] # Residue /\ Sentinel(f, m[f]) /\ n[f] = Canonical[f]
        /\ n[f] = Residue <=> m[f] = Residue
    BY <1>1, <1>3, TokensAssumption
  <1> QED
    BY <1>2, <1>4 DEF n

\* The message the accessors see: filled, and its values those of the handler
\* or canonical.
LEMMA ReadyMessage ==
  ASSUME PInv, Ready
  PROVE  /\ report \in Reports /\ Type \in SupportedTypes
         /\ \A m \in Numbers : report[m] \in Int
         /\ IsPayload(report.payload)
         /\ Decode(report.payload) = "PARSE_OK"
         /\ DOMAIN msg = Fields
         /\ \A f \in Fields :
              /\ msg[f] = Residue <=> Filled(report)[f] = Residue
              /\ \/ msg[f] = Filled(report)[f]
                 \/ Sentinel(f, Filled(report)[f]) /\ msg[f] = Canonical[f]
PROOF
  <1>1. /\ report \in Reports /\ Type \in SupportedTypes
        /\ Decode(report.payload) = "PARSE_OK"
    BY DEF PInv, Ready
  <1>2. DOMAIN Filled(report) = Fields
    BY DEF Filled
  <1>3. \/ msg = Filled(report)
        \/ msg = normalize_position_fields(Filled(report))
    BY DEF PInv, Ready
  <1>4. \A m \in Numbers : report[m] \in Int
    BY <1>1, ReportsAssumption
  <1>5. IsPayload(report.payload)
    BY <1>1, ReportsAssumption
  <1> DEFINE r == Filled(report)
  <1> HIDE DEF r
  <1>6. DOMAIN msg = Fields
    BY <1>2, <1>3 DEF r, normalize_position_fields
  <1>7. ASSUME NEW f \in Fields
        PROVE  /\ msg[f] = Residue <=> r[f] = Residue
               /\ \/ msg[f] = r[f]
                  \/ Sentinel(f, r[f]) /\ msg[f] = Canonical[f]
    <2>1. CASE msg = r
      BY <2>1
    <2>2. CASE msg = normalize_position_fields(r)
      BY <1>2, <2>2, NormalizeKeeps DEF r
    <2> QED
      BY <1>3, <2>1, <2>2 DEF r
  <1> QED
    BY <1>1, <1>4, <1>5, <1>6, <1>7 DEF r

\* Every column and every key is a member, or one of those that have no place
\* in the struct.
LEMMA ColumnsAreFields ==
  /\ RowColumns \cup DebugKeys \subseteq Fields
  /\ Unstored \cap Members = {} /\ "type" \notin Members
PROOF
  BY SMTT(30) DEF RowColumns, DebugKeys, pg_ais_fields, Fields, Unstored, Members,
                  Offsets

\* Types with the same handler assign the same members.
LEMMA HandledAlike ==
  ASSUME NEW t \in SupportedTypes
  PROVE  HandledAs(t) \in SupportedTypes /\ Named(HandledAs(t)) = Named(t)
PROOF
  BY DEF HandledAs, Named, SupportedTypes

\* The type that is printed tells which of the entries printed with it are the
\* message's, for every report.
THEOREM TypeAlwaysTells == Spec => []TypeTellsColumns
PROOF
  <1>1. PInv => TypeTellsColumns
    <2> SUFFICES ASSUME PInv, Ready, NEW m \in RowColumns \cup DebugKeys
                 PROVE  msg[m] = Residue <=>
                          Filled([report EXCEPT !.payload.type = msg.type])[m] = Residue
      BY DEF TypeTellsColumns
    <2> DEFINE q  == report.payload
               r2 == [report EXCEPT !.payload.type = msg.type]
               q2 == r2.payload
    <2>1. m \in Fields
      BY ColumnsAreFields
    <2>2. msg.type = HandledAs(q.type)
      <3>1. "type" \in Fields
        BY DEF Fields
      <3>2. Filled(report)["type"] = HandledAs(q.type)
        BY <3>1 DEF Filled
      <3>3. \A v : ~Sentinel("type", v)
        BY DEF Sentinel
      <3> QED
        BY <3>1, <3>2, <3>3, ReadyMessage
    <2>3. "payload" \notin Numbers /\ DOMAIN report = Numbers \cup {"payload"}
      BY ReadyMessage, ReportsAssumption DEF Numbers
    <2>4. q2.type = msg.type /\ \A n \in Numbers : r2[n] \in Int
      <3>1. DOMAIN q = {"type", "len", "bad"}
        BY ReadyMessage DEF IsPayload
      <3> QED
        BY <2>3, <3>1, ReadyMessage
    <2>5. q.type \in SupportedTypes /\ q2.type \in SupportedTypes
      BY <2>2, <2>4, ReadyMessage, HandledAlike DEF Type
    <2>6. Assigned(q2) = Assigned(q)
      BY <2>2, <2>4, <2>5, AssignedOf, HandledAlike
    <2>7. Overrun(q2) = Overrun(q)
      BY <2>6 DEF Overrun
    <2>8. Filled(r2)[m] = Residue
            <=> m # "type" /\ m \notin Assigned(q2) \cup Overrun(q2)
      BY <2>1, <2>4, <2>5, FilledResidue
    <2>9. Filled(report)[m] = Residue
            <=> m # "type" /\ m \notin Assigned(q) \cup Overrun(q)
      BY <2>1, <2>5, ReadyMessage, FilledResidue
    <2>10. msg[m] = Residue <=> Filled(report)[m] = Residue
      BY <2>1, ReadyMessage
    <2> QED
      BY <2>6, <2>7, <2>8, <2>9, <2>10
  <1> QED
    BY <1>1, PInvHolds, PTL

\* A coordinate of a legal payload is NaN only in types 9, 21 and 27, in
\* payloads that end before it, for payloads of any length.
THEOREM NaNAlwaysCutOff == Spec => []NaNOnlyWhenCutOff
PROOF
  <1>1. PInv => NaNOnlyWhenCutOff
    <2> SUFFICES ASSUME PInv, Ready, report.payload.bad = {},
                        NEW f \in {"lat", "lon"}, msg[f] = NaN
                 PROVE  \/ Type = 9 /\ report.payload.len < 23
                        \/ Type = 21 /\ report.payload.len < 19
                        \/ Type = 27 /\ report.payload.len < 15
      BY DEF NaNOnlyWhenCutOff
    <2> DEFINE q == report.payload
    <2>1. f \in Fields /\ f \in Numbers /\ f # "type"
      BY DEF Fields, Members, Offsets, Numbers
    <2>2. Filled(report)[f] = NaN
      <3>1. Canonical[f] \in Int
        BY SMT DEF Canonical, Degree
      <3> QED
        BY <2>1, <3>1, ReadyMessage, TokensAssumption
    <2>3. f \in Assigned(q) /\ StoredIn(report, f) = NaN
      <3>1. Filled(report)[f] = IF f \in Assigned(q) THEN StoredIn(report, f)
                                ELSE IF f \in Overrun(q) THEN 0
                                ELSE Residue
        BY <2>1 DEF Filled
      <3> QED
        BY <2>2, <3>1, TokensAssumption
    <2>4. Raw(report, f) = Missing
      <3>1. parse_soft(f, Raw(report, f)) = NaN
        BY <2>1, <2>3 DEF StoredIn
      <3>2. report[f] \in Int
        BY <2>1, ReadyMessage
      <3> QED
        BY <3>1, <3>2, TokensAssumption DEF parse_soft, Raw
    <2>5. PICK k \in DOMAIN Layout(q) :
            /\ Layout(q)[k].name = f
            /\ ~ReadsUint(q, Layout(q)[k].start, Layout(q)[k].n)
      <3>1. report[f] # Missing
        BY <2>1, ReadyMessage, TokensAssumption
      <3> QED
        BY <2>4, <3>1 DEF Raw
    <2>6. q.len \in Nat /\ q.type \in SupportedTypes
      BY ReadyMessage DEF IsPayload, Type
    <2>7. \/ q.type \in {1, 2, 3, 4, 11, 18, 19, 24} /\ q.len < 28
          \/ q.type = 9 /\ q.len < 23
          \/ q.type = 21 /\ q.len < 19
          \/ q.type = 27 /\ q.len < 15
      BY <2>5, <2>6, PositionNeeds
    <2>8. q.type \in {1, 2, 3, 4, 11, 18, 19, 24} => q.len >= 28
      BY <2>6, ReadyMessage, ReportNeeds
    <2> QED
      BY <2>6, <2>7, <2>8 DEF Type
  <1> QED
    BY <1>1, PInvHolds, PTL

-----------------------------------------------------------------------------
(* Which answers are the message's                                         *)

\* The members that are filled by running over: three, in the reports whose
\* handler stores their neighbours but not them.
LEMMA OverrunOf ==
  ASSUME NEW q, q.type \in SupportedTypes
  PROVE  Overrun(q) = IF q.type \in Flagged \ 1..3
                      THEN {"nav_status", "rot", "maneuver"} ELSE {}
PROOF
  <1> DEFINE Excess(a) == Offsets[a] + Size(a) .. Offsets[a] + Width(a) - 1
             Over(s) == {m \in Members \ s : \A b \in Bytes(m) :
                           \E a \in s : b \in Excess(a)}
  <1>1. PICK t \in 1..27 : q.type = t
    BY DEF SupportedTypes
  <1>2. Overrun(q) = Over(Named(t))
    <2>1. Assigned(q) = Named(t)
      BY <1>1, AssignedOf
    <2> QED
      BY <2>1 DEF Overrun
  <1>3. ASSUME NEW m \in Members
        PROVE  /\ Offsets[m] \in Nat /\ Offsets[m] \in Bytes(m)
               /\ Offsets[m] + Size(m) - 1 \in Bytes(m)
               /\ m \notin OneByte => Excess(m) = {}
               /\ m \in OneByte => Excess(m) = Offsets[m] + 1 .. Offsets[m] + 3
    <2>1. Offsets[m] \in Nat /\ Size(m) \in {1, 4, 8}
      BY DEF Members, Offsets, Size
    <2>2. m \notin OneByte => Size(m) = Width(m)
      BY DEF Size, Width, Pointers, OneByte
    <2>3. m \in OneByte => Size(m) = 1 /\ Width(m) = 4
      BY DEF Size, Width, Pointers, OneByte
    <2> QED
      BY <2>1, <2>2, <2>3 DEF Bytes
  <1>4. ASSUME NEW s \in SUBSET (Members \ OneByte)  PROVE Over(s) = {}
    BY <1>3
  <1>5. ASSUME NEW s \in SUBSET Members,
               {"repeat", "accuracy", "timestamp", "raim"} \subseteq s,
               s \cap OneByte \subseteq {"repeat", "nav_status", "rot", "accuracy",
                                         "timestamp", "maneuver", "raim"}
        PROVE  Over(s) = {"nav_status", "rot", "maneuver"} \ s
    <2> DEFINE Run == 85..90 \cup 93..97
    <2>1. ASSUME NEW a \in s  PROVE Excess(a) \subseteq Run
      <3>1. CASE a \notin OneByte
        BY <1>3, <3>1
      <3>2. CASE a \in OneByte
        <4>1. a \in {"repeat", "nav_status", "rot", "accuracy", "timestamp",
                     "maneuver", "raim"}
          BY <1>5, <3>2
        <4>2. Offsets[a] \in {84, 85, 86, 87, 92, 93, 94}
          BY <4>1 DEF Offsets
        <4>3. Excess(a) = Offsets[a] + 1 .. Offsets[a] + 3
          BY <1>3, <3>2
        <4> HIDE DEF Excess
        <4> QED
          BY <4>2, <4>3
      <3> QED
        BY <3>1, <3>2
    <2>2. ASSUME NEW m \in Members \ {"nav_status", "rot", "accuracy", "maneuver",
                                      "raim"}
          PROVE  \E b \in Bytes(m) : b \notin Run
      <3>1. \/ Offsets[m] \notin Run
            \/ Offsets[m] + Size(m) - 1 \notin Run
        BY DEF Members, Offsets, Size, OneByte, Pointers
      <3> QED
        BY <1>3, <3>1
    <2>3. ASSUME NEW m \in {"nav_status", "rot", "maneuver"}
          PROVE  m \in Members /\ \A b \in Bytes(m) : \E a \in s : b \in Excess(a)
      <3>1. m \in Members /\ Bytes(m) = {Offsets[m]}
        BY DEF Members, Offsets, OneByte, Bytes, Size
      <3>2. Excess("repeat") = 85..87 /\ Excess("timestamp") = 93..95
        BY DEF Offsets, OneByte, Size, Width, Pointers
      <3>3. Offsets[m] \in {85, 86, 93}
        BY DEF Offsets
      <3>4. Offsets[m] \in Excess("repeat") \/ Offsets[m] \in Excess("timestamp")
        BY <3>2, <3>3
      <3> HIDE DEF Excess
      <3> QED
        BY <1>5, <3>1, <3>4
    <2>4. ASSUME NEW m, m \in Over(s)
          PROVE  m \in {"nav_status", "rot", "maneuver"} \ s
      <3>1. m \in Members \ s /\ \A b \in Bytes(m) : b \in Run
        BY <2>1, <2>4
      <3> HIDE DEF Run
      <3> QED
        BY <1>5, <2>2, <3>1
    <2>5. ASSUME NEW m, m \in {"nav_status", "rot", "maneuver"} \ s
          PROVE  m \in Over(s)
      BY <2>3, <2>5
    <2> HIDE DEF Over
    <2> QED
      BY <2>4, <2>5
  <1>6. Named(t) \subseteq Members
    BY DEF Named, Report, Position, Movement, Members, Offsets
  <1>7. CASE t \in Flagged
    <2>1. {"repeat", "accuracy", "timestamp", "raim"} \subseteq Named(t)
      <3>1. Report \subseteq Named(t)
        BY <1>7 DEF Flagged, Named
      <3> QED
        BY <3>1 DEF Report
    <2>2. Named(t) \cap OneByte \subseteq
            {"repeat", "nav_status", "rot", "accuracy", "timestamp", "maneuver", "raim"}
      <3>1. \A m \in Named(t) : m \notin {"fix_type", "ship_type"}
        BY <1>7 DEF Flagged, Named, Report, Position, Movement
      <3> QED
        BY <3>1 DEF OneByte
    <2>3. {"nav_status", "rot", "maneuver"} \cap Named(t) =
            IF t \in 1..3 THEN {"nav_status", "rot", "maneuver"} ELSE {}
      BY <1>7 DEF Flagged, Named, Report, Position, Movement
    <2> HIDE DEF Over
    <2>4. Over(Named(t)) = {"nav_status", "rot", "maneuver"} \ Named(t)
      BY <1>5, <1>6, <2>1, <2>2
    <2> QED
      BY <1>1, <1>2, <1>7, <2>3, <2>4
  <1>8. CASE t \notin Flagged
    <2>1. Named(t) \subseteq Position \cup Movement
                       \cup {"imo", "callsign", "vessel_name", "bin_data"}
      BY <1>8 DEF Flagged, Named, Position
    <2>2. Named(t) \in SUBSET (Members \ OneByte)
      BY <1>6, <2>1 DEF Position, Movement, OneByte
    <2> HIDE DEF Over
    <2> QED
      BY <1>1, <1>2, <1>4, <1>8, <2>2
  <1> QED
    BY <1>7, <1>8

\* Which of the members that the accessors read are not left over, by type.
LEMMA KnownMembers ==
  ASSUME PInv, Ready
  PROVE  /\ Type \in SupportedTypes
         /\ msg.mmsi # Residue
         /\ \A f \in {"lat", "lon"} : msg[f] # Residue <=> Type \in Located
         /\ \A f \in {"speed", "course", "heading"} :
              msg[f] # Residue <=> Type \in Moving
         /\ \A f \in {"raim", "accuracy", "nav_status"} :
              msg[f] # Residue <=> Type \in Flagged
         /\ msg.callsign # Residue <=> Type = 5
         /\ msg.assigned = Residue /\ msg.shipname = Residue
         /\ Type \in Flagged \ 1..3 => msg.nav_status = 0
PROOF
  <1> DEFINE q == report.payload
             over == IF Type \in Flagged \ 1..3
                     THEN {"nav_status", "rot", "maneuver"} ELSE {}
  <1>1. q.type \in SupportedTypes /\ q.type = Type
    BY ReadyMessage DEF Type
  <1>2. Assigned(q) = Named(Type) /\ Overrun(q) = over
    BY <1>1, AssignedOf, OverrunOf
  <1>3. ASSUME NEW f \in Fields \ {"type"}
        PROVE  msg[f] # Residue <=> f \in Named(Type) \/ f \in over
    <2>1. msg[f] = Residue <=> Filled(report)[f] = Residue
      BY ReadyMessage
    <2>2. Filled(report)[f] = Residue <=> f \notin Assigned(q) \cup Overrun(q)
      BY <1>1, ReadyMessage, FilledResidue
    <2> QED
      BY <1>2, <2>1, <2>2
  <1>4. {"mmsi", "lat", "lon", "speed", "course", "heading", "raim", "accuracy",
         "nav_status", "callsign", "assigned", "shipname"} \subseteq Fields \ {"type"}
    BY DEF Fields, Members, Offsets, Unstored
  <1>5. PICK t \in 1..27 : t = Type
    BY <1>1 DEF SupportedTypes
  <1>6. /\ "mmsi" \in Named(t)
        /\ \A f \in {"lat", "lon"} : f \in Named(t) <=> t \in Located
        /\ \A f \in Movement : f \in Named(t) <=> t \in Moving
        /\ \A f \in {"raim", "accuracy"} : f \in Named(t) <=> t \in Flagged
        /\ "nav_status" \in Named(t) <=> t \in 1..3
        /\ "callsign" \in Named(t) <=> t = 5
        /\ "assigned" \notin Named(t) /\ "shipname" \notin Named(t)
    <2>1. CASE t \in 1..3
      <3>1. Named(t) = Report \cup Movement \cup {"nav_status", "rot", "maneuver"}
        BY <2>1 DEF Named
      <3> QED
        BY <2>1, <3>1
           DEF Report, Position, Movement, Located, Moving, Flagged
    <2>2. CASE t \in {4, 11}
      <3>1. Named(t) = Report
        BY <2>2 DEF Named
      <3> QED
        BY <2>2, <3>1
           DEF Report, Position, Movement, Located, Moving, Flagged
    <2>3. CASE t \in {18, 19, 24}
      <3>1. Named(t) = Report \cup Movement
        BY <2>3 DEF Named
      <3> QED
        BY <2>3, <3>1
           DEF Report, Position, Movement, Located, Moving, Flagged
    <2>4. CASE t = 5
      <3>1. Named(t) = {"mmsi", "imo", "callsign", "vessel_name"}
        BY <2>4 DEF Named
      <3> QED
        BY <2>4, <3>1
           DEF Report, Position, Movement, Located, Moving, Flagged
    <2>5. CASE t = 9
      <3>1. Named(t) = Position \cup Movement
        BY <2>5 DEF Named
      <3> QED
        BY <2>5, <3>1
           DEF Report, Position, Movement, Located, Moving, Flagged
    <2>6. CASE t \in {21, 27}
      <3>1. Named(t) = Position
        BY <2>6 DEF Named
      <3> QED
        BY <2>6, <3>1
           DEF Report, Position, Movement, Located, Moving, Flagged
    <2>7. CASE t \in {6, 7, 8, 10, 12, 13, 14, 15, 16, 17, 20, 22, 23, 25, 26}
      <3>1. /\ "mmsi" \in Named(t)
            /\ Named(t) \subseteq {"mmsi", "vessel_name", "bin_data"}
        BY <2>7 DEF Named
      <3> QED
        BY <2>7, <3>1
           DEF Report, Position, Movement, Located, Moving, Flagged
    <2> QED
      BY <2>1, <2>2, <2>3, <2>4, <2>5, <2>6, <2>7
  <1>7. /\ over \subseteq {"nav_status", "rot", "maneuver"}
        /\ "nav_status" \in over <=> t \in Flagged \ 1..3
    BY <1>5
  <1>8. Type \in Flagged \ 1..3 => msg.nav_status = 0
    <2> SUFFICES ASSUME Type \in Flagged \ 1..3  PROVE msg.nav_status = 0
      OBVIOUS
    <2>1. "nav_status" \in Overrun(q) /\ "nav_status" \notin Assigned(q)
      BY <1>2, <1>5, <1>6, <1>7
    <2>2. "nav_status" \in Fields
      BY <1>4
    <2>3. Filled(report)["nav_status"] = 0
      BY <2>1, <2>2 DEF Filled
    <2>4. \A v : ~Sentinel("nav_status", v)
      BY DEF Sentinel
    <2> QED
      BY <2>2, <2>3, <2>4, ReadyMessage
  <1>9. 1..3 \subseteq Flagged
    BY DEF Flagged
  <1> HIDE DEF over, q
  <1>10. /\ msg.mmsi # Residue <=> "mmsi" \in Named(t)
         /\ \A f \in {"lat", "lon", "speed", "course", "heading", "raim", "accuracy",
                      "callsign", "assigned", "shipname"} :
              msg[f] # Residue <=> f \in Named(t)
         /\ msg["nav_status"] # Residue <=> t \in Flagged
    BY <1>3, <1>4, <1>5, <1>6, <1>7, <1>9
  <1> QED
    BY <1>1, <1>5, <1>6, <1>8, <1>10 DEF Movement

\* What the accessors find: a member that is not left over, and else what the
\* stack held.
LEMMA WithIs ==
  ASSUME PInv, Ready, NEW v, NEW f \in Fields
  PROVE  With(msg, v)[f] = IF msg[f] = Residue THEN v ELSE msg[f]
PROOF
  BY ReadyMessage DEF With

\* Coordinates, when they are not left over, are numbers.
LEMMA CoordinatesAreNumbers ==
  ASSUME PInv, Ready, NEW f \in {"lat", "lon"}, msg[f] # Residue
  PROVE  msg[f] \in Int \cup {NaN}
PROOF
  <1>1. f \in Fields /\ f \in Numbers /\ f # "type"
    BY DEF Fields, Members, Offsets, Numbers
  <1>2. Canonical[f] \in Int
    BY SMT DEF Canonical, Degree
  <1>3. Filled(report)[f] # Residue
    BY <1>1, ReadyMessage
  <1>4. Filled(report)[f] \in Int \cup {NaN}
    <2>1. Type = report.payload.type
      BY DEF Type
    <2>2. f \in Assigned(report.payload) => StoredIn(report, f) \in Int \cup {NaN}
      BY <1>1, <2>1, ReadyMessage, StoredIsNumber
    <2>3. Filled(report)[f] = IF f \in Assigned(report.payload)
                              THEN StoredIn(report, f)
                              ELSE IF f \in Overrun(report.payload) THEN 0
                              ELSE Residue
      BY <1>1 DEF Filled
    <2> QED
      BY <1>3, <2>2, <2>3
  <1> QED
    BY <1>1, <1>2, <1>4, ReadyMessage

\* The neighbours that memcpy takes in with lon and with lat.
LEMMA Neighbours ==
  ASSUME NEW m
  PROVE  Eight(m, "lon") = <<m["lon"], m["speed"]>>
         /\ Eight(m, "lat") = <<m["lat"], m["lon"]>>
PROOF
  <1>1. \A g \in Members : Offsets[g] = Offsets["lon"] + 4 <=> g = "speed"
    BY DEF Members, Offsets
  <1>2. \A g \in Members : Offsets[g] = Offsets["lat"] + 4 <=> g = "lon"
    BY DEF Members, Offsets
  <1>3. "speed" \in Members /\ "lon" \in Members
    BY DEF Members, Offsets
  <1>4. (CHOOSE g \in Members : Offsets[g] = Offsets["lon"] + 4) = "speed"
    BY <1>1, <1>3
  <1>5. (CHOOSE g \in Members : Offsets[g] = Offsets["lat"] + 4) = "lon"
    BY <1>2, <1>3
  <1> QED
    BY <1>4, <1>5 DEF Eight

\* Which accessors answer from the message, for every type, every report and
\* any content of the stack: the table is exact in both directions.
THEOREM AnswersAlwaysKnown == Spec => []AnswersAreKnown
PROOF
  <1>1. PInv => AnswersAreKnown
    <2> SUFFICES ASSUME PInv, Ready
        PROVE
          /\ \A v, w \in Leftovers : pg_ais_get_int_field(With(msg, v), "mmsi")
                                       = pg_ais_get_int_field(With(msg, w), "mmsi")
          /\ (\A v, w \in Leftovers :
                pg_ais_point(With(msg, v)) = pg_ais_point(With(msg, w)))
               <=> Type \in Located
          /\ (\A v, w \in Leftovers :
                pg_ais_point_geom(With(msg, v)) = pg_ais_point_geom(With(msg, w)))
               <=> \/ Type \in Moving
                   \/ Type \in Located /\ pg_ais_point(msg) = Null
          /\ \A f \in {"speed", "course"} :
               (\A v, w \in Leftovers : pg_ais_get_float_field(With(msg, v), f)
                                          = pg_ais_get_float_field(With(msg, w), f))
               <=> Type \in Moving
          /\ \A f \in {"heading", "course"} :
               (\A v, w \in Leftovers : pg_ais_get_int_field(With(msg, v), f)
                                          = pg_ais_get_int_field(With(msg, w), f))
               <=> Type \in Moving
          /\ \A f \in {"raim", "accuracy"} :
               (\A v, w \in Leftovers : pg_ais_get_bool_field(With(msg, v), f)
                                          = pg_ais_get_bool_field(With(msg, w), f))
               <=> Type \in Flagged
          /\ (\A v, w \in Leftovers :
                pg_ais_get_int_field(With(msg, v), "nav_status")
                  = pg_ais_get_int_field(With(msg, w), "nav_status"))
               <=> Type \in Flagged
          /\ Type \in Flagged \ 1..3 => msg.nav_status = 0
          /\ (\A v, w \in Leftovers :
                pg_ais_get_text_field(With(msg, v), "callsign")
                  = pg_ais_get_text_field(With(msg, w), "callsign"))
               <=> Type = 5
          /\ ~(\A v, w \in Leftovers :
                 pg_ais_get_bool_field(With(msg, v), "assigned")
                   = pg_ais_get_bool_field(With(msg, w), "assigned"))
          /\ ~(\A v, w \in Leftovers :
                 pg_ais_get_text_field(With(msg, v), "shipname")
                   = pg_ais_get_text_field(With(msg, w), "shipname"))
      BY DEF AnswersAreKnown, Known
    <2> DEFINE M(v) == With(msg, v)
    <2>1. 0 \in Leftovers /\ 5 \in Leftovers /\ -1 \in Leftovers
      BY LeftoversAssumption
    <2>2. /\ Null \notin Int
          /\ Null \notin (Int \cup {NaN}) \X (Int \cup {NaN}) /\ NaN \notin Int
      BY TokensAssumption
    <2>3. ASSUME NEW v
          PROVE  /\ \A f \in {"mmsi", "nav_status", "lat", "lon", "speed", "course",
                              "heading", "raim", "accuracy", "callsign", "assigned",
                              "shipname"} :
                      M(v)[f] = IF msg[f] = Residue THEN v ELSE msg[f]
      <3>1. {"mmsi", "nav_status", "lat", "lon", "speed", "course", "heading", "raim",
             "accuracy", "callsign", "assigned", "shipname"} \subseteq Fields
        BY DEF Fields, Members, Offsets, Unstored
      <3> QED
        BY <3>1, WithIs
    <2> HIDE DEF M
    <2>4. \A v, w \in Leftovers : pg_ais_get_int_field(M(v), "mmsi")
                                       = pg_ais_get_int_field(M(w), "mmsi")
      BY <2>3, KnownMembers DEF pg_ais_get_int_field
    <2>5. ASSUME NEW f \in {"heading", "course", "nav_status"}
          PROVE  (\A v, w \in Leftovers : pg_ais_get_int_field(M(v), f)
                                            = pg_ais_get_int_field(M(w), f))
                 <=> msg[f] # Residue
      <3>1. ASSUME msg[f] # Residue, NEW v \in Leftovers, NEW w \in Leftovers
            PROVE  pg_ais_get_int_field(M(v), f) = pg_ais_get_int_field(M(w), f)
        <4>1. M(v)[f] = M(w)[f]
          BY <2>3, <3>1
        <4> QED
          BY <4>1 DEF pg_ais_get_int_field
      <3>2. ASSUME msg[f] = Residue
            PROVE  pg_ais_get_int_field(M(5), f) # pg_ais_get_int_field(M(-1), f)
        <4>1. M(5)[f] = 5 /\ M(-1)[f] = -1
          BY <2>3, <3>2
        <4>2. pg_ais_get_int_field(M(5), f) \in {0, 5}
          <5>1. CASE f = "course"
            BY <4>1, <5>1 DEF pg_ais_get_int_field
          <5>2. CASE f = "heading"
            BY <4>1, <5>2 DEF pg_ais_get_int_field
          <5>3. CASE f = "nav_status"
            BY <4>1, <5>3 DEF pg_ais_get_int_field
          <5> QED
            BY <5>1, <5>2, <5>3
        <4>3. pg_ais_get_int_field(M(-1), f) = Null
          <5>1. CASE f = "course"
            <6> DEFINE c == M(-1)["course"]
            <6>1. pg_ais_get_int_field(M(-1), "course")
                    = IF c \in 0..3600 THEN c \div 10 ELSE Null
              BY DEF pg_ais_get_int_field
            <6>2. c = -1
              BY <4>1, <5>1
            <6> HIDE DEF c
            <6>3. pg_ais_get_int_field(M(-1), "course") = Null
              BY <6>1, <6>2
            <6> QED
              BY <5>1, <6>3
          <5>2. CASE f = "heading"
            BY <4>1, <5>2 DEF pg_ais_get_int_field
          <5>3. CASE f = "nav_status"
            BY <4>1, <5>3 DEF pg_ais_get_int_field
          <5> QED
            BY <5>1, <5>2, <5>3
        <4> QED
          BY <2>2, <4>2, <4>3
      <3> QED
        BY <2>1, <3>1, <3>2
    <2>6. ASSUME NEW f \in {"speed", "course"}
          PROVE  (\A v, w \in Leftovers : pg_ais_get_float_field(M(v), f)
                                            = pg_ais_get_float_field(M(w), f))
                 <=> msg[f] # Residue
      <3>1. ASSUME msg[f] # Residue, NEW v \in Leftovers, NEW w \in Leftovers
            PROVE  pg_ais_get_float_field(M(v), f) = pg_ais_get_float_field(M(w), f)
        <4>1. M(v)[f] = M(w)[f]
          BY <2>3, <3>1
        <4> QED
          BY <4>1 DEF pg_ais_get_float_field
      <3>2. ASSUME msg[f] = Residue
            PROVE  pg_ais_get_float_field(M(5), f) # pg_ais_get_float_field(M(-1), f)
        <4>1. M(5)[f] = 5 /\ M(-1)[f] = -1
          BY <2>3, <3>2
        <4>2. /\ pg_ais_get_float_field(M(5), f) = 5
              /\ pg_ais_get_float_field(M(-1), f) = Null
          BY <4>1 DEF pg_ais_get_float_field
        <4> QED
          BY <2>2, <4>2
      <3> QED
        BY <2>1, <3>1, <3>2
    <2>7. ASSUME NEW f \in {"raim", "accuracy", "assigned"}
          PROVE  (\A v, w \in Leftovers : pg_ais_get_bool_field(M(v), f)
                                            = pg_ais_get_bool_field(M(w), f))
                 <=> msg[f] # Residue
      <3>1. \A v : pg_ais_get_bool_field(M(v), f)
                     = IF msg[f] = Residue THEN v ELSE msg[f]
        BY <2>3 DEF pg_ais_get_bool_field
      <3> QED
        BY <2>1, <3>1
    <2>8. ASSUME NEW f \in {"callsign", "shipname"}
          PROVE  (\A v, w \in Leftovers : pg_ais_get_text_field(M(v), f)
                                            = pg_ais_get_text_field(M(w), f))
                 <=> msg[f] # Residue
      <3>1. ASSUME msg[f] # Residue, NEW v \in Leftovers, NEW w \in Leftovers
            PROVE  pg_ais_get_text_field(M(v), f) = pg_ais_get_text_field(M(w), f)
        <4>1. M(v)[f] = M(w)[f]
          BY <2>3, <3>1
        <4> QED
          BY <4>1 DEF pg_ais_get_text_field
      <3>2. ASSUME msg[f] = Residue
            PROVE  pg_ais_get_text_field(M(5), f) # pg_ais_get_text_field(M(0), f)
        <4>1. M(5)[f] = 5 /\ M(0)[f] = 0
          BY <2>3, <3>2
        <4>2. /\ pg_ais_get_text_field(M(5), f) = 5
              /\ pg_ais_get_text_field(M(0), f) = Null
          BY <4>1 DEF pg_ais_get_text_field
        <4> QED
          BY <2>2, <4>2
      <3> QED
        BY <2>1, <3>1, <3>2
    <2>9. ASSUME Type \in Located, NEW v
          PROVE  /\ M(v)["lat"] = msg.lat /\ M(v)["lon"] = msg.lon
                 /\ OffGlobe(M(v)) <=> OffGlobe(msg)
                 /\ pg_ais_point(M(v)) = pg_ais_point(msg)
                 /\ pg_ais_point(msg) = Null <=> OffGlobe(msg)
      <3>1. msg.lat # Residue /\ msg.lon # Residue
        BY <2>9, KnownMembers
      <3>2. M(v)["lat"] = msg.lat /\ M(v)["lon"] = msg.lon
        BY <2>3, <3>1
      <3>3. OffGlobe(M(v)) <=> OffGlobe(msg)
        BY <3>2 DEF OffGlobe
      <3>4. <<msg.lon, msg.lat>> \in (Int \cup {NaN}) \X (Int \cup {NaN})
        BY <3>1, CoordinatesAreNumbers
      <3> QED
        BY <2>2, <3>2, <3>3, <3>4 DEF pg_ais_point
    <2>10. ASSUME Type \notin Located, NEW v \in {0, 5}
           PROVE  M(v)["lat"] = v /\ M(v)["lon"] = v /\ ~OffGlobe(M(v))
      <3>1. M(v)["lat"] = v /\ M(v)["lon"] = v
        BY <2>3, <2>10, KnownMembers
      <3>2. LatLimit \in Int /\ LatLimit >= 5 /\ LonLimit \in Int /\ LonLimit >= 5
        BY SMT DEF LatLimit, LonLimit, Degree
      <3>3. v \in -LatLimit..LatLimit /\ v \in -LonLimit..LonLimit
        BY <3>2
      <3> QED
        BY <3>1, <3>3 DEF OffGlobe, Outside
    <2>11. (\A v, w \in Leftovers : pg_ais_point(M(v)) = pg_ais_point(M(w)))
             <=> Type \in Located
      <3>1. ASSUME Type \notin Located
            PROVE  pg_ais_point(M(0)) # pg_ais_point(M(5))
        <4>1. pg_ais_point(M(0)) = <<0, 0>> /\ pg_ais_point(M(5)) = <<5, 5>>
          BY <2>10, <3>1 DEF pg_ais_point
        <4> QED
          BY <4>1
      <3> QED
        BY <2>1, <2>9, <3>1
    <2>12. ASSUME NEW v
           PROVE  pg_ais_point_geom(M(v)) =
                    IF OffGlobe(M(v)) THEN Null
                    ELSE <<<<M(v)["lon"], M(v)["speed"]>>, <<M(v)["lat"], M(v)["lon"]>>>>
      BY Neighbours DEF pg_ais_point_geom
    <2>13. (\A v, w \in Leftovers :
              pg_ais_point_geom(M(v)) = pg_ais_point_geom(M(w)))
             <=> \/ Type \in Moving
                 \/ Type \in Located /\ pg_ais_point(msg) = Null
      <3>1. Moving \subseteq Located
        BY DEF Moving, Located
      <3>2. ASSUME Type \in Moving, NEW v, NEW w
            PROVE  pg_ais_point_geom(M(v)) = pg_ais_point_geom(M(w))
        <4>1. M(v)["speed"] = msg.speed /\ M(w)["speed"] = msg.speed
          BY <2>3, <3>2, KnownMembers
        <4>2. Type \in Located
          BY <3>1, <3>2
        <4> QED
          BY <2>9, <2>12, <4>1, <4>2
      <3>3. ASSUME Type \in Located, pg_ais_point(msg) = Null, NEW v, NEW w
            PROVE  pg_ais_point_geom(M(v)) = pg_ais_point_geom(M(w))
        BY <2>9, <2>12, <3>3
      <3>4. ASSUME Type \in Located, Type \notin Moving, pg_ais_point(msg) # Null
            PROVE  pg_ais_point_geom(M(0)) # pg_ais_point_geom(M(5))
        <4>1. M(0)["speed"] = 0 /\ M(5)["speed"] = 5
          BY <2>3, <3>4, KnownMembers
        <4>2. ~OffGlobe(M(0)) /\ ~OffGlobe(M(5))
          BY <2>9, <3>4
        <4> QED
          BY <2>12, <4>1, <4>2
      <3>5. ASSUME Type \notin Located
            PROVE  pg_ais_point_geom(M(0)) # pg_ais_point_geom(M(5))
        <4>1. /\ M(0)["lon"] = 0 /\ M(5)["lon"] = 5
              /\ ~OffGlobe(M(0)) /\ ~OffGlobe(M(5))
          BY <2>10, <3>5
        <4> QED
          BY <2>12, <4>1
      <3> QED
        BY <2>1, <3>1, <3>2, <3>3, <3>4, <3>5
    <2> QED
      BY <2>4, <2>5, <2>6, <2>7, <2>8, <2>11, <2>13, KnownMembers DEF M
  <1> QED
    BY <1>1, PInvHolds, PTL
=============================================================================
