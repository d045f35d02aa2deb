------------------------ MODULE MessageLayoutProofs ------------------------
(***************************************************************************)
(* What the handlers' layouts have in common, for the proofs about         *)
(* decoding and about the values of a message, and induction on natural    *)
(* numbers in a form that every proof of the project can cite.             *)
(***************************************************************************)
EXTENDS MessageLayout, WellFoundedInduction, TLAPS

\* Every set of natural numbers that is not empty has a least element.
LEMMA LeastNatural ==
  ASSUME NEW S \in SUBSET Nat, S # {}
  PROVE  \E m \in S : \A n \in S : m <= n
PROOF
  <1>1. PICK m \in S : \A n \in S : <<n, m>> \notin OpToRel(<, Nat)
    BY WFMin, NatLessThanWellFounded, Zenon
  <1>2. \A n \in S : ~(n < m)
    BY <1>1, Zenon DEF OpToRel
  <1> QED
    BY <1>2

\* Induction as a fact about sets: a set of natural numbers that holds 0, and
\* with a number the next one, holds them all.
LEMMA SetInduction ==
  ASSUME NEW S, 0 \in S, \A n \in Nat : n \in S => n + 1 \in S
  PROVE  \A n \in Nat : n \in S
PROOF
  <1> SUFFICES ASSUME NEW n \in Nat, n \notin S
               PROVE  FALSE
    OBVIOUS
  <1> DEFINE Missing == Nat \ S
  <1>1. PICK m \in Missing : \A k \in Missing : m <= k
    BY LeastNatural
  <1>2. m # 0
    BY <1>1
  <1>3. m - 1 \in Nat /\ m - 1 \notin Missing
    BY <1>1, <1>2
  <1> QED
    BY <1>1, <1>3

\* The handlers' layouts.
Layouts(q) ==
  {parse_msg_1_2_3, parse_msg_4_11, parse_msg_18_19_24, parse_msg_5,
   parse_msg_9, parse_msg_21, parse_msg_27, parse_msg_7, parse_msg_10,
   parse_msg_13, parse_msg_15, parse_msg_16, parse_msg_20, parse_msg_22,
   parse_msg_23, parse_msg_6(q), parse_msg_8(q), parse_msg_12(q),
   parse_msg_14(q), parse_msg_17(q), parse_msg_25(q), parse_msg_26(q)}

\* Every supported type has one of the handlers.
LEMMA LayoutIsOneOf ==
  ASSUME NEW q, q.type \in SupportedTypes
  PROVE  Layout(q) \in Layouts(q)
PROOF
  <1>1. PICK t \in 1..27 : q.type = t
    BY DEF SupportedTypes
  <1> QED
    BY <1>1 DEF Layout, Layouts

\* The layout of a supported type is a sequence: its fields are numbered from
\* 1 without a gap.
LEMMA LayoutIsSequence ==
  ASSUME NEW q, q.type \in SupportedTypes
  PROVE  DOMAIN Layout(q) = 1..Len(Layout(q)) /\ Len(Layout(q)) \in Nat
PROOF
  <1> DEFINE Sequence(l) == DOMAIN l = 1..Len(l) /\ Len(l) \in Nat
  <1>1. Layout(q) \in Layouts(q)
    BY LayoutIsOneOf
  <1>2. /\ Sequence(parse_msg_1_2_3)
        /\ Sequence(parse_msg_4_11)
        /\ Sequence(parse_msg_18_19_24)
    BY DEF parse_msg_1_2_3, parse_msg_4_11, parse_msg_18_19_24
  <1>3. /\ Sequence(parse_msg_5) /\ Sequence(parse_msg_9)
        /\ Sequence(parse_msg_21) /\ Sequence(parse_msg_27)
    BY DEF parse_msg_5, parse_msg_9, parse_msg_21, parse_msg_27
  <1>4. /\ Sequence(parse_msg_7) /\ Sequence(parse_msg_10)
        /\ Sequence(parse_msg_13) /\ Sequence(parse_msg_15)
        /\ Sequence(parse_msg_16) /\ Sequence(parse_msg_20)
        /\ Sequence(parse_msg_22) /\ Sequence(parse_msg_23)
    BY DEF parse_msg_7, parse_msg_10, parse_msg_13, parse_msg_15,
           parse_msg_16, parse_msg_20, parse_msg_22, parse_msg_23
  <1>5. /\ Sequence(parse_msg_6(q)) /\ Sequence(parse_msg_8(q))
        /\ Sequence(parse_msg_12(q)) /\ Sequence(parse_msg_14(q))
        /\ Sequence(parse_msg_17(q)) /\ Sequence(parse_msg_25(q))
        /\ Sequence(parse_msg_26(q))
    BY DEF parse_msg_6, parse_msg_8, parse_msg_12, parse_msg_14,
           parse_msg_17, parse_msg_25, parse_msg_26
  <1> QED
    BY <1>1, <1>2, <1>3, <1>4, <1>5, Zenon DEF Layouts

\* Only coordinates, speed and heading may fail softly.
LEMMA SoftFields ==
  ASSUME NEW q, q.type \in SupportedTypes, NEW k \in DOMAIN Layout(q),
         Layout(q)[k].kind = "soft"
  PROVE  Layout(q)[k].name \in {"lat", "lon", "speed", "heading"}
PROOF
  <1> DEFINE Soft4(l) == \A i \in DOMAIN l : l[i].kind = "soft" =>
                           l[i].name \in {"lat", "lon", "speed", "heading"}
  <1>1. Layout(q) \in Layouts(q)
    BY LayoutIsOneOf
  <1> USE DEF Repeat, Mmsi, Hard, Soft, Text, Speed, Lon, Lat, Heading, Raim,
              Radio, TextToEnd, BinToEnd, Field
  <1>2. Soft4(parse_msg_1_2_3)
    BY DEF parse_msg_1_2_3
  <1>3. Soft4(parse_msg_4_11)
    BY DEF parse_msg_4_11
  <1>4. Soft4(parse_msg_18_19_24)
    BY DEF parse_msg_18_19_24
  <1>5. /\ Soft4(parse_msg_5) /\ Soft4(parse_msg_9)
        /\ Soft4(parse_msg_21) /\ Soft4(parse_msg_27)
    BY DEF parse_msg_5, parse_msg_9, parse_msg_21, parse_msg_27
  <1>6. /\ Soft4(parse_msg_7) /\ Soft4(parse_msg_10) /\ Soft4(parse_msg_13)
        /\ Soft4(parse_msg_15) /\ Soft4(parse_msg_16) /\ Soft4(parse_msg_20)
        /\ Soft4(parse_msg_22) /\ Soft4(parse_msg_23)
    BY DEF parse_msg_7, parse_msg_10, parse_msg_13, parse_msg_15,
           parse_msg_16, parse_msg_20, parse_msg_22, parse_msg_23
  <1>7. /\ Soft4(parse_msg_6(q)) /\ Soft4(parse_msg_8(q))
        /\ Soft4(parse_msg_12(q)) /\ Soft4(parse_msg_14(q))
        /\ Soft4(parse_msg_17(q)) /\ Soft4(parse_msg_25(q))
        /\ Soft4(parse_msg_26(q))
    BY DEF parse_msg_6, parse_msg_8, parse_msg_12, parse_msg_14, parse_msg_17,
           parse_msg_25, parse_msg_26
  <1> HIDE DEF Soft4
  <1>8. Soft4(Layout(q))
    BY <1>1, <1>2, <1>3, <1>4, <1>5, <1>6, <1>7, Zenon DEF Layouts
  <1> QED
    BY <1>8, Zenon DEF Soft4

-----------------------------------------------------------------------------
(* The members that each type assigns                                      *)

Position == {"mmsi", "lat", "lon"}
Report   == Position \cup {"repeat", "accuracy", "timestamp", "raim", "radio"}
Movement == {"speed", "course", "heading"}

Named(t) ==
  CASE t \in 1..3              -> Report \cup Movement
                                    \cup {"nav_status", "rot", "maneuver"}
    [] t \in {4, 11}           -> Report
    [] t \in {18, 19, 24}      -> Report \cup Movement
    [] t = 5                   -> {"mmsi", "imo", "callsign", "vessel_name"}
    [] t = 9                   -> Position \cup Movement
    [] t \in {21, 27}          -> Position
    [] t \in {6, 8, 17, 25, 26} -> {"mmsi", "bin_data"}
    [] t \in {12, 14}          -> {"mmsi", "vessel_name"}
    [] t \in {7, 10, 13, 15, 16, 20, 22, 23} -> {"mmsi"}

\* The names of the handlers' fields, for each handler.
LEMMA NamesOfHandlers ==
  ASSUME NEW q
  PROVE  LET Names(l) == {l[k].name : k \in DOMAIN l}
         IN  /\ Names(parse_msg_1_2_3) = Named(1)
             /\ Names(parse_msg_4_11) = Named(4)
             /\ Names(parse_msg_18_19_24) = Named(18)
             /\ Names(parse_msg_5) = Named(5)
             /\ Names(parse_msg_9) = Named(9)
             /\ Names(parse_msg_21) = Named(21)
             /\ Names(parse_msg_27) = Named(27)
             /\ Names(<<Mmsi>>) = Named(7)
             /\ Names(parse_msg_6(q)) = Named(6)
             /\ Names(parse_msg_8(q)) = Named(8)
             /\ Names(parse_msg_12(q)) = Named(12)
             /\ Names(parse_msg_14(q)) = Named(14)
             /\ Names(parse_msg_17(q)) = Named(17)
             /\ Names(parse_msg_25(q)) = Named(25)
             /\ Names(parse_msg_26(q)) = Named(26)
PROOF
  <1> DEFINE Names(l) == {l[k].name : k \in DOMAIN l}
  <1> USE DEF Repeat, Mmsi, Hard, Soft, Text, Speed, Lon, Lat, Heading, Raim,
              Radio, TextToEnd, BinToEnd, Field
  <1>1. Names(parse_msg_1_2_3) = Named(1)
    <2> DEFINE l == parse_msg_1_2_3
    <2>1. /\ DOMAIN l = 1..14
          /\ l[1].name = "repeat" /\ l[2].name = "mmsi" /\ l[3].name = "nav_status"
          /\ l[4].name = "rot" /\ l[5].name = "speed" /\ l[6].name = "accuracy"
          /\ l[7].name = "lon" /\ l[8].name = "lat" /\ l[9].name = "course"
          /\ l[10].name = "heading" /\ l[11].name = "timestamp"
          /\ l[12].name = "maneuver" /\ l[13].name = "raim" /\ l[14].name = "radio"
      BY DEF parse_msg_1_2_3
    <2> HIDE DEF l
    <2>2. Names(l) = {"repeat", "mmsi", "nav_status", "rot", "speed", "accuracy",
                      "lon", "lat", "course", "heading", "timestamp", "maneuver",
                      "raim", "radio"}
      BY <2>1
    <2> QED
      BY <2>2 DEF l, Named, Report, Position, Movement
  <1>2. Names(parse_msg_4_11) = Named(4)
    <2> DEFINE l == parse_msg_4_11
    <2>1. /\ DOMAIN l = 1..8
          /\ l[1].name = "repeat" /\ l[2].name = "mmsi" /\ l[3].name = "accuracy"
          /\ l[4].name = "lon" /\ l[5].name = "lat" /\ l[6].name = "timestamp"
          /\ l[7].name = "raim" /\ l[8].name = "radio"
      BY DEF parse_msg_4_11
    <2> HIDE DEF l
    <2>2. Names(l) = {"repeat", "mmsi", "accuracy", "lon", "lat", "timestamp",
                      "raim", "radio"}
      BY <2>1
    <2> QED
      BY <2>2 DEF l, Named, Report, Position
  <1>3. Names(parse_msg_18_19_24) = Named(18)
    <2> DEFINE l == parse_msg_18_19_24
    <2>1. /\ DOMAIN l = 1..11
          /\ l[1].name = "repeat" /\ l[2].name = "mmsi" /\ l[3].name = "speed"
          /\ l[4].name = "accuracy" /\ l[5].name = "lon" /\ l[6].name = "lat"
          /\ l[7].name = "course" /\ l[8].name = "heading"
          /\ l[9].name = "timestamp" /\ l[10].name = "raim" /\ l[11].name = "radio"
      BY DEF parse_msg_18_19_24
    <2> HIDE DEF l
    <2>2. Names(l) = {"repeat", "mmsi", "speed", "accuracy", "lon", "lat",
                      "course", "heading", "timestamp", "raim", "radio"}
      BY <2>1
    <2> QED
      BY <2>2 DEF l, Named, Report, Position, Movement
  <1>4. Names(parse_msg_5) = Named(5) /\ Names(parse_msg_9) = Named(9)
    BY DEF parse_msg_5, parse_msg_9, Named, Position, Movement
  <1>5. Names(parse_msg_21) = Named(21) /\ Names(parse_msg_27) = Named(27)
    BY DEF parse_msg_21, parse_msg_27, Named, Position
  <1>6. Names(<<Mmsi>>) = Named(7)
    BY DEF Named
  <1>7. /\ Names(parse_msg_6(q)) = Named(6) /\ Names(parse_msg_8(q)) = Named(8)
        /\ Names(parse_msg_17(q)) = Named(17)
        /\ Names(parse_msg_25(q)) = Named(25) /\ Names(parse_msg_26(q)) = Named(26)
    <2>1. ASSUME NEW start  PROVE Names(<<Mmsi, BinToEnd(q, start)>>) = {"mmsi", "bin_data"}
      OBVIOUS
    <2>2. \A s \in {6, 8, 17, 25, 26} : Named(s) = {"mmsi", "bin_data"}
      BY DEF Named
    <2> HIDE DEF Names
    <2> QED
      BY <2>1, <2>2
         DEF parse_msg_6, parse_msg_8, parse_msg_17, parse_msg_25, parse_msg_26
  <1>8. Names(parse_msg_12(q)) = Named(12) /\ Names(parse_msg_14(q)) = Named(14)
    BY DEF parse_msg_12, parse_msg_14, Named
  <1> QED
    BY <1>1, <1>2, <1>3, <1>4, <1>5, <1>6, <1>7, <1>8

\* Which members a decode assigns depends on the type alone.
LEMMA AssignedOf ==
  ASSUME NEW q, q.type \in SupportedTypes
  PROVE  Assigned(q) = Named(q.type)
PROOF
  <1> DEFINE Names(l) == {l[k].name : k \in DOMAIN l}
  <1>1. PICK t \in 1..27 : q.type = t
    BY DEF SupportedTypes
  <1>2. Assigned(q) = Names(Layout(q))
    BY DEF Assigned
  <1>3. /\ Names(parse_msg_1_2_3) = Named(1) /\ Names(parse_msg_4_11) = Named(4)
        /\ Names(parse_msg_18_19_24) = Named(18) /\ Names(parse_msg_5) = Named(5)
        /\ Names(parse_msg_9) = Named(9) /\ Names(parse_msg_21) = Named(21)
        /\ Names(parse_msg_27) = Named(27) /\ Names(<<Mmsi>>) = Named(7)
        /\ Names(parse_msg_6(q)) = Named(6) /\ Names(parse_msg_8(q)) = Named(8)
        /\ Names(parse_msg_12(q)) = Named(12) /\ Names(parse_msg_14(q)) = Named(14)
        /\ Names(parse_msg_17(q)) = Named(17) /\ Names(parse_msg_25(q)) = Named(25)
        /\ Names(parse_msg_26(q)) = Named(26)
    BY NamesOfHandlers
  <1> HIDE DEF Names
  <1>4. CASE t \in {1, 2, 3, 4, 11, 18, 19, 24}
    <2>1. \/ Layout(q) = parse_msg_1_2_3 /\ Named(t) = Named(1)
          \/ Layout(q) = parse_msg_4_11 /\ Named(t) = Named(4)
          \/ Layout(q) = parse_msg_18_19_24 /\ Named(t) = Named(18)
      BY <1>1, <1>4 DEF Layout, Named
    <2> QED
      BY <1>1, <1>2, <1>3, <2>1
  <1>5. CASE t \in {5, 9, 21, 27}
    BY <1>1, <1>2, <1>3, <1>5 DEF Layout
  <1>6. CASE t \in {7, 10, 13, 15, 16, 20, 22, 23}
    <2>1. Layout(q) = <<Mmsi>> /\ Named(t) = Named(7)
      BY <1>1, <1>6
         DEF Layout, Named, parse_msg_7, parse_msg_10, parse_msg_13, parse_msg_15,
             parse_msg_16, parse_msg_20, parse_msg_22, parse_msg_23
    <2> QED
      BY <1>1, <1>2, <1>3, <2>1
  <1>7. CASE t \in {6, 8, 12, 14, 17, 25, 26}
    BY <1>1, <1>2, <1>3, <1>7 DEF Layout
  <1> QED
    BY <1>1, <1>4, <1>5, <1>6, <1>7

\* A handler reads both coordinates or none, and one that reads a speed, a
\* course or a heading reads a position too.
LEMMA MovingIsLocated ==
  ASSUME NEW q, q.type \in SupportedTypes
  PROVE  /\ "lat" \in Assigned(q) <=> "lon" \in Assigned(q)
         /\ {"speed", "course", "heading"} \cap Assigned(q) # {}
              => "lat" \in Assigned(q)
PROOF
  <1>1. PICK t \in 1..27 : q.type = t
    BY DEF SupportedTypes
  <1>2. Assigned(q) = Named(t)
    BY <1>1, AssignedOf
  <1>3. CASE t \in {1, 2, 3, 4, 9, 11, 18, 19, 21, 24, 27}
    <2>1. Position \subseteq Named(t)
      BY <1>3 DEF Named, Report
    <2> QED
      BY <1>2, <2>1 DEF Position
  <1>4. CASE t \in {5, 6, 7, 8, 10, 12, 13, 14, 15, 16, 17, 20, 22, 23, 25, 26}
    <2>1. Named(t) \subseteq {"mmsi", "imo", "callsign", "vessel_name", "bin_data"}
      BY <1>4 DEF Named
    <2> QED
      BY <1>2, <2>1
  <1> QED
    BY <1>3, <1>4

-----------------------------------------------------------------------------
(* What the handlers need of a payload without illegal characters          *)

\* Of a legal payload every bit range that lies inside can be read.
LEMMA LegalReads ==
  ASSUME NEW q, q.len \in Nat, q.bad = {}, NEW start \in Nat
  PROVE  /\ \A n \in 1..32 : ReadsUint(q, start, n) <=> start + n <= 6 * q.len
         /\ ReadsBin(q, start, Bits(q) - start) <=> start < 6 * q.len
         /\ ReadsText(q, start, Bits(q) - start)
              <=> start < 6 * q.len /\ (6 * q.len - start) % 6 = 0
         /\ \A n \in 1..120 : n % 6 = 0 =>
              (ReadsText(q, start, n) <=> start + n <= 6 * q.len)
PROOF
  <1>1. \A s, n : Legal(q, s, n)
    BY DEF Legal
  <1>2. ASSUME NEW s \in Nat, NEW n \in 1..32
        PROVE  ReadsUint(q, s, n) <=> s + n <= 6 * q.len
    BY <1>1 DEF ReadsUint, Bits
  <1>3. ReadsBin(q, start, Bits(q) - start) <=> start < 6 * q.len
    <2> DEFINE n == Bits(q) - start
    <2>1. n \in Int /\ start + n = 6 * q.len
      BY DEF Bits
    <2> HIDE DEF n
    <2>2. ASSUME n > 0, NEW k \in 0..(n \div 8) - 1
          PROVE  ReadsUint(q, start + 8 * k, 8)
      <3>1. 8 * (k + 1) <= n
        BY <2>1, <2>2, SMT
      <3>2. start + 8 * k \in Nat /\ start + 8 * k + 8 <= 6 * q.len
        BY <2>1, <3>1
      <3> QED
        BY <1>2, <3>2
    <2>3. ReadsBin(q, start, n) <=> n > 0
      BY <2>1, <2>2 DEF ReadsBin, Bits
    <2> QED
      BY <2>1, <2>3 DEF n
  <1>4. ReadsText(q, start, Bits(q) - start)
          <=> start < 6 * q.len /\ (6 * q.len - start) % 6 = 0
    BY <1>1 DEF ReadsText, Bits
  <1>5. \A n \in 1..120 : n % 6 = 0 =>
              (ReadsText(q, start, n) <=> start + n <= 6 * q.len)
    BY <1>1 DEF ReadsText, Bits
  <1> QED
    BY <1>2, <1>3, <1>4, <1>5

\* Every field of l can be read.
Reads(q, l) == \A k \in DOMAIN l : FieldOk(q, l[k])

\* The least length at which each handler can read a legal payload.
LEMMA HandlerNeeds ==
  ASSUME NEW q, q.len \in Nat, q.bad = {}
  PROVE  /\ Reads(q, parse_msg_1_2_3) <=> q.len >= 28
         /\ Reads(q, parse_msg_4_11) <=> q.len >= 28
         /\ Reads(q, parse_msg_18_19_24) <=> q.len >= 28
         /\ Reads(q, parse_msg_5) <=> q.len >= 39
         /\ Reads(q, parse_msg_9) <=> q.len >= 22
         /\ Reads(q, parse_msg_21) <=> q.len >= 7
         /\ Reads(q, parse_msg_27) <=> q.len >= 7
         /\ Reads(q, <<Mmsi>>) <=> q.len >= 7
         /\ Reads(q, parse_msg_6(q)) <=> q.len >= 15
         /\ Reads(q, parse_msg_8(q)) <=> q.len >= 10
         /\ Reads(q, parse_msg_12(q)) <=> q.len >= 13
         /\ ~Reads(q, parse_msg_14(q))
         /\ Reads(q, parse_msg_17(q)) <=> q.len >= 14
         /\ Reads(q, parse_msg_25(q)) <=> q.len >= 7
         /\ Reads(q, parse_msg_26(q)) <=> q.len >= 16
PROOF
  <1> DEFINE Ok(f) == FieldOk(q, f)
  <1>1. ASSUME NEW name, NEW start \in Nat, NEW n \in 1..32
        PROVE  Ok(Hard(name, start, n)) <=> start + n <= 6 * q.len
    BY LegalReads DEF FieldOk, Hard, Field
  <1>2. ASSUME NEW name, NEW start, NEW n
        PROVE  Ok(Soft(name, start, n))
    BY DEF FieldOk, Soft, Field
  <1>3. ASSUME NEW name, NEW start \in Nat, NEW n \in 1..120, n % 6 = 0
        PROVE  Ok(Text(name, start, n)) <=> start + n <= 6 * q.len
    BY <1>3, LegalReads DEF FieldOk, Text, Field
  <1>4. ASSUME NEW start \in Nat
        PROVE  Ok(BinToEnd(q, start)) <=> start < 6 * q.len
    BY LegalReads DEF FieldOk, BinToEnd, Field
  <1>5. ASSUME NEW name, NEW start \in Nat
        PROVE  Ok(TextToEnd(q, name, start))
                 <=> start < 6 * q.len /\ (6 * q.len - start) % 6 = 0
    BY LegalReads DEF FieldOk, TextToEnd, Text, Field
  <1> HIDE DEF Ok
  <1>6. ASSUME NEW l  PROVE Reads(q, l) <=> \A k \in DOMAIN l : Ok(l[k])
    BY DEF Reads, Ok
  <1> USE DEF Repeat, Mmsi, Speed, Lon, Lat, Heading, Raim, Radio
  <1>7. Reads(q, parse_msg_1_2_3) <=> q.len >= 28
    <2>1. (\A k \in DOMAIN parse_msg_1_2_3 : Ok(parse_msg_1_2_3[k])) <=> q.len >= 28
      BY <1>1, <1>2 DEF parse_msg_1_2_3
    <2> QED
      BY <2>1, <1>6
  <1>8. Reads(q, parse_msg_4_11) <=> q.len >= 28
    BY <1>1, <1>2, <1>6 DEF parse_msg_4_11
  <1>9. Reads(q, parse_msg_18_19_24) <=> q.len >= 28
    BY <1>1, <1>2, <1>6 DEF parse_msg_18_19_24
  <1>10. Reads(q, parse_msg_5) <=> q.len >= 39
    BY <1>1, <1>3, <1>6 DEF parse_msg_5
  <1>11. Reads(q, parse_msg_9) <=> q.len >= 22
    BY <1>1, <1>2, <1>6 DEF parse_msg_9
  <1>12. Reads(q, parse_msg_21) <=> q.len >= 7
    BY <1>1, <1>2, <1>6 DEF parse_msg_21
  <1>13. Reads(q, parse_msg_27) <=> q.len >= 7
    BY <1>1, <1>2, <1>6 DEF parse_msg_27
  <1>14. Reads(q, <<Mmsi>>) <=> q.len >= 7
    BY <1>1, <1>6
  <1>15. /\ Reads(q, parse_msg_6(q)) <=> q.len >= 15
         /\ Reads(q, parse_msg_8(q)) <=> q.len >= 10
         /\ Reads(q, parse_msg_17(q)) <=> q.len >= 14
         /\ Reads(q, parse_msg_25(q)) <=> q.len >= 7
         /\ Reads(q, parse_msg_26(q)) <=> q.len >= 16
    BY <1>1, <1>4, <1>6
       DEF parse_msg_6, parse_msg_8, parse_msg_17, parse_msg_25, parse_msg_26
  <1>16. /\ Reads(q, parse_msg_12(q)) <=> q.len >= 13
         /\ ~Reads(q, parse_msg_14(q))
    BY <1>1, <1>5, <1>6 DEF parse_msg_12, parse_msg_14
  <1> QED
    BY <1>7, <1>8, <1>9, <1>10, <1>11, <1>12, <1>13, <1>14, <1>15, <1>16

\* Reports with a required tail do not decode below 28 characters.
LEMMA ReportNeeds ==
  ASSUME NEW q, q.len \in Nat, q.bad = {},
         q.type \in {1, 2, 3, 4, 11, 18, 19, 24}, Decode(q) = "PARSE_OK"
  PROVE  q.len >= 28
PROOF
  <1>1. Layout(q) \in {parse_msg_1_2_3, parse_msg_4_11, parse_msg_18_19_24}
    BY DEF Layout
  <1>2. Reads(q, Layout(q))
    BY DEF Decode, Reads, SupportedTypes
  <1> QED
    BY <1>1, <1>2, HandlerNeeds

\* A coordinate of a legal payload that cannot be read lies behind its end.
LEMMA PositionNeeds ==
  ASSUME NEW q, q.len \in Nat, q.bad = {}, q.type \in SupportedTypes,
         NEW k \in DOMAIN Layout(q), Layout(q)[k].name \in {"lat", "lon"},
         ~ReadsUint(q, Layout(q)[k].start, Layout(q)[k].n)
  PROVE  \/ q.type \in {1, 2, 3, 4, 11, 18, 19, 24} /\ q.len < 28
         \/ q.type = 9 /\ q.len < 23
         \/ q.type = 21 /\ q.len < 19
         \/ q.type = 27 /\ q.len < 15
PROOF
  <1> DEFINE Within(l, n) == \A i \in DOMAIN l : l[i].name \in {"lat", "lon"} =>
                               /\ l[i].start \in Nat /\ l[i].n \in 1..32
                               /\ l[i].start + l[i].n <= n
  <1> USE DEF Repeat, Mmsi, Hard, Soft, Text, Speed, Lon, Lat, Heading, Raim,
              Radio, TextToEnd, BinToEnd, Field
  <1>1. Within(parse_msg_1_2_3, 168) /\ Within(parse_msg_4_11, 168)
        /\ Within(parse_msg_18_19_24, 168)
    BY DEF parse_msg_1_2_3, parse_msg_4_11, parse_msg_18_19_24
  <1>2. /\ Within(parse_msg_9, 134) /\ Within(parse_msg_21, 112)
        /\ Within(parse_msg_27, 88)
    BY DEF parse_msg_9, parse_msg_21, parse_msg_27
  <1>3. \A l \in {parse_msg_5, parse_msg_7, parse_msg_10, parse_msg_13,
                  parse_msg_15, parse_msg_16, parse_msg_20, parse_msg_22,
                  parse_msg_23, parse_msg_6(q), parse_msg_8(q), parse_msg_12(q),
                  parse_msg_14(q), parse_msg_17(q), parse_msg_25(q),
                  parse_msg_26(q)} :
          \A i \in DOMAIN l : l[i].name \notin {"lat", "lon"}
    BY DEF parse_msg_5, parse_msg_7, parse_msg_10, parse_msg_13, parse_msg_15,
           parse_msg_16, parse_msg_20, parse_msg_22, parse_msg_23, parse_msg_6,
           parse_msg_8, parse_msg_12, parse_msg_14, parse_msg_17, parse_msg_25,
           parse_msg_26
  <1>4. ASSUME NEW n \in Nat, Within(Layout(q), n)
        PROVE  6 * q.len < n
    <2>1. /\ Layout(q)[k].start \in Nat /\ Layout(q)[k].n \in 1..32
          /\ Layout(q)[k].start + Layout(q)[k].n <= n
      BY <1>4
    <2>2. ~(Layout(q)[k].start + Layout(q)[k].n <= 6 * q.len)
      BY <2>1, LegalReads
    <2> QED
      BY <2>1, <2>2
  <1> HIDE DEF Within
  <1>5. CASE q.type \in {1, 2, 3, 4, 11, 18, 19, 24}
    <2>1. Layout(q) \in {parse_msg_1_2_3, parse_msg_4_11, parse_msg_18_19_24}
      BY <1>5 DEF Layout
    <2>2. Within(Layout(q), 168)
      BY <1>1, <2>1
    <2> QED
      BY <1>4, <1>5, <2>2
  <1>6. CASE q.type = 9
    BY <1>2, <1>4, <1>6 DEF Layout
  <1>7. CASE q.type = 21
    BY <1>2, <1>4, <1>7 DEF Layout
  <1>8. CASE q.type = 27
    BY <1>2, <1>4, <1>8 DEF Layout
  <1>9. CASE q.type \notin {1, 2, 3, 4, 9, 11, 18, 19, 21, 24, 27}
    <2>1. PICK t \in 1..27 : q.type = t
      BY DEF SupportedTypes
    <2>2. Layout(q) \in {parse_msg_5, parse_msg_7, parse_msg_10, parse_msg_13,
                  parse_msg_15, parse_msg_16, parse_msg_20, parse_msg_22,
                  parse_msg_23, parse_msg_6(q), parse_msg_8(q), parse_msg_12(q),
                  parse_msg_14(q), parse_msg_17(q), parse_msg_25(q),
                  parse_msg_26(q)}
      BY <1>9, <2>1 DEF Layout
    <2> QED
      BY <1>3, <2>2
  <1> QED
    BY <1>5, <1>6, <1>7, <1>8, <1>9
=============================================================================
