------------------------ MODULE MessageDecoderProofs ------------------------
(***************************************************************************)
(* The field-by-field decoder computes Decode, the result the reassembly   *)
(* modules use, for any set of payloads.  The invariant says that every    *)
(* field before pc can be read; a handler that comes to its end has then   *)
(* shown it of all of them.                                                *)
(***************************************************************************)
EXTENDS MessageDecoder, MessageLayoutProofs, TLAPS

ReadSoFar ==
  Handled => /\ pc - 1 \in {0} \cup DOMAIN Layout(p)
             /\ \A k \in DOMAIN Layout(p) : k < pc => FieldOk(p, Layout(p)[k])

DInv == DecoderTypeOK /\ ReadSoFar /\ ResultIsDecode

-----------------------------------------------------------------------------
\* The decoder starts in the invariant: it has read nothing.
LEMMA DecoderStarts == Init => DInv
PROOF
  <1> SUFFICES ASSUME Init PROVE DInv
    OBVIOUS
  <1>1. DecoderTypeOK
    BY DEF Init, DecoderTypeOK
  <1>2. ReadSoFar
    BY LayoutIsSequence DEF Init, ReadSoFar, Handled
  <1> QED
    BY <1>1, <1>2 DEF Init, DInv, ResultIsDecode

\* Every step of the decoder keeps the invariant.
LEMMA DecoderSteps == DInv /\ [Next]_dvars => DInv'
PROOF
  <1> SUFFICES ASSUME DInv, [Next]_dvars PROVE DInv'
    OBVIOUS
  <1> USE DEF DInv
  <1>1. CASE Reject
    BY <1>1 DEF Reject, Return, Running, Handled, DecoderTypeOK, ReadSoFar,
                ResultIsDecode, Decode
  <1>2. CASE Unsupported
    BY <1>2 DEF Unsupported, Return, Running, Handled, DecoderTypeOK,
                ReadSoFar, ResultIsDecode, Decode
  <1>3. CASE Read
    <2> USE <1>3 DEF Read
    <2>1. DecoderTypeOK'
      BY DEF DecoderTypeOK, Store
    <2>2. ReadSoFar'
      BY LayoutIsSequence DEF ReadSoFar, Handled, Running, DecoderTypeOK
    <2>3. ResultIsDecode'
      BY DEF ResultIsDecode
    <2> QED
      BY <2>1, <2>2, <2>3
  <1>4. CASE Fail
    <2> USE <1>4 DEF Fail, Return
    <2>1. Decode(p) = "PARSE_ERROR"
      BY DEF Handled, Decode
    <2> QED
      BY <2>1 DEF Handled, Running, DecoderTypeOK, ReadSoFar, ResultIsDecode
  <1>5. CASE Finish
    <2> USE <1>5 DEF Finish, Return
    <2>1. \A k \in DOMAIN Layout(p) : FieldOk(p, Layout(p)[k])
      BY LayoutIsSequence DEF ReadSoFar, Handled, DecoderTypeOK
    <2>2. Decode(p) = "PARSE_OK"
      BY <2>1 DEF Handled, Decode
    <2> QED
      BY <2>2 DEF Handled, Running, DecoderTypeOK, ReadSoFar, ResultIsDecode
  <1>6. CASE UNCHANGED dvars
    BY <1>6 DEF dvars, DecoderTypeOK, ReadSoFar, ResultIsDecode, Handled, Running
  <1> QED
    BY <1>1, <1>2, <1>3, <1>4, <1>5, <1>6 DEF Next

-----------------------------------------------------------------------------
\* The decoder's type invariant.
THEOREM DecoderTypeCorrect == Spec => []DecoderTypeOK
PROOF
  <1>1. DInv => DecoderTypeOK
    BY DEF DInv
  <1> QED
    BY <1>1, DecoderStarts, DecoderSteps, PTL DEF Spec

\* parse_ais_payload returns success exactly when every field of its handler
\* can be read, although it stops at the first that cannot.
THEOREM DecodeIsSound == Spec => []ResultIsDecode
PROOF
  <1>1. DInv => ResultIsDecode
    BY DEF DInv
  <1> QED
    BY <1>1, DecoderStarts, DecoderSteps, PTL DEF Spec

-----------------------------------------------------------------------------
(* Memory                                                                  *)

\* A store for member m writes a byte of member n.
Touches(m, n) == \E b \in Bytes(n) : b \in Offsets[m] .. Offsets[m] + Width(m) - 1

\* No field of l is written over by a field that is read after it.
InOrder(l) ==
  \A j, k \in DOMAIN l :
     j < k /\ l[j].name # l[k].name => ~Touches(l[k].name, l[j].name)

\* Fields that are members, one-byte members being at most a byte wide.
Fits(l) == \A k \in DOMAIN l :
              /\ l[k].name \in Members
              /\ l[k].name \in OneByte => l[k].n \in 1..8

\* Which stores run over into which members.
LEMMA Overruns ==
  ASSUME NEW m \in Members, NEW n \in Members, m # n, Touches(m, n)
  PROVE  \/ m = "repeat"     /\ n \in {"nav_status", "rot", "accuracy"}
         \/ m = "nav_status" /\ n \in {"rot", "accuracy", "course"}
         \/ m = "rot"        /\ n \in {"accuracy", "course"}
         \/ m = "accuracy"   /\ n = "course"
         \/ m = "timestamp"  /\ n \in {"maneuver", "raim"}
         \/ m = "maneuver"   /\ n \in {"raim", "radio"}
         \/ m = "raim"       /\ n = "radio"
         \/ m = "fix_type"   /\ n = "ship_type"
PROOF
  BY SMTT(60) DEF Members, Touches, Bytes, Offsets, Width, Size, Pointers, OneByte

\* The handlers with one-byte members read them in the order of their
\* addresses, and each at most a byte wide.
LEMMA ReportsInOrder ==
  /\ InOrder(parse_msg_1_2_3) /\ Fits(parse_msg_1_2_3)
  /\ InOrder(parse_msg_4_11) /\ Fits(parse_msg_4_11)
  /\ InOrder(parse_msg_18_19_24) /\ Fits(parse_msg_18_19_24)
PROOF
  <1> USE DEF Repeat, Mmsi, Hard, Soft, Speed, Lon, Lat, Heading, Raim, Radio,
              Field
  <1>1. InOrder(parse_msg_1_2_3) /\ Fits(parse_msg_1_2_3)
    <2> DEFINE l == parse_msg_1_2_3
    <2>1. \A k \in 1..14 : l[k].name =
            <<"repeat", "mmsi", "nav_status", "rot", "speed", "accuracy", "lon",
              "lat", "course", "heading", "timestamp", "maneuver", "raim",
              "radio">>[k]
      BY DEF parse_msg_1_2_3
    <2>2. DOMAIN l = 1..14
      BY DEF parse_msg_1_2_3
    <2>3. Fits(l)
      BY DEF parse_msg_1_2_3, Fits, Members, Offsets, OneByte
    <2> HIDE DEF l
    <2>4. InOrder(l)
      BY <2>1, <2>2, <2>3, Overruns, SMTT(60) DEF InOrder, Fits
    <2> QED
      BY <2>3, <2>4 DEF l
  <1>2. InOrder(parse_msg_4_11) /\ Fits(parse_msg_4_11)
    <2> DEFINE l == parse_msg_4_11
    <2>1. \A k \in 1..8 : l[k].name =
            <<"repeat", "mmsi", "accuracy", "lon", "lat", "timestamp", "raim",
              "radio">>[k]
      BY DEF parse_msg_4_11
    <2>2. DOMAIN l = 1..8
      BY DEF parse_msg_4_11
    <2>3. Fits(l)
      BY DEF parse_msg_4_11, Fits, Members, Offsets, OneByte
    <2> HIDE DEF l
    <2>4. InOrder(l)
      BY <2>1, <2>2, <2>3, Overruns, SMTT(60) DEF InOrder, Fits
    <2> QED
      BY <2>3, <2>4 DEF l
  <1>3. InOrder(parse_msg_18_19_24) /\ Fits(parse_msg_18_19_24)
    <2> DEFINE l == parse_msg_18_19_24
    <2>1. \A k \in 1..11 : l[k].name =
            <<"repeat", "mmsi", "speed", "accuracy", "lon", "lat", "course",
              "heading", "timestamp", "raim", "radio">>[k]
      BY DEF parse_msg_18_19_24
    <2>2. DOMAIN l = 1..11
      BY DEF parse_msg_18_19_24
    <2>3. Fits(l)
      BY DEF parse_msg_18_19_24, Fits, Members, Offsets, OneByte
    <2> HIDE DEF l
    <2>4. InOrder(l)
      BY <2>1, <2>2, <2>3, Overruns, SMTT(60) DEF InOrder, Fits
    <2> QED
      BY <2>3, <2>4 DEF l
  <1> QED
    BY <1>1, <1>2, <1>3

\* Members whose stores run over into no other.
WideMembers == {"mmsi", "lat", "lon", "speed", "heading", "imo", "callsign",
                "vessel_name", "bin_data", "course"}

\* Fields of such members may be read in any order.
LEMMA WideInOrder ==
  ASSUME NEW l, \A k \in DOMAIN l : l[k].name \in WideMembers
  PROVE  InOrder(l) /\ Fits(l)
PROOF
  <1>1. WideMembers \subseteq Members /\ WideMembers \cap OneByte = {}
    BY DEF WideMembers, Members, Offsets, OneByte
  <1>2. ASSUME NEW m \in WideMembers, NEW n \in WideMembers, m # n
        PROVE  ~Touches(m, n)
    BY <1>1, <1>2, Overruns DEF WideMembers
  <1> QED
    BY <1>1, <1>2 DEF InOrder, Fits

\* So are the fields of every layout.
LEMMA LayoutInOrder ==
  ASSUME NEW q, q.type \in SupportedTypes
  PROVE  InOrder(Layout(q)) /\ Fits(Layout(q))
PROOF
  <1> DEFINE Wide(l) == \A k \in DOMAIN l : l[k].name \in WideMembers
             Good(l) == InOrder(l) /\ Fits(l)
  <1>1. Layout(q) \in Layouts(q)
    BY LayoutIsOneOf
  <1> USE DEF Repeat, Mmsi, Hard, Soft, Text, Speed, Lon, Lat, Heading,
              TextToEnd, BinToEnd, Field, WideMembers
  <1>2. Wide(parse_msg_5) /\ Wide(parse_msg_9)
    BY DEF parse_msg_5, parse_msg_9
  <1>3. Wide(parse_msg_21) /\ Wide(parse_msg_27)
    BY DEF parse_msg_21, parse_msg_27
  <1>4. /\ Wide(parse_msg_7) /\ Wide(parse_msg_10) /\ Wide(parse_msg_13)
        /\ Wide(parse_msg_15) /\ Wide(parse_msg_16) /\ Wide(parse_msg_20)
        /\ Wide(parse_msg_22) /\ Wide(parse_msg_23)
    BY DEF parse_msg_7, parse_msg_10, parse_msg_13, parse_msg_15,
           parse_msg_16, parse_msg_20, parse_msg_22, parse_msg_23
  <1>5. /\ Wide(parse_msg_6(q)) /\ Wide(parse_msg_8(q)) /\ Wide(parse_msg_12(q))
        /\ Wide(parse_msg_14(q)) /\ Wide(parse_msg_17(q))
        /\ Wide(parse_msg_25(q)) /\ Wide(parse_msg_26(q))
    BY DEF parse_msg_6, parse_msg_8, parse_msg_12, parse_msg_14,
           parse_msg_17, parse_msg_25, parse_msg_26
  <1>6. ASSUME NEW l, Wide(l)  PROVE  Good(l)
    BY <1>6, WideInOrder
  <1>7. /\ Good(parse_msg_1_2_3) /\ Good(parse_msg_4_11)
        /\ Good(parse_msg_18_19_24)
    BY ReportsInOrder
  <1> HIDE DEF Wide, Good
  <1>8. Good(Layout(q))
    BY <1>1, <1>2, <1>3, <1>4, <1>5, <1>6, <1>7, Zenon DEF Layouts
  <1> QED
    BY <1>8 DEF Good

\* A store makes its member intact, and leaves intact what it does not touch.
LEMMA StoreKeeps ==
  ASSUME NEW bytes, DOMAIN bytes = Memory, NEW m \in Members
  PROVE  /\ Intact(Store(bytes, m), m)
         /\ \A n \in Members :
              Intact(bytes, n) /\ ~Touches(m, n) => Intact(Store(bytes, m), n)
PROOF
  <1>1. \A n \in Members : Bytes(n) \subseteq Memory
    BY DEF Memory
  <1>2. Bytes(m) \subseteq Offsets[m] .. Offsets[m] + Width(m) - 1
    BY DEF Members, Bytes, Offsets, Width, Size, Pointers, OneByte
  <1>3. Intact(Store(bytes, m), m)
    BY <1>1, <1>2 DEF Intact, Store
  <1>4. ASSUME NEW n \in Members, Intact(bytes, n), ~Touches(m, n)
        PROVE  Intact(Store(bytes, m), n)
    BY <1>1, <1>4 DEF Intact, Store, Touches
  <1> QED
    BY <1>3, <1>4

\* What is true of the memory while a handler runs: the members read so far
\* hold what was read, and every byte is the caller's or of one of them.
ReadIsIntact ==
  p.type \in SupportedTypes =>
    \A k \in DOMAIN Layout(p) : k < pc => Intact(mem, Layout(p)[k].name)

BytesAreOwn ==
  p.type \in SupportedTypes =>
    \A b \in Memory :
       \/ mem[b] = <<"caller", b>>
       \/ \E k \in DOMAIN Layout(p) :
            LET m == Layout(p)[k].name
            IN  mem[b] = <<m, b - Offsets[m]>>
                /\ b \in Offsets[m] .. Offsets[m] + Width(m) - 1

\* A handler that succeeded has read all its fields.
AllRead == result = "PARSE_OK" => /\ p.type \in SupportedTypes
                                  /\ pc = Len(Layout(p)) + 1

MInv == DInv /\ ReadIsIntact /\ BytesAreOwn /\ AllRead

\* The memory starts as the caller left it.
LEMMA MemoryStarts == Init => MInv
PROOF
  <1> SUFFICES ASSUME Init PROVE MInv
    OBVIOUS
  <1>1. ReadIsIntact
    BY LayoutIsSequence DEF Init, ReadIsIntact
  <1>2. BytesAreOwn /\ AllRead
    BY DEF Init, BytesAreOwn, AllRead
  <1> QED
    BY <1>1, <1>2, DecoderStarts DEF MInv

\* Every step of the decoder keeps the invariant of the memory.
LEMMA MemorySteps == MInv /\ [Next]_dvars => MInv'
PROOF
  <1> SUFFICES ASSUME MInv, [Next]_dvars PROVE MInv'
    OBVIOUS
  <1> USE DEF MInv
  <1>1. DInv'
    BY DecoderSteps
  <1>2. CASE Read
    <2> DEFINE name == Layout(p)[pc].name
    <2>1. /\ p' = p /\ result' = result /\ pc' = pc + 1 /\ pc \in Nat
          /\ p.type \in SupportedTypes /\ pc \in DOMAIN Layout(p)
          /\ mem' = Store(mem, name) /\ DOMAIN mem = Memory
          /\ result = "running"
      BY <1>2 DEF Read, Handled, Running, DInv, DecoderTypeOK
    <2>2. /\ DOMAIN Layout(p) = 1..Len(Layout(p)) /\ Len(Layout(p)) \in Nat
          /\ InOrder(Layout(p)) /\ Fits(Layout(p))
      BY <2>1, LayoutIsSequence, LayoutInOrder
    <2>3. name \in Members
      BY <2>1, <2>2 DEF Fits
    <2>4. ReadIsIntact'
      <3> SUFFICES ASSUME NEW k \in DOMAIN Layout(p), k < pc + 1
                   PROVE  Intact(Store(mem, name), Layout(p)[k].name)
        BY <2>1 DEF ReadIsIntact
      <3>1. CASE Layout(p)[k].name = name
        BY <2>1, <2>3, <3>1, StoreKeeps
      <3>2. CASE Layout(p)[k].name # name
        <4>1. k < pc
          BY <2>1, <2>2, <3>2
        <4>2. Intact(mem, Layout(p)[k].name) /\ Layout(p)[k].name \in Members
          BY <2>1, <2>2, <4>1 DEF ReadIsIntact, Fits
        <4>3. ~Touches(name, Layout(p)[k].name)
          BY <2>1, <2>2, <3>2, <4>1 DEF InOrder
        <4> QED
          BY <2>1, <2>3, <4>2, <4>3, StoreKeeps
      <3> QED
        BY <3>1, <3>2
    <2>5. BytesAreOwn'
      <3> SUFFICES ASSUME NEW b \in Memory
                   PROVE  \/ mem'[b] = <<"caller", b>>
                          \/ \E k \in DOMAIN Layout(p) :
                               LET m == Layout(p)[k].name
                               IN  mem'[b] = <<m, b - Offsets[m]>>
                                   /\ b \in Offsets[m] .. Offsets[m] + Width(m) - 1
        BY <2>1 DEF BytesAreOwn
      <3>1. CASE b \in Offsets[name] .. Offsets[name] + Width(name) - 1
        <4>1. mem'[b] = <<name, b - Offsets[name]>>
          BY <2>1, <3>1 DEF Store
        <4> QED
          BY <2>1, <3>1, <4>1
      <3>2. CASE b \notin Offsets[name] .. Offsets[name] + Width(name) - 1
        <4>1. mem'[b] = mem[b]
          BY <2>1, <3>2 DEF Store
        <4> QED
          BY <2>1, <4>1 DEF BytesAreOwn
      <3> QED
        BY <3>1, <3>2
    <2>6. AllRead'
      BY <2>1 DEF AllRead
    <2> QED
      BY <1>1, <2>4, <2>5, <2>6
  <1>3. CASE Finish
    <2>1. AllRead'
      BY <1>3 DEF Finish, Return, Handled, AllRead
    <2> QED
      BY <1>1, <1>3, <2>1 DEF Finish, Return, ReadIsIntact, BytesAreOwn
  <1>4. CASE Reject \/ Unsupported \/ Fail
    BY <1>1, <1>4 DEF Reject, Unsupported, Fail, Return, ReadIsIntact,
                      BytesAreOwn, AllRead
  <1>5. CASE UNCHANGED dvars
    BY <1>1, <1>5 DEF dvars, ReadIsIntact, BytesAreOwn, AllRead
  <1> QED
    BY <1>2, <1>3, <1>4, <1>5 DEF Next

\* No store of a handler runs into a field it read before, whatever the
\* payload.
THEOREM FieldsAlwaysSurvive == Spec => []FieldsSurviveStores
PROOF
  <1>1. MInv => FieldsSurviveStores
    <2> SUFFICES ASSUME MInv, result = "PARSE_OK", NEW m \in Assigned(p)
                 PROVE  Intact(mem, m)
      BY DEF FieldsSurviveStores
    <2>1. PICK k \in DOMAIN Layout(p) : Layout(p)[k].name = m
      BY DEF Assigned
    <2>2. p.type \in SupportedTypes /\ pc = Len(Layout(p)) + 1
      BY DEF MInv, AllRead
    <2>3. k < pc
      BY <2>1, <2>2, LayoutIsSequence
    <2> QED
      BY <2>1, <2>2, <2>3 DEF MInv, ReadIsIntact
  <1> QED
    BY <1>1, MemoryStarts, MemorySteps, PTL DEF Spec

\* A byte of a member that was not assigned is the caller's, or zero: it is
\* past the last bit of the field whose store ran over it.
THEOREM ZeroedAlwaysStaysZero == Spec => []ZeroedStaysZero
PROOF
  <1>1. MInv => ZeroedStaysZero
    <2> SUFFICES ASSUME MInv, result = "PARSE_OK",
                        NEW n \in pg_ais_fields \ Assigned(p), NEW b \in Bytes(n)
                 PROVE  Untouched(b)
      BY DEF ZeroedStaysZero
    <2>1. p.type \in SupportedTypes /\ Fits(Layout(p))
      BY LayoutInOrder DEF MInv, AllRead
    <2>2. n \in Members /\ b \in Memory
      BY DEF pg_ais_fields, Members, Offsets, Memory
    <2>3. CASE mem[b] = <<"caller", b>>
      BY <2>3 DEF Untouched
    <2>4. ASSUME NEW k \in DOMAIN Layout(p),
                 mem[b] = <<Layout(p)[k].name, b - Offsets[Layout(p)[k].name]>>,
                 b \in Offsets[Layout(p)[k].name] ..
                         Offsets[Layout(p)[k].name] + Width(Layout(p)[k].name) - 1
          PROVE  Untouched(b)
      <3> DEFINE m == Layout(p)[k].name
      <3>1. m \in Members /\ m # n /\ Touches(m, n)
        BY <2>1, <2>4 DEF Fits, Assigned, Touches
      <3>2. m \in OneByte
        BY <2>2, <3>1, Overruns DEF OneByte
      <3>3. Layout(p)[k].n \in 1..8
        BY <2>1, <3>2 DEF Fits
      <3>4. b - Offsets[m] \in 1..3
        <4>1. b \notin Bytes(m)
          BY <2>2, <3>1, <3>2
             DEF Members, Bytes, Offsets, Size, Pointers, OneByte
        <4> QED
          BY <2>4, <3>1, <3>2, <4>1
             DEF Members, Bytes, Offsets, Size, Width, Pointers, OneByte
      <3>5. mem[b][1] = m /\ mem[b][2] = b - Offsets[m]
        BY <2>4
      <3>6. Layout(p)[k].n <= 8 * mem[b][2]
        BY <3>3, <3>4, <3>5
      <3> QED
        BY <3>5, <3>6 DEF Untouched
    <2> QED
      BY <2>1, <2>2, <2>3, <2>4 DEF MInv, BytesAreOwn
  <1> QED
    BY <1>1, MemoryStarts, MemorySteps, PTL DEF Spec

-----------------------------------------------------------------------------
(* Lengths                                                                 *)

\* The result of decoding a legal payload, as a table of least lengths.
LEMMA DecodesFromLeast ==
  ASSUME NEW q, IsPayload(q), q.bad = {}
  PROVE  Decode(q) = "PARSE_OK" <=> q.type \in DOMAIN Least /\ q.len >= Least[q.type]
PROOF
  <1>1. q.len \in Nat
    BY DEF IsPayload
  <1>2. DOMAIN Least = SupportedTypes \ {14}
    BY DEF Least
  <1>3. Decode(q) = "PARSE_OK"
          <=> HasType(q) /\ q.type \in SupportedTypes /\ Reads(q, Layout(q))
    BY DEF Decode, Reads
  <1>4. HasType(q) <=> q.len >= 1
    BY <1>1, LegalReads DEF HasType
  <1>5. ASSUME NEW t \in SupportedTypes \ {14}, q.type = t
        PROVE  Least[t] \in Nat \ {0} /\ (Reads(q, Layout(q)) <=> q.len >= Least[t])
    <2>1. CASE t \in {1, 2, 3, 4, 11, 18, 19, 24}
      <3>1. Layout(q) \in {parse_msg_1_2_3, parse_msg_4_11, parse_msg_18_19_24}
        BY <1>5, <2>1 DEF Layout
      <3>2. Least[t] = 28
        BY <2>1 DEF Least, SupportedTypes
      <3> QED
        BY <1>1, <3>1, <3>2, HandlerNeeds
    <2>2. CASE t \in {5, 6, 8, 9, 12, 17, 26}
      <3>1. Least[t] = CASE t = 5 -> 39 [] t = 6 -> 15 [] t = 8 -> 10 [] t = 9 -> 22
                         [] t = 12 -> 13 [] t = 17 -> 14 [] t = 26 -> 16
        BY <2>2 DEF Least, SupportedTypes
      <3>2. Layout(q) = CASE t = 5 -> parse_msg_5 [] t = 6 -> parse_msg_6(q)
                          [] t = 8 -> parse_msg_8(q) [] t = 9 -> parse_msg_9
                          [] t = 12 -> parse_msg_12(q) [] t = 17 -> parse_msg_17(q)
                          [] t = 26 -> parse_msg_26(q)
        BY <1>5, <2>2 DEF Layout
      <3> QED
        BY <1>1, <2>2, <3>1, <3>2, HandlerNeeds
    <2>3. CASE t \in {7, 10, 13, 15, 16, 20, 21, 22, 23, 25, 27}
      <3>1. Least[t] = 7
        BY <2>3 DEF Least, SupportedTypes
      <3>2. Layout(q) \in {<<Mmsi>>, parse_msg_21, parse_msg_25(q), parse_msg_27}
        BY <1>5, <2>3
           DEF Layout, parse_msg_7, parse_msg_10, parse_msg_13, parse_msg_15,
               parse_msg_16, parse_msg_20, parse_msg_22, parse_msg_23
      <3> QED
        BY <1>1, <3>1, <3>2, HandlerNeeds
    <2> QED
      BY <2>1, <2>2, <2>3 DEF SupportedTypes
  <1>6. ASSUME q.type = 14  PROVE  ~Reads(q, Layout(q))
    BY <1>1, <1>6, HandlerNeeds DEF Layout
  <1> QED
    BY <1>1, <1>2, <1>3, <1>4, <1>5, <1>6

\* A legal payload decodes exactly from its type's least length on, however
\* long it is.
THEOREM LeastLengthsAreExact == Spec => []DecodesFromLeastLength
PROOF
  <1>1. DInv => DecodesFromLeastLength
    <2> SUFFICES ASSUME DInv, result # "running", p.bad = {}
                 PROVE  result = "PARSE_OK"
                          <=> p.type \in DOMAIN Least /\ p.len >= Least[p.type]
      BY DEF DecodesFromLeastLength
    <2>1. IsPayload(p) /\ result = Decode(p)
      BY PayloadsAssumption DEF DInv, DecoderTypeOK, ResultIsDecode
    <2> QED
      BY <2>1, DecodesFromLeast
  <1> QED
    BY <1>1, DecoderStarts, DecoderSteps, PTL DEF Spec

\* The reports whose tail is required have both coordinates when they decode.
THEOREM TailCoversPosition == Spec => []RequiredTailCoversPosition
PROOF
  <1>1. DInv => RequiredTailCoversPosition
    <2> SUFFICES ASSUME DInv, p.type \in {1, 2, 3, 4, 11, 18, 19, 24}, p.bad = {},
                        result = "PARSE_OK", NEW f \in NaNFields(p)
                 PROVE  FALSE
      BY DEF RequiredTailCoversPosition
    <2>1. p.len \in Nat /\ Decode(p) = "PARSE_OK"
      BY PayloadsAssumption DEF DInv, DecoderTypeOK, ResultIsDecode, IsPayload
    <2>2. PICK k \in DOMAIN Layout(p) :
            /\ Layout(p)[k].name = f
            /\ ~ReadsUint(p, Layout(p)[k].start, Layout(p)[k].n)
      BY DEF NaNFields
    <2>3. p.type \in SupportedTypes /\ f \in {"lat", "lon"}
      BY DEF SupportedTypes, NaNFields
    <2>4. p.len < 28
      BY <2>1, <2>2, <2>3, PositionNeeds
    <2> QED
      BY <2>1, <2>4, ReportNeeds
  <1> QED
    BY <1>1, DecoderStarts, DecoderSteps, PTL DEF Spec

-----------------------------------------------------------------------------
(* What runs over                                                          *)

\* No byte that a store has written is the caller's any more.
StoredIsWritten ==
  p.type \in SupportedTypes =>
    \A k \in DOMAIN Layout(p) : k < pc =>
      LET m == Layout(p)[k].name
      IN  \A b \in Memory \cap (Offsets[m] .. Offsets[m] + Width(m) - 1) :
            mem[b][1] # "caller"

\* The memory starts unwritten, and no step makes a byte the caller's again.
LEMMA WritingSteps ==
  /\ Init => StoredIsWritten
  /\ MInv /\ StoredIsWritten /\ [Next]_dvars => StoredIsWritten'
PROOF
  <1>1. Init => StoredIsWritten
    BY LayoutIsSequence DEF Init, StoredIsWritten
  <1>2. ASSUME MInv, StoredIsWritten, [Next]_dvars PROVE StoredIsWritten'
    <2>1. CASE Read
      <3> DEFINE name == Layout(p)[pc].name
                 l == Layout(p)
      <3>1. /\ p' = p /\ pc' = pc + 1 /\ pc \in Nat
            /\ p.type \in SupportedTypes /\ pc \in DOMAIN l
            /\ mem' = Store(mem, name)
        BY <1>2, <2>1 DEF Read, Handled, MInv, DInv, DecoderTypeOK
      <3>2. DOMAIN l = 1..Len(l) /\ Len(l) \in Nat /\ name \in Members
        BY <3>1, LayoutIsSequence, LayoutInOrder DEF Fits
      <3>3. name # "caller"
        BY <3>2 DEF Members, Offsets
      <3> SUFFICES ASSUME NEW k \in DOMAIN l, k < pc + 1,
                          NEW b \in Memory \cap
                            (Offsets[l[k].name] ..
                             Offsets[l[k].name] + Width(l[k].name) - 1)
                   PROVE  Store(mem, name)[b][1] # "caller"
        BY <3>1 DEF StoredIsWritten
      <3>4. CASE b \in Offsets[name] .. Offsets[name] + Width(name) - 1
        BY <3>3, <3>4 DEF Store
      <3>5. CASE b \notin Offsets[name] .. Offsets[name] + Width(name) - 1
        <4>1. k < pc
          BY <3>1, <3>2, <3>5
        <4>2. Store(mem, name)[b] = mem[b]
          BY <3>5 DEF Store
        <4> QED
          BY <1>2, <3>1, <4>1, <4>2 DEF StoredIsWritten
      <3> QED
        BY <3>4, <3>5
    <2>2. CASE Reject \/ Unsupported \/ Fail \/ Finish
      BY <1>2, <2>2 DEF Reject, Unsupported, Fail, Finish, Return, StoredIsWritten
    <2>3. CASE UNCHANGED dvars
      BY <1>2, <2>3 DEF dvars, StoredIsWritten
    <2> QED
      BY <1>2, <2>1, <2>2, <2>3 DEF Next
  <1> QED
    BY <1>1, <1>2

\* No two members share a byte, and a store covers its member.
LEMMA BytesAreApart ==
  ASSUME NEW m \in Members, NEW n \in Members
  PROVE  /\ m # n => Bytes(m) \cap Bytes(n) = {}
         /\ Offsets[m] \in Nat /\ Size(m) \in 1..Width(m) /\ Width(m) \in {4, 8}
         /\ Bytes(m) \subseteq Memory
         /\ Bytes(m) # {}
PROOF
  <1>1. Bytes(m) \subseteq Memory
    BY DEF Memory
  <1>2. /\ Offsets[m] \in Nat /\ Size(m) \in 1..Width(m) /\ Width(m) \in {4, 8}
    BY DEF Members, Offsets, Size, Width, Pointers, OneByte
  <1>3. m # n => Bytes(m) \cap Bytes(n) = {}
    BY SMTT(60) DEF Members, Offsets, Bytes, Size, Pointers, OneByte
  <1>4. Offsets[m] \in Bytes(m)
    BY <1>2 DEF Bytes
  <1> QED
    BY <1>1, <1>2, <1>3, <1>4

\* A member that no field was read into is written in every byte exactly when
\* the stores of its neighbours cover it.
THEOREM OverrunAlwaysExact == Spec => []OverrunIsExact
PROOF
  <1>1. MInv /\ StoredIsWritten => OverrunIsExact
    <2> SUFFICES ASSUME MInv, StoredIsWritten, result = "PARSE_OK",
                        NEW m \in Members \ Assigned(p)
                 PROVE  m \in Overrun(p) <=> \A b \in Bytes(m) : mem[b][1] # "caller"
      BY DEF OverrunIsExact
    <2> DEFINE l == Layout(p)
               Excess(a) == Offsets[a] + Size(a) .. Offsets[a] + Width(a) - 1
    <2>1. /\ p.type \in SupportedTypes /\ pc = Len(l) + 1
          /\ DOMAIN l = 1..Len(l) /\ Len(l) \in Nat /\ Fits(l)
      BY LayoutIsSequence, LayoutInOrder DEF MInv, AllRead
    <2>2. \A a \in Assigned(p) : a \in Members /\ a # m
      BY <2>1 DEF Fits, Assigned
    <2>3. m \in Overrun(p) <=> \A b \in Bytes(m) : \E a \in Assigned(p) : b \in Excess(a)
      BY DEF Overrun
    <2>4. ASSUME NEW b \in Bytes(m), NEW a \in Assigned(p), b \in Excess(a)
          PROVE  mem[b][1] # "caller"
      <3>1. PICK k \in DOMAIN l : l[k].name = a
        BY DEF Assigned
      <3>2. k < pc /\ b \in Memory
        BY <2>1, <3>1, BytesAreApart
      <3>3. b \in Offsets[a] .. Offsets[a] + Width(a) - 1
        BY <2>2, <2>4, BytesAreApart
      <3> QED
        BY <2>1, <3>1, <3>2, <3>3 DEF StoredIsWritten
    <2>5. ASSUME NEW b \in Bytes(m), mem[b][1] # "caller"
          PROVE  \E a \in Assigned(p) : b \in Excess(a)
      <3>1. b \in Memory
        BY BytesAreApart
      <3>2. PICK k \in DOMAIN l : b \in Offsets[l[k].name] ..
                                        Offsets[l[k].name] + Width(l[k].name) - 1
        BY <2>1, <2>5, <3>1 DEF MInv, BytesAreOwn
      <3> DEFINE a == l[k].name
      <3>3. a \in Assigned(p) /\ a \in Members /\ a # m
        BY <2>2 DEF Assigned
      <3>4. b \notin Bytes(a)
        BY <3>3, BytesAreApart
      <3>5. b \in Excess(a)
        BY <3>2, <3>3, <3>4, BytesAreApart DEF Bytes
      <3> QED
        BY <3>3, <3>5
    <2> QED
      BY <2>3, <2>4, <2>5
  <1> QED
    BY <1>1, MemoryStarts, MemorySteps, WritingSteps, PTL DEF Spec
=============================================================================
