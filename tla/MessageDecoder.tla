--------------------------- MODULE MessageDecoder ---------------------------
(***************************************************************************)
(* parse_ais_payload step by step: the handler of the payload's type reads *)
(* its fields one after the other and stores each in the AISMessage.  Most *)
(* integer members are one byte wide and are handed to parse_uint_safe as  *)
(* a uint32_t *, which stores four bytes: what a handler leaves in memory  *)
(* depends on the order of its reads.                                      *)
(***************************************************************************)
EXTENDS MessageMemory

CONSTANT Payloads  \* the payloads parse_ais_payload is called with

ASSUME PayloadsAssumption == \A q \in Payloads : IsPayload(q)

VARIABLES p,       \* the payload
          pc,      \* the handler's next field
          mem,     \* the bytes of *msg
          result   \* of parse_ais_payload, or "running"
dvars == <<p, pc, mem, result>>

-----------------------------------------------------------------------------
Init == /\ p \in Payloads
        /\ pc = 1
        /\ mem = [b \in Memory |-> <<"caller", b>>]
        /\ result = "running"

Running == result = "running"
Handled == Running /\ HasType(p) /\ p.type \in SupportedTypes
Return(r) == result' = r /\ UNCHANGED <<p, pc, mem>>

\* No type, or one without a handler.
Reject == Running /\ ~HasType(p) /\ Return("PARSE_ERROR")

\* A bug: no default label, so that result is returned as it happened to be.
MutUnsupported == /\ Running /\ HasType(p)
                  /\ p.type \notin SupportedTypes
                  /\ Return("indeterminate")

Unsupported == /\ Running /\ HasType(p)
               /\ p.type \notin SupportedTypes
               /\ Return("PARSE_UNSUPPORTED")

\* The handler reads its next field; a soft field that cannot be read is
\* stored as NaN or -1.
Read == /\ Handled
        /\ pc \in DOMAIN Layout(p)
        /\ FieldOk(p, Layout(p)[pc])
        /\ mem' = Store(mem, Layout(p)[pc].name)
        /\ pc' = pc + 1
        /\ UNCHANGED <<p, result>>

Fail == /\ Handled
        /\ pc \in DOMAIN Layout(p)
        /\ ~FieldOk(p, Layout(p)[pc])
        /\ Return("PARSE_ERROR")

\* A bug that leaves the last field out.
MutFinish == Handled /\ pc = Len(Layout(p)) /\ Return("PARSE_OK")

\* normalize_position_fields replaces values by values of the same member.
Finish == Handled /\ pc = Len(Layout(p)) + 1 /\ Return("PARSE_OK")

Next == Reject \/ Unsupported \/ Read \/ Fail \/ Finish

Spec == Init /\ [][Next]_dvars

\* Byte b is as the caller left it, or a high byte of a field of p that has
\* too few bits to reach it.
Untouched(b) ==
  \/ mem[b] = <<"caller", b>>
  \/ \E k \in DOMAIN Layout(p) :
       /\ Layout(p)[k].name = mem[b][1]
       /\ Layout(p)[k].n <= 8 * mem[b][2]

-----------------------------------------------------------------------------
(* What decoding promises                                                  *)

\* Type invariant of the decoder.
DecoderTypeOK == /\ p \in Payloads
                 /\ pc \in Nat \ {0}
                 /\ DOMAIN mem = Memory
                 /\ pc = 1 \/ pc - 1 \in DOMAIN Layout(p)
                 /\ result \in {"running", "PARSE_OK", "PARSE_ERROR",
                                "PARSE_UNSUPPORTED"}

\* Stopping at the first field that cannot be read gives the result Decode
\* has: that every field of the layout can be read.
ResultIsDecode == result # "running" => result = Decode(p)

\* After a decode every member the handler assigned still holds the value it
\* read: no later four-byte store has run into it.
FieldsSurviveStores ==
  result = "PARSE_OK" => \A m \in Assigned(p) : Intact(mem, m)

\* In a struct that came zeroed, pg_ais_fields finds zero in every member the
\* handler did not assign: stores that run over one put zero bytes there.
ZeroedStaysZero ==
  result = "PARSE_OK" =>
    \A m \in pg_ais_fields \ Assigned(p) : \A b \in Bytes(m) : Untouched(b)

\* Least number of characters with which each type decodes: the end of its
\* last hard field, or one more bit than the start of a blob, in characters.
\* No length is enough for type 14: its text starts at bit 40, and what is
\* left of a payload after bit 40 is no multiple of 6.  The tests expect a
\* type 5 of 16 characters to decode; its handler reads up to bit 232.
Least == [t \in SupportedTypes \ {14} |->
            CASE t \in {1, 2, 3, 4, 11, 18, 19, 24} -> 28
              [] t = 5  -> 39
              [] t = 6  -> 15
              [] t = 8  -> 10
              [] t = 9  -> 22
              [] t = 12 -> 13
              [] t = 17 -> 14
              [] t = 26 -> 16
              [] OTHER  -> 7]

\* A legal payload decodes from its type's least length on, and never below:
\* what the handlers require is what their last fields require, and not the
\* shorter payloads that test_pg_ais.c and auto_test_payloads.c call good.
DecodesFromLeastLength ==
  result # "running" /\ p.bad = {} =>
    (result = "PARSE_OK" <=> p.type \in DOMAIN Least /\ p.len >= Least[p.type])

\* The reports whose tail is required have a position when they decode: lat
\* and lon, which fail softly, cannot run past the end of the payload.
RequiredTailCoversPosition ==
  /\ p.type \in {1, 2, 3, 4, 11, 18, 19, 24}
  /\ p.bad = {}
  /\ result = "PARSE_OK"
  => NaNFields(p) = {}

\* Overrun names exactly the members that a decode fills without reading a
\* field into them; it is what the accessors then take for message data.
OverrunIsExact ==
  result = "PARSE_OK" =>
    \A m \in Members \ Assigned(p) :
      m \in Overrun(p) <=> \A b \in Bytes(m) : mem[b][1] # "caller"
=============================================================================
