--------------------------- MODULE FragmentBuffer ---------------------------
(***************************************************************************)
(* The reassembly of multipart AIS messages: pg_ais_parse (ais_core.c),    *)
(* its static frag_buffer, try_reassemble and reset_buffer (parse_ais.c).  *)
(* One backend calls pg_ais_parse on one sentence at a time; a step is one *)
(* call, classified by how it ends, or the end of the backend.             *)
(***************************************************************************)
EXTENDS Sentence, MessageLayout

CONSTANTS Sentences,   \* the sentences SQL may pass to pg_ais_parse
          MaxParts,    \* MAX_PARTS: slots of the buffer
          PayloadCap,  \* characters of full_payload[1024]: 1023
          NoPart,      \* a NULL slot
          CleanStack   \* the bytes of the uninitialised msg happen to be zero

\* What parse_ais_fragment makes of each sentence, and of those it accepts.
Fragment == [s \in Sentences |-> parse_ais_fragment(s)]
Parsed == {Fragment[s] : s \in Sentences} \ {Malformed}

ASSUME SizesAssumption == MaxParts \in Nat \ {0} /\ PayloadCap \in Nat
\* full_payload[1024] is twice as long as copy[512].
ASSUME CapsAssumption == SentenceCap \in Nat /\ 2 * SentenceCap <= PayloadCap
ASSUME StackAssumption == CleanStack \in BOOLEAN
ASSUME NoPartAssumption == NoPart \notin Parsed
ASSUME SentencesAssumption == \A s \in Sentences : IsSentence(s)

VARIABLES parts,     \* frag_buffer.parts
          received,  \* frag_buffer.received
          reply      \* what the last call gave its caller, and from what
vars == <<parts, received, reply>>

Slots == 0..MaxParts-1
NoParts == [i \in Slots |-> NoPart]
Held(pp) == {i \in Slots : pp[i] # NoPart}

\* How the last call ended: no call yet, NULL, JSON, ereport(ERROR), a crash.
NoReply == [kind |-> "none",  from |-> <<>>]
Null    == [kind |-> "null",  from |-> <<>>]
Crash   == [kind |-> "crash", from |-> <<>>]
Json(run)  == [kind |-> "json",  from |-> run]
Error(run) == [kind |-> "error", from |-> run]

-----------------------------------------------------------------------------
(* try_reassemble on a buffer with parts pp and counter n                  *)

HeadMissing(pp) == pp[0] = NoPart

\* A bug: received <= total for received < total.
MutReady(pp, n) ==
  /\ ~HeadMissing(pp)
  /\ n > pp[0].total
  /\ \A i \in 0..pp[0].total-1 : pp[i] # NoPart

\* None of the early returns is taken (PARSE_ERROR without a head,
\* PARSE_INCOMPLETE with too few parts or a hole): the parts are joined.
Ready(pp, n) ==
  /\ ~HeadMissing(pp)
  /\ n >= pp[0].total
  /\ \A i \in 0..pp[0].total-1 : pp[i] # NoPart

\* The parts that are joined: the first total slots, whatever message each
\* belongs to.  With total <= 0 there are none.
Run(pp) == [i \in 1..pp[0].total |-> pp[i-1]]

\* Characters of the payloads in run, and those before the k-th.
Length(run) == LET sum[k \in 0..Len(run)] ==
                     IF k = 0 THEN 0 ELSE sum[k-1] + run[k].payload.len
               IN  sum[Len(run)]
Before(run, k) == Length(SubSeq(run, 1, k - 1))

\* The payloads in run, one after the other.
Concatenation(run) ==
  IF run = <<>> THEN EmptyPayload
  ELSE [type |-> run[1].payload.type,
        len  |-> Length(run),
        bad  |-> UNION {{Before(run, k) + b : b \in run[k].payload.bad} :
                        k \in DOMAIN run}]

\* A bug that gives full_payload the size of copy.
MutJoined(run) == Prefix(Concatenation(run), SentenceCap)

\* full_payload after the loop of strncat, which stops appending, without a
\* word, where the array is full.
Joined(run) == Prefix(Concatenation(run), PayloadCap)

\* parse_ais_payload(full_payload) succeeds.
Decodes(pp) == \E p \in {Joined(Run(pp))} : Decode(p) = "PARSE_OK"

\* parts[total - 1]->fill_bits with total <= 0 reads outside the array.
ReadsOutside(pp) == pp[0].total < 1

\* free_ais_message frees pointers that no handler has assigned.
FreesIndeterminate(p) == ~CleanStack /\ HeapFields \ Assigned(p) # {}

\* The JSON text is rejected by jsonb_in when it holds "nan", which an
\* unassigned float prints too if its bytes happen to be a NaN.
Replies(run) ==
  LET p == Joined(run)
  IN  IF NaNFields(p) # {} THEN {Error(run)}
      ELSE IF CleanStack \/ ReportFields \subseteq Assigned(p) THEN {Json(run)}
      ELSE {Json(run), Error(run)}

-----------------------------------------------------------------------------
(* pg_ais_parse                                                            *)

Init == /\ parts = NoParts
        /\ received = 0
        /\ reply = NoReply

Slot(s) == Fragment[s].seq - 1
Accepts(s) == Fragment[s] # Malformed

\* A bug that does not look whether the slot is free.
MutStores(s) == Accepts(s) /\ Slot(s) \in Slots

\* The fragment has a slot and the slot is free.
Stores(s) == Accepts(s) /\ Slot(s) \in Slots /\ parts[Slot(s)] = NoPart

\* A bug that appends the part instead of placing it.
MutWith(s) == [parts EXCEPT ![received] = Fragment[s]]

\* The buffer with the fragment of s in its slot.
With(s) == [parts EXCEPT ![Slot(s)] = Fragment[s]]

\* parse_ais_fragment fails: nothing is kept, the call returns NULL.
Refuse(s) == /\ ~Accepts(s)
             /\ reply' = Null
             /\ UNCHANGED <<parts, received>>

\* A bug that counts a part before it looks at its slot.
MutSlotTaken(s) == /\ Accepts(s)
                   /\ ~Stores(s)
                   /\ reply' = Null
                   /\ received' = received + 1
                   /\ UNCHANGED parts

\* No such slot, or the slot is taken: the fragment is dropped.
SlotTaken(s) == /\ Accepts(s)
                /\ ~Stores(s)
                /\ reply' = Null
                /\ UNCHANGED <<parts, received>>

\* The part is stored and the message is not complete.
Hold(s) == /\ Stores(s)
           /\ ~Ready(With(s), received + 1)
           /\ parts' = With(s)
           /\ received' = received + 1
           /\ reply' = Null

\* Complete, but the joined payload does not decode: NULL, and the buffer
\* stays as it is.
Undecodable(s) == /\ Stores(s)
                  /\ Ready(With(s), received + 1)
                  /\ ~Decodes(With(s))
                  /\ parts' = With(s)
                  /\ received' = received + 1
                  /\ reply' = Null

\* A bug that forgets the counter in reset_buffer.
MutDeliver(s) == /\ Stores(s)
                 /\ Ready(With(s), received + 1)
                 /\ Decodes(With(s))
                 /\ parts' = NoParts
                 /\ received' = received + 1
                 /\ reply' \in Replies(Run(With(s)))

\* A bug of reset_buffer, whose loop starts at the second slot.
MutReset(s) == /\ Stores(s)
               /\ Ready(With(s), received + 1)
               /\ Decodes(With(s))
               /\ parts' = [NoParts EXCEPT ![0] = With(s)[0]]
               /\ received' = 0
               /\ reply' \in Replies(Run(With(s)))

\* Complete and decoded: the whole buffer is reset, then the JSON is built.
Deliver(s) == /\ Stores(s)
              /\ Ready(With(s), received + 1)
              /\ Decodes(With(s))
              /\ parts' = NoParts
              /\ received' = 0
              /\ reply' \in Replies(Run(With(s)))

\* Undefined behaviour that kills the backend; a new one starts empty.
Abort(s) == /\ Stores(s)
            /\ Ready(With(s), received + 1)
            /\ \/ ReadsOutside(With(s))
               \/ /\ Decodes(With(s))
                  /\ FreesIndeterminate(Joined(Run(With(s))))
            /\ parts' = NoParts
            /\ received' = 0
            /\ reply' = Crash

\* The session ends; frag_buffer of the next backend is zeroed.
EndSession == /\ parts' = NoParts
              /\ received' = 0
              /\ reply' = NoReply

Parse(s) == \/ Refuse(s)
            \/ SlotTaken(s)
            \/ Hold(s)
            \/ Undecodable(s)
            \/ Deliver(s)
            \/ Abort(s)

Next == \/ \E s \in Sentences : Parse(s)
        \/ EndSession

Spec == Init /\ [][Next]_vars

-----------------------------------------------------------------------------
(* Predicates of the properties                                            *)

\* The joined payload has all the characters of its parts.
JoinedWhole(run) == Joined(run).len = Length(run)

-----------------------------------------------------------------------------
(* What the reassembly promises                                            *)

\* All the parts of the head's message have arrived.
Complete(pp) == /\ pp[0] # NoPart
                /\ pp[0].total <= MaxParts
                /\ \A i \in 0..pp[0].total-1 : pp[i] # NoPart

\* The head's message can never be delivered: it announces more parts than
\* there are slots, or it is complete and does not decode.
Stuck(pp) == \/ pp[0] # NoPart /\ pp[0].total > MaxParts
             \/ Complete(pp) /\ ~Decodes(pp)

\* Type invariant of frag_buffer and of the replies of pg_ais_parse.
TypeOK == /\ parts \in [Slots -> Parsed \cup {NoPart}]
          /\ received \in 0..MaxParts
          /\ reply.kind \in {"none", "null", "json", "error", "crash"}

\* received, which try_reassemble compares with total, is the number of slots
\* in use, over every sequence of stores, refusals, failures and resets.
ReceivedCountsParts == received = Cardinality(Held(parts))

\* Once received >= total holds, both loops of try_reassemble stay inside
\* parts[MAX_PARTS], although total is whatever the sentence says.
LoopsStayInside == parts[0] # NoPart /\ received >= parts[0].total
                     => parts[0].total <= MaxParts

\* No message is forgotten: whatever order the parts came in, a message whose
\* parts are all in the buffer after a call is one that does not decode.
NoCompleteMessageWaits == Complete(parts) => ~Decodes(parts)

\* What is delivered is parts 1..total of the head's total, each in its place.
DeliveredInSequence ==
  reply.kind \in {"json", "error"} =>
    /\ reply.from # <<>>
    /\ Len(reply.from) = reply.from[1].total
    /\ \A i \in DOMAIN reply.from : reply.from[i].seq = i

\* Two parts always fit: the limit on a sentence keeps a pair of payloads
\* under the limit of full_payload, so nothing is cut off between them.
PairsJoinWhole == Len(reply.from) = 2 => JoinedWhole(reply.from)

\* Cutting the sentence at 511 characters never shortens a payload: a part is
\* held with a whole field of some sentence, or its sentence was refused.
PayloadIsWholeField ==
  \A i \in Held(parts) :
     \E s \in Sentences : \E k \in DOMAIN s : parts[i].payload = s[k].pay

\* A stuck head stays: no later sentence gets anything but NULL until the
\* backend ends.
StuckStaysStuck ==
  [][Stuck(parts) => \/ Stuck(parts') /\ reply'.kind = "null"
                     \/ reply'.kind \in {"none", "crash"}]_vars
=============================================================================
