----------------------------- MODULE PgAisParse -----------------------------
(***************************************************************************)
(* pg_ais_parse with everything a call leaves behind in the backend: the   *)
(* fragment buffer, the metrics counters (pg_ais_metrics.c) and the blocks *)
(* it allocated with malloc or strdup and never freed.                     *)
(***************************************************************************)
EXTENDS FragmentBuffer

VARIABLES metrics,  \* the four static counters of pg_ais_metrics.c
          made,     \* how many blocks have outlived the call that made them
          heap,     \* the live ones among them, each named by its number
          owned     \* owned[i]: the blocks of the part in slot i
state == <<vars, metrics, made, heap, owned>>

NoMetrics == [messages |-> 0, failures |-> 0, attempts |-> 0, success |-> 0]

\* A bug that counts a failed parse as a failure only.
Mut_pg_ais_record_parse_result(m, ok) ==
  IF ok THEN [m EXCEPT !.messages = @ + 1] ELSE [m EXCEPT !.failures = @ + 1]

pg_ais_record_parse_result(m, ok) ==
  [m EXCEPT !.messages = @ + 1, !.failures = IF ok THEN @ ELSE @ + 1]

\* A bug that takes a failed join off the successes.
Mut_pg_ais_record_reassembly_attempt(m, ok) ==
  [m EXCEPT !.attempts = @ + 1, !.success = IF ok THEN @ + 1 ELSE @ - 1]

pg_ais_record_reassembly_attempt(m, ok) ==
  [m EXCEPT !.attempts = @ + 1, !.success = IF ok THEN @ + 1 ELSE @]

\* A bug that records the attempt only where it succeeds.
MutJoining(m, p) ==
  LET ok == Decode(p) = "PARSE_OK"
      once == IF Recorded(p) THEN pg_ais_record_parse_result(m, ok) ELSE m
      twice == pg_ais_record_parse_result(once, ok)
  IN  IF ok THEN pg_ais_record_reassembly_attempt(twice, ok) ELSE twice

\* What a call that joins parts into p adds: parse_ais_payload records the
\* parse (unless it returns early), then try_reassemble records it again and
\* records the attempt.
Joining(m, p) ==
  LET ok == Decode(p) = "PARSE_OK"
      once == IF Recorded(p) THEN pg_ais_record_parse_result(m, ok) ELSE m
  IN  pg_ais_record_reassembly_attempt(pg_ais_record_parse_result(once, ok), ok)

\* The blocks of an accepted sentence, in the order they are made: the
\* AISFragment, its payload, its raw copy, and the raw copy that pg_ais_parse
\* overwrites the first with, which is lost.
NewBlocks == made .. made + 3
NewPart == NewBlocks \ {made + 2}

\* The blocks of the parts once the fragment of s is in its slot.
OwnedWith(s) == [owned EXCEPT ![Slot(s)] = NewPart]
NothingOwned == [i \in Slots |-> {}]

-----------------------------------------------------------------------------
InitBackend == /\ Init
               /\ metrics = NoMetrics
               /\ made = 0
               /\ heap = {}
               /\ owned = NothingOwned

\* The fragment and the C string are freed on this path.
RefuseCall(s) == Refuse(s) /\ UNCHANGED <<metrics, made, heap, owned>>

\* A bug that also frees the part that holds the slot.
MutSlotTakenCall(s) ==
  /\ SlotTaken(s)
  /\ made' = made + 4
  /\ heap' = (heap \cup NewBlocks)
                \ ({made} \cup UNION {owned[i] : i \in Slots \cap {Slot(s)}})
  /\ UNCHANGED <<metrics, owned>>

\* Only the AISFragment itself is freed, not what it points to.
SlotTakenCall(s) == /\ SlotTaken(s)
                    /\ made' = made + 4
                    /\ heap' = (heap \cup NewBlocks) \ {made}
                    /\ UNCHANGED <<metrics, owned>>

HoldCall(s) == /\ Hold(s)
               /\ made' = made + 4
               /\ heap' = heap \cup NewBlocks
               /\ owned' = OwnedWith(s)
               /\ UNCHANGED metrics

\* A string that a failing handler allocated stays in msg and is not freed.
UndecodableCall(s) ==
  LET p == Joined(Run(With(s)))
  IN  /\ Undecodable(s)
      /\ metrics' = Joining(metrics, p)
      /\ made' = made + 4 + OrphanedStrings(p)
      /\ heap' = heap \cup (made .. made' - 1)
      /\ owned' = OwnedWith(s)

\* reset_buffer frees the held parts, free_ais_message what the handler made;
\* a pointer that no handler assigned is null here, or it is one for Abort.
DeliverCall(s) ==
  /\ Deliver(s)
  /\ metrics' = Joining(metrics, Joined(Run(With(s))))
  /\ made' = made + 4
  /\ heap' = (heap \cup NewBlocks)
                \ UNION {OwnedWith(s)[i] : i \in Held(With(s))}
  /\ owned' = NothingOwned

\* The counters and the memory of a new backend.
NewBackend == /\ metrics' = NoMetrics
              /\ made' = 0
              /\ heap' = {}
              /\ owned' = NothingOwned

AbortCall(s) == Abort(s) /\ NewBackend

EndBackend == EndSession /\ NewBackend

pg_ais_reset_metrics == /\ metrics' = NoMetrics
                        /\ UNCHANGED <<vars, made, heap, owned>>

pg_ais_parse(s) == \/ RefuseCall(s)
                   \/ SlotTakenCall(s)
                   \/ HoldCall(s)
                   \/ UndecodableCall(s)
                   \/ DeliverCall(s)
                   \/ AbortCall(s)

NextBackend == \/ \E s \in Sentences : pg_ais_parse(s)
               \/ pg_ais_reset_metrics
               \/ EndBackend

SpecBackend == InitBackend /\ [][NextBackend]_state

-----------------------------------------------------------------------------
(* What the metrics and the heap promise                                   *)

\* Type invariant of the counters and the heap.
BackendTypeOK == /\ metrics \in [messages : Nat, failures : Nat,
                                attempts : Nat, success  : Nat]
                 /\ made \in Nat
                 /\ heap \subseteq 0..made-1
                 /\ owned \in [Slots -> SUBSET (0..made-1)]

\* The four counters of a row of pg_ais_metrics() fit together at every read:
\* an attempt is counted as one or two messages, a success as two, and every
\* other message as a failure, also after a reset between two parts.
MetricsAddUp == /\ metrics.success <= metrics.attempts
                /\ metrics.attempts <= metrics.messages
                /\ metrics.messages <= 2 * metrics.attempts
                /\ metrics.messages - metrics.failures = 2 * metrics.success

\* Nothing that a held part consists of has been freed, and reset_buffer will
\* free none of it twice: each part's blocks are live and no other part's, over
\* all orders of stores, refusals and resets.
HeldPartsAreAllocated ==
  \A i \in Held(parts) :
     /\ owned[i] # {} /\ owned[i] \subseteq heap
     /\ \A j \in Held(parts) \ {i} : owned[i] \cap owned[j] = {}

\* The call was answered; the call left a message with all its parts behind.
Answers == reply'.kind \in {"json", "error"}
LeavesComplete == parts' # parts /\ Complete(parts')

\* A call on an accepted sentence counts an attempt exactly when it found all
\* the parts of a message, whether it delivers them or is left with them, and a
\* success exactly when its caller gets JSON or the ERROR of jsonb_in; then the
\* buffer is empty.  Nothing else counts.
AttemptsMatchReplies ==
  [][IF made' > made
     THEN /\ metrics'.attempts =
               metrics.attempts + (IF Answers \/ LeavesComplete THEN 1 ELSE 0)
          /\ metrics'.success = metrics.success + (IF Answers THEN 1 ELSE 0)
          /\ Answers => received' = 0
     ELSE metrics' \in {metrics, NoMetrics}]_state
=============================================================================
