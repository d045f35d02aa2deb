-------------------------- MODULE PgAisParseProofs --------------------------
(***************************************************************************)
(* The metrics and the heap of a backend, for every set of sentences and   *)
(* every number of slots.  On top of FBInv the heap needs nothing but the  *)
(* types of its variables, which put every block that a part is made of    *)
(* below made, and so apart from those of a new one.                       *)
(***************************************************************************)
EXTENDS PgAisParse, FragmentBufferProofs

MetricsType == [messages : Nat, failures : Nat, attempts : Nat, success : Nat]

BackendInv == FBInv /\ BackendTypeOK /\ MetricsAddUp /\ HeldPartsAreAllocated

\* A payload that decodes was recorded by parse_ais_payload.
LEMMA DecodedIsRecorded ==
  ASSUME NEW p, Decode(p) = "PARSE_OK"
  PROVE  Recorded(p)
BY DEF Decode, Recorded

\* pg_ais_record_parse_result raises the counters of parses, no other.
LEMMA ResultIsRecorded ==
  ASSUME NEW m \in MetricsType, NEW ok \in BOOLEAN
  PROVE  /\ pg_ais_record_parse_result(m, ok) \in MetricsType
         /\ pg_ais_record_parse_result(m, ok).messages = m.messages + 1
         /\ pg_ais_record_parse_result(m, ok).failures =
              IF ok THEN m.failures ELSE m.failures + 1
         /\ pg_ais_record_parse_result(m, ok).attempts = m.attempts
         /\ pg_ais_record_parse_result(m, ok).success = m.success
<1>1. /\ m.messages + 1 \in Nat
      /\ (IF ok THEN m.failures ELSE m.failures + 1) \in Nat
  BY DEF MetricsType
<1>2. pg_ais_record_parse_result(m, ok) \in MetricsType
  BY <1>1 DEF pg_ais_record_parse_result, MetricsType
<1>3. /\ pg_ais_record_parse_result(m, ok).messages = m.messages + 1
      /\ pg_ais_record_parse_result(m, ok).failures =
           IF ok THEN m.failures ELSE m.failures + 1
      /\ pg_ais_record_parse_result(m, ok).attempts = m.attempts
      /\ pg_ais_record_parse_result(m, ok).success = m.success
  BY DEF pg_ais_record_parse_result, MetricsType
<1> QED
  BY <1>2, <1>3

\* pg_ais_record_reassembly_attempt raises the counters of attempts, no other.
LEMMA AttemptIsRecorded ==
  ASSUME NEW m \in MetricsType, NEW ok \in BOOLEAN
  PROVE  /\ pg_ais_record_reassembly_attempt(m, ok) \in MetricsType
         /\ pg_ais_record_reassembly_attempt(m, ok).messages = m.messages
         /\ pg_ais_record_reassembly_attempt(m, ok).failures = m.failures
         /\ pg_ais_record_reassembly_attempt(m, ok).attempts = m.attempts + 1
         /\ pg_ais_record_reassembly_attempt(m, ok).success =
              IF ok THEN m.success + 1 ELSE m.success
<1>1. /\ m.attempts + 1 \in Nat
      /\ (IF ok THEN m.success + 1 ELSE m.success) \in Nat
  BY DEF MetricsType
<1>2. pg_ais_record_reassembly_attempt(m, ok) \in MetricsType
  BY <1>1 DEF pg_ais_record_reassembly_attempt, MetricsType
<1>3. /\ pg_ais_record_reassembly_attempt(m, ok).messages = m.messages
      /\ pg_ais_record_reassembly_attempt(m, ok).failures = m.failures
      /\ pg_ais_record_reassembly_attempt(m, ok).attempts = m.attempts + 1
      /\ pg_ais_record_reassembly_attempt(m, ok).success =
           IF ok THEN m.success + 1 ELSE m.success
  BY DEF pg_ais_record_reassembly_attempt, MetricsType
<1> QED
  BY <1>2, <1>3

\* A join adds one attempt, and two messages and a success if it decodes;
\* otherwise one or two messages, all of them failures.
LEMMA JoiningCounts ==
  ASSUME BackendTypeOK, NEW p
  PROVE  /\ Joining(metrics, p) \in MetricsType
         /\ Joining(metrics, p).attempts = metrics.attempts + 1
         /\ Decode(p) = "PARSE_OK" =>
              /\ Joining(metrics, p).messages = metrics.messages + 2
              /\ Joining(metrics, p).failures = metrics.failures
              /\ Joining(metrics, p).success = metrics.success + 1
         /\ Decode(p) # "PARSE_OK" =>
              \E k \in 1..2 :
                 /\ Joining(metrics, p).messages = metrics.messages + k
                 /\ Joining(metrics, p).failures = metrics.failures + k
                 /\ Joining(metrics, p).success = metrics.success
<1> DEFINE ok    == Decode(p) = "PARSE_OK"
           once  == IF Recorded(p) THEN pg_ais_record_parse_result(metrics, ok)
                    ELSE metrics
           twice == pg_ais_record_parse_result(once, ok)
           j     == Joining(metrics, p)
<1>1. metrics \in MetricsType /\ ok \in BOOLEAN /\ (ok => Recorded(p))
  BY DecodedIsRecorded DEF BackendTypeOK, MetricsType
<1>2. /\ metrics.messages \in Nat /\ metrics.failures \in Nat
  BY <1>1 DEF MetricsType
<1>3. j = pg_ais_record_reassembly_attempt(twice, ok)
  BY DEF Joining
<1> HIDE DEF ok, j
<1>4. /\ once \in MetricsType
      /\ once.attempts = metrics.attempts /\ once.success = metrics.success
      /\ once.messages = IF Recorded(p) THEN metrics.messages + 1 ELSE metrics.messages
      /\ once.failures = IF Recorded(p) /\ ~ok THEN metrics.failures + 1
                         ELSE metrics.failures
  BY <1>1, ResultIsRecorded
<1> HIDE DEF once
<1>5. /\ twice \in MetricsType
      /\ twice.attempts = metrics.attempts /\ twice.success = metrics.success
      /\ twice.messages = once.messages + 1
      /\ twice.failures = IF ok THEN once.failures ELSE once.failures + 1
  BY <1>1, <1>4, ResultIsRecorded
<1> HIDE DEF twice
<1>6. /\ j \in MetricsType
      /\ j.attempts = metrics.attempts + 1
      /\ j.success = IF ok THEN metrics.success + 1 ELSE metrics.success
      /\ j.messages = twice.messages /\ j.failures = twice.failures
  BY <1>1, <1>3, <1>5, AttemptIsRecorded
<1>7. ok => /\ j.messages = metrics.messages + 2
            /\ j.failures = metrics.failures
            /\ j.success = metrics.success + 1
  BY <1>1, <1>2, <1>4, <1>5, <1>6
<1>8. ASSUME ~ok
      PROVE  \E k \in 1..2 : /\ j.messages = metrics.messages + k
                              /\ j.failures = metrics.failures + k
                              /\ j.success = metrics.success
  <2>1. CASE Recorded(p)
    <3>1. /\ j.messages = metrics.messages + 2
          /\ j.failures = metrics.failures + 2
          /\ j.success = metrics.success
      BY <1>2, <1>4, <1>5, <1>6, <1>8, <2>1
    <3> QED
      BY <3>1
  <2>2. CASE ~Recorded(p)
    <3>1. /\ j.messages = metrics.messages + 1
          /\ j.failures = metrics.failures + 1
          /\ j.success = metrics.success
      BY <1>2, <1>4, <1>5, <1>6, <1>8, <2>2
    <3> QED
      BY <3>1
  <2> QED
    BY <2>1, <2>2
<1> QED
  BY <1>6, <1>7, <1>8 DEF ok, j

\* A join keeps the counters typed and adding up.
LEMMA JoiningAddsUp ==
  ASSUME BackendTypeOK, MetricsAddUp, NEW p, metrics' = Joining(metrics, p)
  PROVE  metrics' \in MetricsType /\ MetricsAddUp'
<1>1. /\ metrics.messages \in Nat /\ metrics.failures \in Nat
      /\ metrics.attempts \in Nat /\ metrics.success \in Nat
  BY DEF BackendTypeOK
<1>2. metrics' \in MetricsType
  BY JoiningCounts
<1>3. MetricsAddUp'
  BY <1>1, JoiningCounts DEF MetricsAddUp
<1> QED
  BY <1>2, <1>3

-----------------------------------------------------------------------------
(* The invariant                                                           *)

\* An empty buffer holds no part.
LEMMA NothingHeld == Held(NoParts) = {}
BY DEF Held, NoParts

\* A new backend has no counts and no blocks.
LEMMA BackendStarts == InitBackend => BackendInv
<1>1. InitBackend => FBInv
  BY InitEstablishesFBInv DEF InitBackend
<1>2. InitBackend => BackendTypeOK /\ MetricsAddUp /\ HeldPartsAreAllocated
  BY NothingHeld
     DEF InitBackend, Init, NoMetrics, NothingOwned, BackendTypeOK, MetricsAddUp,
         HeldPartsAreAllocated
<1> QED
  BY <1>1, <1>2 DEF BackendInv

\* A backend without counts and blocks, and with an empty buffer.
LEMMA FreshBackend ==
  ASSUME NewBackend, parts' = NoParts
  PROVE  BackendTypeOK' /\ MetricsAddUp' /\ HeldPartsAreAllocated'
BY NothingHeld
   DEF NewBackend, NoMetrics, NothingOwned, BackendTypeOK, MetricsAddUp,
       HeldPartsAreAllocated

\* A call that stores its fragment gives it new blocks, and leaves the blocks of
\* the other parts alone.
LEMMA StoringAllocates ==
  ASSUME BackendTypeOK, HeldPartsAreAllocated, NEW s, Stores(s),
         parts \in PartsType, parts' = With(s), owned' = OwnedWith(s),
         NEW k \in Nat, made' = made + 4 + k,
         heap' = heap \cup (made .. made' - 1)
  PROVE  /\ made' \in Nat
         /\ heap' \subseteq 0..made'-1
         /\ owned' \in [Slots -> SUBSET (0..made'-1)]
         /\ HeldPartsAreAllocated'
<1> DEFINE i == Slot(s)
<1>1. /\ made \in Nat /\ heap \subseteq 0..made-1
      /\ owned \in [Slots -> SUBSET (0..made-1)]
  BY DEF BackendTypeOK
<1>2. i \in Slots /\ parts[i] = NoPart
  BY DEF Stores
<1>3. /\ made' \in Nat /\ 0..made-1 \subseteq 0..made'-1
      /\ NewPart \subseteq made..made'-1 /\ NewPart \subseteq 0..made'-1
      /\ made..made'-1 \subseteq 0..made'-1
      /\ made \in NewPart /\ NewPart \cap (0..made-1) = {}
  BY <1>1 DEF NewPart, NewBlocks
<1>4. heap' \subseteq 0..made'-1
  BY <1>1, <1>3
<1>5. /\ owned' \in [Slots -> SUBSET (0..made'-1)]
      /\ owned'[i] = NewPart
      /\ \A j \in Slots \ {i} : owned'[j] = owned[j]
  BY <1>1, <1>2, <1>3 DEF OwnedWith
<1>6. Held(parts') \subseteq Held(parts) \cup {i} /\ Held(parts) \subseteq Slots
  BY <1>2 DEF With, Held, PartsType
<1> HIDE DEF i
<1>7. HeldPartsAreAllocated'
  <2> SUFFICES ASSUME NEW j \in Held(parts')
               PROVE  /\ owned'[j] # {} /\ owned'[j] \subseteq heap'
                      /\ \A l \in Held(parts') \ {j} : owned'[j] \cap owned'[l] = {}
    BY DEF HeldPartsAreAllocated
  <2>1. CASE j = i
    BY <1>1, <1>3, <1>5, <1>6, <2>1
  <2>2. CASE j # i
    <3>1. j \in Held(parts) /\ j \in Slots /\ owned'[j] = owned[j]
      BY <1>5, <1>6, <2>2
    <3>2. owned[j] # {} /\ owned[j] \subseteq heap
      BY <3>1 DEF HeldPartsAreAllocated
    <3>3. ASSUME NEW l \in Held(parts') \ {j}
          PROVE  owned'[j] \cap owned'[l] = {}
      <4>1. CASE l = i
        BY <1>1, <1>3, <1>5, <3>1, <4>1
      <4>2. CASE l # i
        BY <1>5, <1>6, <3>1, <4>2 DEF HeldPartsAreAllocated
      <4> QED
        BY <4>1, <4>2
    <3> QED
      BY <3>1, <3>2, <3>3
  <2> QED
    BY <2>1, <2>2
<1> QED
  BY <1>3, <1>4, <1>5, <1>7

\* Every call, reset of the metrics and end of the backend keeps it.
LEMMA BackendSteps == BackendInv /\ [NextBackend]_state => BackendInv'
<1> SUFFICES ASSUME BackendInv, [NextBackend]_state
             PROVE  BackendInv'
  OBVIOUS
<1> USE DEF BackendInv
<1>1. FBInv'
  BY NextPreservesFBInv
     DEF NextBackend, pg_ais_parse, RefuseCall, SlotTakenCall, HoldCall,
         UndecodableCall, DeliverCall, AbortCall, pg_ais_reset_metrics,
         EndBackend, Next, Parse, state
<1>2. /\ made \in Nat /\ heap \subseteq 0..made-1
      /\ owned \in [Slots -> SUBSET (0..made-1)]
      /\ parts \in PartsType /\ Held(parts) \subseteq Slots
  BY DEF BackendTypeOK, FBInv, TypeOK, PartsType, Held
<1>3. ASSUME NEW s \in Sentences, RefuseCall(s)  PROVE  BackendInv'
  BY <1>1, <1>3 DEF RefuseCall, Refuse, BackendTypeOK, MetricsAddUp,
                    HeldPartsAreAllocated
<1>4. ASSUME NEW s \in Sentences, SlotTakenCall(s)  PROVE  BackendInv'
  <2>1. /\ made' = made + 4 /\ heap' = (heap \cup NewBlocks) \ {made}
        /\ UNCHANGED <<metrics, owned, parts>>
    BY <1>4 DEF SlotTakenCall, SlotTaken
  <2>2. /\ made' \in Nat /\ 0..made-1 \subseteq 0..made'-1
        /\ NewBlocks \subseteq 0..made'-1 /\ made \notin 0..made-1
    BY <1>2, <2>1 DEF NewBlocks
  <2>3. BackendTypeOK'
    BY <1>2, <2>1, <2>2 DEF BackendTypeOK
  <2>4. \A i \in Held(parts) : made \notin owned[i]
    BY <1>2, <2>2
  <2>5. HeldPartsAreAllocated'
    BY <2>1, <2>4 DEF HeldPartsAreAllocated
  <2> QED
    BY <1>1, <2>1, <2>3, <2>5 DEF MetricsAddUp
<1>5. ASSUME NEW s \in Sentences, HoldCall(s)  PROVE  BackendInv'
  <2>1. /\ Stores(s) /\ parts' = With(s) /\ owned' = OwnedWith(s)
        /\ made' = made + 4 + 0 /\ UNCHANGED metrics
        /\ heap' = heap \cup NewBlocks
    BY <1>2, <1>5 DEF HoldCall, Hold
  <2>2. heap' = heap \cup (made .. made' - 1)
    BY <1>2, <2>1 DEF NewBlocks
  <2>3. /\ made' \in Nat /\ heap' \subseteq 0..made'-1
        /\ owned' \in [Slots -> SUBSET (0..made'-1)] /\ HeldPartsAreAllocated'
    BY <1>2, <2>1, <2>2, StoringAllocates
  <2> QED
    BY <1>1, <2>1, <2>3 DEF BackendTypeOK, MetricsAddUp
<1>6. ASSUME NEW s \in Sentences, UndecodableCall(s)  PROVE  BackendInv'
  <2> DEFINE p == Joined(Run(With(s)))
             orphans == OrphanedStrings(p)
  <2>1. metrics' = Joining(metrics, p)
    BY <1>6 DEF UndecodableCall
  <2>2. orphans \in Nat
    BY DEF OrphanedStrings
  <2>3. /\ Stores(s) /\ parts' = With(s) /\ owned' = OwnedWith(s)
        /\ made' = made + 4 + orphans
        /\ heap' = heap \cup (made .. made' - 1)
    BY <1>6 DEF UndecodableCall, Undecodable
  <2> HIDE DEF p, orphans
  <2>4. /\ made' \in Nat /\ heap' \subseteq 0..made'-1
        /\ owned' \in [Slots -> SUBSET (0..made'-1)] /\ HeldPartsAreAllocated'
    BY <1>2, <2>2, <2>3, StoringAllocates
  <2> QED
    BY <1>1, <2>1, <2>4, JoiningAddsUp DEF BackendTypeOK, MetricsType
<1>7. ASSUME NEW s \in Sentences, DeliverCall(s)  PROVE  BackendInv'
  <2>1. /\ metrics' = Joining(metrics, Joined(Run(With(s))))
        /\ made' = made + 4 /\ heap' \subseteq heap \cup NewBlocks
        /\ owned' = NothingOwned /\ parts' = NoParts
    BY <1>7 DEF DeliverCall, Deliver
  <2>2. /\ made' \in Nat /\ heap' \subseteq 0..made'-1
        /\ owned' \in [Slots -> SUBSET (0..made'-1)]
    BY <1>2, <2>1 DEF NewBlocks, NothingOwned
  <2>3. HeldPartsAreAllocated'
    BY <2>1, NothingHeld DEF HeldPartsAreAllocated
  <2> QED
    BY <1>1, <2>1, <2>2, <2>3, JoiningAddsUp DEF BackendTypeOK, MetricsType
<1>8. ASSUME NEW s \in Sentences, AbortCall(s)  PROVE  BackendInv'
  BY <1>1, <1>8, FreshBackend DEF AbortCall, Abort
<1>9. CASE pg_ais_reset_metrics
  BY <1>1, <1>9 DEF pg_ais_reset_metrics, NoMetrics, vars, BackendTypeOK,
                    MetricsAddUp, HeldPartsAreAllocated
<1>10. CASE EndBackend
  BY <1>1, <1>10, FreshBackend DEF EndBackend, EndSession
<1>11. CASE UNCHANGED state
  BY <1>1, <1>11 DEF state, vars, BackendTypeOK, MetricsAddUp,
                     HeldPartsAreAllocated
<1> QED
  BY <1>3, <1>4, <1>5, <1>6, <1>7, <1>8, <1>9, <1>10, <1>11
     DEF NextBackend, pg_ais_parse

\* The invariant holds in every state of the backend.
LEMMA BackendInvariance == SpecBackend => []BackendInv
BY BackendStarts, BackendSteps, PTL DEF SpecBackend

\* The counters stay natural numbers; a live block was made, and a part is made
\* of such blocks.
THEOREM BackendTypeCorrect == SpecBackend => []BackendTypeOK
<1>1. BackendInv => BackendTypeOK
  BY DEF BackendInv
<1> QED
  BY <1>1, BackendInvariance, PTL

\* The four counters fit together whenever they are read.
THEOREM MetricsAlwaysAddUp == SpecBackend => []MetricsAddUp
<1>1. BackendInv => MetricsAddUp
  BY DEF BackendInv
<1> QED
  BY <1>1, BackendInvariance, PTL

\* No block of a held part is freed, and none belongs to two parts.
THEOREM HeldPartsStayAllocated == SpecBackend => []HeldPartsAreAllocated
<1>1. BackendInv => HeldPartsAreAllocated
  BY DEF BackendInv
<1> QED
  BY <1>1, BackendInvariance, PTL

-----------------------------------------------------------------------------
(* Counts and answers                                                      *)

\* The step of AttemptsMatchReplies.
Matched ==
  IF made' > made
  THEN /\ metrics'.attempts =
            metrics.attempts + (IF Answers \/ LeavesComplete THEN 1 ELSE 0)
       /\ metrics'.success = metrics.success + (IF Answers THEN 1 ELSE 0)
       /\ Answers => received' = 0
  ELSE metrics' \in {metrics, NoMetrics}

\* Whether a stored part completes a message is what try_reassemble tests.
LEMMA StoringCompletes ==
  ASSUME FBInv, NEW s \in Sentences, Stores(s)
  PROVE  /\ Ready(With(s), received + 1) <=> Complete(With(s))
         /\ With(s) # parts
<1>1. /\ parts \in PartsType /\ received \in Nat
      /\ received = Cardinality(Held(parts))
  BY DEF FBInv, TypeOK, PartsType, ReceivedCountsParts
<1>2. With(s) \in PartsType /\ Cardinality(Held(With(s))) = received + 1
  BY <1>1, StoringAddsOne
<1>3. With(s) # parts
  BY <1>1, <1>2
<1> QED
  BY <1>2, <1>3, ReadyIsComplete

\* Every step counts what its caller sees.
LEMMA CountsStep ==
  ASSUME BackendInv, [NextBackend]_state
  PROVE  Matched \/ UNCHANGED state
<1>1. /\ made \in Nat /\ FBInv /\ BackendTypeOK
      /\ metrics.success \in Nat /\ metrics.attempts \in Nat
  BY DEF BackendInv, BackendTypeOK
<1>2. ASSUME NEW s \in Sentences, RefuseCall(s)  PROVE  Matched
  BY <1>1, <1>2 DEF RefuseCall, Matched
<1>3. ASSUME NEW s \in Sentences, SlotTakenCall(s)  PROVE  Matched
  <2>1. ~Answers /\ ~LeavesComplete /\ metrics' = metrics
    BY <1>3 DEF SlotTakenCall, SlotTaken, Null, Answers, LeavesComplete
  <2> QED
    BY <1>1, <2>1 DEF Matched
<1>4. ASSUME NEW s \in Sentences, HoldCall(s)  PROVE  Matched
  <2>1. Stores(s) /\ parts' = With(s) /\ ~Ready(With(s), received + 1)
    BY <1>4 DEF HoldCall, Hold
  <2>2. ~Answers /\ ~LeavesComplete /\ metrics' = metrics
    BY <1>1, <1>4, <2>1, StoringCompletes
       DEF HoldCall, Hold, Null, Answers, LeavesComplete
  <2> QED
    BY <1>1, <2>2 DEF Matched
<1>5. ASSUME NEW s \in Sentences, UndecodableCall(s)  PROVE  Matched
  <2>1. /\ Stores(s) /\ parts' = With(s) /\ Ready(With(s), received + 1)
        /\ ~Decodes(With(s)) /\ metrics' = Joining(metrics, Joined(Run(With(s))))
    BY <1>5 DEF UndecodableCall, Undecodable
  <2>2. /\ metrics'.attempts = metrics.attempts + 1
        /\ metrics'.success = metrics.success
    BY <1>1, <2>1, JoiningCounts DEF Decodes
  <2>3. ~Answers /\ LeavesComplete
    BY <1>1, <1>5, <2>1, StoringCompletes
       DEF UndecodableCall, Undecodable, Null, Answers, LeavesComplete
  <2>4. made' > made
    BY <1>1, <1>5 DEF UndecodableCall, OrphanedStrings
  <2> QED
    BY <1>1, <2>2, <2>3, <2>4 DEF Matched
<1>6. ASSUME NEW s \in Sentences, DeliverCall(s)  PROVE  Matched
  <2>1. /\ metrics'.attempts = metrics.attempts + 1
        /\ metrics'.success = metrics.success + 1
    BY <1>1, <1>6, JoiningCounts DEF DeliverCall, Deliver, Decodes
  <2>2. Answers /\ received' = 0 /\ made' = made + 4
    BY <1>6, RepliesAreTyped DEF DeliverCall, Deliver, Answers
  <2> QED
    BY <1>1, <2>1, <2>2 DEF Matched
<1>7. ASSUME NEW s \in Sentences, AbortCall(s)  PROVE  Matched
  BY <1>1, <1>7 DEF AbortCall, NewBackend, Matched
<1>8. CASE pg_ais_reset_metrics
  BY <1>1, <1>8 DEF pg_ais_reset_metrics, Matched
<1>9. CASE EndBackend
  BY <1>1, <1>9 DEF EndBackend, NewBackend, Matched
<1> QED
  BY <1>2, <1>3, <1>4, <1>5, <1>6, <1>7, <1>8, <1>9 DEF NextBackend, pg_ais_parse

\* What is counted is what the caller and the next call see.
THEOREM AttemptsAlwaysMatch == SpecBackend => AttemptsMatchReplies
<1>1. BackendInv /\ [NextBackend]_state => [Matched]_state
  BY CountsStep
<1> QED
  BY <1>1, BackendInvariance, PTL DEF SpecBackend, AttemptsMatchReplies, Matched
=============================================================================
