-------------------------- MODULE SerialFeedProofs --------------------------
(***************************************************************************)
(* Under a serial feed every call is a step of Assembler, for any set of   *)
(* well-formed messages.  The invariant adds to that of the buffer that    *)
(* what is held belongs to the message being sent; a complete buffer then  *)
(* holds exactly its parts, and delivers it.                               *)
(***************************************************************************)
EXTENDS SerialFeed, FragmentBufferProofs

FeedInv == FBInv /\ sending \in Messages /\ HeldIsOwn

\* A sentence of a well-formed message carries its place and the length of
\* the message.
LEMMA OwnFragment ==
  ASSUME NEW m \in Messages, NEW i \in 1..Len(m)
  PROVE  /\ m[i] \in Sentences /\ Accepts(m[i])
         /\ Fragment[m[i]] = Parse1(m)[i]
         /\ Parse1(m)[i].seq = i /\ Parse1(m)[i].total = Len(m)
         /\ Slot(m[i]) = i - 1 /\ i - 1 \in Slots
         /\ Len(m) \in 1..MaxParts
<1>1. WellFormed(m)
  BY MessagesAssumption
<1>2. /\ Len(m) \in 1..MaxParts /\ Accepts(m[i])
      /\ Parse1(m)[i].seq = i /\ Parse1(m)[i].total = Len(m)
      /\ DOMAIN m = 1..Len(m) /\ m[i] \in Sentences
  BY <1>1 DEF WellFormed
<1>3. Fragment[m[i]] = Parse1(m)[i]
  BY <1>2 DEF Parse1
<1> QED
  BY <1>2, <1>3, SizesAssumption DEF Slot, Slots

\* A part of the message being sent joins its own.
LEMMA StoringOwn ==
  ASSUME FBInv, sending \in Messages, HeldIsOwn,
         NEW i \in 1..Len(sending), Stores(sending[i])
  PROVE  \A j \in Held(With(sending[i])) :
            j < Len(sending) /\ With(sending[i])[j] = Parse1(sending)[j+1]
<1> DEFINE s == sending[i]
<1>1. parts \in PartsType
  BY DEF FBInv, TypeOK, PartsType
<1>2. s \in Sentences /\ Slot(s) = i - 1 /\ Fragment[s] = Parse1(sending)[i]
  BY OwnFragment
<1>3. /\ Held(With(s)) = Held(parts) \cup {i - 1}
      /\ With(s)[i-1] = Parse1(sending)[i]
      /\ \A j \in Slots : j # i - 1 => With(s)[j] = parts[j]
  BY <1>1, <1>2, StoringAddsOne
<1>4. i - 1 < Len(sending) /\ (i - 1) + 1 = i
  BY OwnFragment
<1> HIDE DEF s
<1>5. ASSUME NEW j \in Held(With(s))
      PROVE  j < Len(sending) /\ With(s)[j] = Parse1(sending)[j+1]
  <2>1. CASE j = i - 1
    BY <1>3, <1>4, <2>1
  <2>2. CASE j # i - 1
    BY <1>3, <1>5, <2>2 DEF HeldIsOwn, Held
  <2> QED
    BY <2>1, <2>2
<1> QED
  BY <1>5 DEF s

\* A buffer that is ready under a serial feed holds the message being sent,
\* and joins it.
LEMMA ReadyIsWhole ==
  ASSUME FBInv, sending \in Messages, HeldIsOwn,
         NEW i \in 1..Len(sending), Stores(sending[i]),
         Ready(With(sending[i]), received + 1)
  PROVE  /\ Held(With(sending[i])) = 0..Len(sending)-1
         /\ With(sending[i])[0].total = Len(sending)
         /\ Run(With(sending[i])) = Parse1(sending)
<1> DEFINE pp == With(sending[i])
           n  == Len(sending)
<1>1. /\ pp \in PartsType
      /\ received + 1 = Cardinality(Held(pp))
  BY StoringAddsOne, OwnFragment
     DEF FBInv, TypeOK, PartsType, ReceivedCountsParts
<1>2. Complete(pp)
  BY <1>1, ReadyIsComplete
<1>3. /\ \A j \in Held(pp) : j < n /\ pp[j] = Parse1(sending)[j+1]
      /\ n \in 1..MaxParts /\ MaxParts \in Nat
  BY StoringOwn, OwnFragment, SizesAssumption
<1>4. /\ DOMAIN Parse1(sending) = 1..n
      /\ Parse1(sending)[1].total = n
  <2>1. sending \in Seq(Sentences) /\ 1 \in 1..Len(sending)
    BY <1>3, MessagesAssumption DEF WellFormed
  <2>2. DOMAIN Parse1(sending) = 1..Len(sending)
    BY <2>1 DEF Parse1
  <2>3. Parse1(sending)[1].total = Len(sending)
    BY <2>1, OwnFragment
  <2> QED
    BY <2>2, <2>3
<1> HIDE DEF pp, n
<1>5. pp[0] # NoPart /\ 0 \in Held(pp)
  BY <1>2, SlotsAreFinite DEF Complete, Held
<1>6. pp[0].total = n
  BY <1>3, <1>4, <1>5
<1>7. 0..n-1 \subseteq Held(pp)
  BY <1>2, <1>3, <1>6 DEF Complete, Held, Slots
<1>8. Held(pp) \subseteq 0..n-1
  BY <1>3 DEF Held, Slots
<1>9. Run(pp) = Parse1(sending)
  <2>1. \A k \in 1..n : k - 1 \in 0..n-1 /\ (k - 1) + 1 = k
    BY <1>3
  <2>2. \A k \in 1..n : pp[k-1] = Parse1(sending)[k]
    BY <1>3, <1>7, <2>1
  <2>3. Run(pp) = [k \in 1..n |-> pp[k-1]]
    BY <1>6 DEF Run
  <2>4. Parse1(sending) = [k \in 1..n |-> Parse1(sending)[k]]
    BY <1>4 DEF Parse1
  <2> QED
    BY <2>2, <2>3, <2>4
<1> QED
  BY <1>6, <1>7, <1>8, <1>9 DEF pp, n

-----------------------------------------------------------------------------
(* A call under the feed                                                   *)

\* A sentence of the message being sent is never refused, never ends the
\* backend, and never completes a message that does not decode; the one that
\* completes the message is answered with JSON, made from all of it.
LEMMA OwnCall ==
  ASSUME FBInv, sending \in Messages, HeldIsOwn,
         NEW i \in 1..Len(sending), Parse(sending[i])
  PROVE  \/ SlotTaken(sending[i]) /\ parts[i-1] # NoPart
         \/ Hold(sending[i])
         \/ Deliver(sending[i]) /\ reply' = Json(Parse1(sending))
<1> DEFINE s == sending[i]
<1>1. Accepts(s) /\ Slot(s) = i - 1 /\ i - 1 \in Slots
  BY OwnFragment
<1>2. WellFormed(sending) /\ Len(sending) \in 1..MaxParts
  BY MessagesAssumption, OwnFragment
<1>3. ASSUME Stores(s), Ready(With(s), received + 1)
      PROVE  /\ Decodes(With(s)) /\ ~ReadsOutside(With(s))
             /\ ~FreesIndeterminate(Joined(Run(With(s))))
             /\ Replies(Run(With(s))) = {Json(Parse1(sending))}
  <2>1. Run(With(s)) = Parse1(sending) /\ With(s)[0].total = Len(sending)
    BY <1>3, ReadyIsWhole
  <2>2. Decodes(With(s)) /\ ~ReadsOutside(With(s))
    BY <1>2, <2>1 DEF WellFormed, Decodes, ReadsOutside
  <2>3. ~FreesIndeterminate(Joined(Run(With(s))))
    BY CleanStackAssumption DEF FreesIndeterminate
  <2>4. Replies(Run(With(s))) = {Json(Parse1(sending))}
    BY <1>2, <2>1, CleanStackAssumption DEF WellFormed, Replies
  <2> QED
    BY <2>2, <2>3, <2>4
<1> HIDE DEF s
<1>4. ~Refuse(s)
  BY <1>1 DEF Refuse
<1>5. ~Undecodable(s) /\ ~Abort(s)
  BY <1>3 DEF Undecodable, Abort
<1>6. ASSUME SlotTaken(s)  PROVE  parts[i-1] # NoPart
  BY <1>1, <1>6 DEF SlotTaken, Stores
<1>7. ASSUME Deliver(s)  PROVE  reply' = Json(Parse1(sending))
  BY <1>3, <1>7 DEF Deliver
<1> QED
  BY <1>4, <1>5, <1>6, <1>7 DEF Parse, s

\* A call on a sentence of the message being sent keeps the buffer its own,
\* and leaves it empty when it is answered with anything but NULL.
LEMMA OwnCallKeepsHeld ==
  ASSUME FBInv, sending \in Messages, HeldIsOwn,
         NEW i \in 1..Len(sending), Parse(sending[i])
  PROVE  \/ /\ reply'.kind = "null"
            /\ \A j \in Held(parts') : /\ j < Len(sending)
                                       /\ parts'[j] = Parse1(sending)[j+1]
         \/ /\ reply' = Json(Parse1(sending))
            /\ Held(parts') = {}
<1>1. CASE SlotTaken(sending[i])
  BY <1>1 DEF SlotTaken, Null, HeldIsOwn
<1>2. CASE Hold(sending[i])
  BY <1>2, StoringOwn DEF Hold, Null
<1>3. CASE Deliver(sending[i]) /\ reply' = Json(Parse1(sending))
  BY <1>3, NoPartsIsEmpty DEF Deliver
<1> QED
  BY <1>1, <1>2, <1>3, OwnCall

\* The feed starts in its invariant.
LEMMA FeedStarts == InitFeed => FeedInv
BY InitEstablishesFBInv, NoPartsIsEmpty DEF InitFeed, Init, FeedInv, HeldIsOwn

\* Every call of the feed keeps it.
LEMMA FeedSteps == FeedInv /\ [NextFeed]_fvars => FeedInv'
<1> SUFFICES ASSUME FeedInv, [NextFeed]_fvars  PROVE  FeedInv'
  OBVIOUS
<1> USE DEF FeedInv
<1>1. ASSUME NEW i \in 1..MaxParts, Feed(i)  PROVE  FeedInv'
  <2>1. /\ i \in 1..Len(sending) /\ Parse(sending[i])
        /\ sending' \in IF reply'.kind = "null" THEN {sending} ELSE Messages
    BY <1>1 DEF Feed
  <2>2. sending[i] \in Sentences
    BY <2>1, OwnFragment
  <2>3. FBInv'
    BY <2>1, <2>2, NextPreservesFBInv DEF Next
  <2>4. sending' \in Messages
    BY <2>1
  <2>5. HeldIsOwn'
    BY <2>1, OwnCallKeepsHeld DEF HeldIsOwn, Json, Held
  <2> QED
    BY <2>3, <2>4, <2>5
<1>2. CASE UNCHANGED fvars
  BY <1>2, NextPreservesFBInv DEF fvars, vars, HeldIsOwn, Held
<1> QED
  BY <1>1, <1>2 DEF NextFeed

\* Under a serial feed the buffer holds parts of the message being sent only.
THEOREM HeldStaysOwn == SpecFeed => []HeldIsOwn
<1>1. FeedInv => HeldIsOwn
  BY DEF FeedInv
<1> QED
  BY <1>1, FeedStarts, FeedSteps, PTL DEF SpecFeed

-----------------------------------------------------------------------------
(* The refinement of Assembler                                             *)

Got == {j + 1 : j \in Held(parts)}
Out == IF reply.kind = "json" THEN MessageOf(reply.from) ELSE None

\* The parts the assembler misses are those without a slot in use.
LEMMA MissingIsFree ==
  ASSUME sending \in Messages
  PROVE  /\ Abstract!Missing = {j \in 1..Len(sending) : j - 1 \notin Held(parts)}
         /\ 1..Len(sending) \subseteq Abstract!Indices
<1>1. [m \in Messages |-> Len(m)][sending] = Len(sending)
  OBVIOUS
<1>2. Len(sending) \in Nat
  BY MessagesAssumption DEF WellFormed
<1>3. \A j \in 1..Len(sending) : j \in Got <=> j - 1 \in Held(parts)
  <2>1. Held(parts) \subseteq Int
    BY SizesAssumption DEF Held, Slots
  <2> QED
    BY <1>2, <2>1 DEF Got
<1> QED
  BY <1>1, <1>3 DEF Abstract!Missing, Abstract!Indices, Got

\* A reply is made from one message only.
LEMMA ReplyNamesMessage ==
  ASSUME NEW m \in Messages
  PROVE  MessageOf(Parse1(m)) = m
BY DistinctAssumption DEF MessageOf

\* Every call of the feed is a step of the assembler.
LEMMA FeedAssembles ==
  FeedInv /\ [NextFeed]_fvars => [Abstract!Next]_(Abstract!avars)
<1> SUFFICES ASSUME FeedInv, [NextFeed]_fvars
             PROVE  [Abstract!Next]_(Abstract!avars)
  OBVIOUS
<1>1. ASSUME NEW i \in 1..MaxParts, Feed(i)  PROVE  Abstract!Next
  <2> DEFINE s == sending[i]
             missing == {j \in 1..Len(sending) : j - 1 \notin Held(parts)}
  <2>1. /\ i \in 1..Len(sending) /\ Parse(s) /\ sending \in Messages
        /\ sending' \in IF reply'.kind = "null" THEN {sending} ELSE Messages
    BY <1>1 DEF Feed, FeedInv
  <2>2. /\ Slot(s) = i - 1 /\ i - 1 \in Slots /\ s \in Sentences
        /\ Fragment[s] = Parse1(sending)[i] /\ Len(sending) \in 1..MaxParts
    BY <2>1, OwnFragment
  <2>3. i \in Abstract!Indices /\ Abstract!Missing = missing
    BY <2>1, MissingIsFree
  <2>4. /\ parts \in PartsType
        /\ received = Cardinality(Held(parts))
    BY DEF FeedInv, FBInv, TypeOK, PartsType, ReceivedCountsParts
  <2>5. CASE SlotTaken(s) /\ parts[i-1] # NoPart
    <3>1. i \in Got
      BY <2>1, <2>2, <2>5 DEF Got, Held
    <3>2. /\ Got' = Got /\ sending' = sending
          /\ Out' = None
      BY <2>1, <2>5 DEF SlotTaken, Null, Got, Out, Held
    <3> QED
      BY <2>3, <3>1, <3>2
         DEF Abstract!Next, Abstract!Repeat, Got, Out
  <2>6. CASE Hold(s)
    <3>1. Stores(s) /\ parts' = With(s) /\ reply' = Null
      BY <2>6 DEF Hold
    <3>2. Held(parts') = Held(parts) \cup {i - 1}
      BY <2>2, <2>4, <3>1, StoringAddsOne
    <3>3. i \in missing
      BY <2>1, <2>2, <3>1 DEF Stores, Held
    <3>4. missing # {i}
      <4> SUFFICES ASSUME missing = {i}  PROVE FALSE
        OBVIOUS
      <4>1. \A j \in 1..Len(sending) : j - 1 \in Held(With(s))
        BY <3>1, <3>2
      <4>2. With(s)[0] # NoPart /\ With(s)[0].total = Len(sending)
        <5>1. 1 \in 1..Len(sending) /\ 1 - 1 = 0
          BY <2>2
        <5>2. 0 \in Held(With(s))
          BY <4>1, <5>1
        <5>3. \A j \in Held(With(s)) : With(s)[j] = Parse1(sending)[j+1]
          BY <2>1, <3>1, StoringOwn DEF FeedInv
        <5>4. With(s)[0] = Parse1(sending)[1]
          <6>1. 0 + 1 = 1
            OBVIOUS
          <6> QED
            BY <5>2, <5>3, <6>1
        <5> QED
          BY <2>1, <5>1, <5>2, <5>4, OwnFragment DEF Held
      <4>3. \A j \in 0..Len(sending)-1 : With(s)[j] # NoPart
        <5>1. \A j \in 0..Len(sending)-1 :
                 j + 1 \in 1..Len(sending) /\ (j + 1) - 1 = j
          BY <2>2
        <5> QED
          BY <4>1, <5>1 DEF Held
      <4>4. Complete(With(s))
        BY <2>2, <4>2, <4>3 DEF Complete
      <4>5. With(s) \in PartsType /\ received + 1 = Cardinality(Held(With(s)))
        BY <2>2, <2>4, <3>1, StoringAddsOne
      <4> QED
        BY <2>6, <4>4, <4>5, ReadyIsComplete DEF Hold
    <3>5. Got' = Got \cup {i}
      <4>1. (i - 1) + 1 = i
        BY <2>1, <2>2
      <4> QED
        BY <3>2, <4>1 DEF Got
    <3>6. Out' = None /\ sending' = sending
      BY <2>1, <3>1 DEF Out, Null
    <3> QED
      BY <2>3, <3>3, <3>4, <3>5, <3>6
         DEF Abstract!Next, Abstract!Add, Abstract!Collect, Got, Out
  <2>7. CASE Deliver(s) /\ reply' = Json(Parse1(sending))
    <3>1. Stores(s) /\ Ready(With(s), received + 1) /\ parts' = NoParts
      BY <2>7 DEF Deliver
    <3>2. Held(With(s)) = 0..Len(sending)-1
      BY <2>1, <3>1, ReadyIsWhole DEF FeedInv
    <3>3. Held(With(s)) = Held(parts) \cup {i - 1} /\ i - 1 \notin Held(parts)
      BY <2>2, <2>4, <3>1, StoringAddsOne DEF Stores, Held
    <3>4. missing = {i}
      <4>1. \A j \in 1..Len(sending) : j - 1 \in 0..Len(sending)-1
        BY <2>2
      <4>2. \A j \in 1..Len(sending) : j # i => j - 1 # i - 1
        BY <2>1, <2>2
      <4> QED
        BY <2>1, <3>2, <3>3, <4>1, <4>2
    <3>5. Got' = {}
      BY <3>1, NoPartsIsEmpty DEF Got
    <3>6. Out' = sending
      BY <2>1, <2>7, ReplyNamesMessage DEF Out, Json
    <3>7. sending' \in Messages
      BY <2>1
    <3> QED
      BY <2>3, <3>4, <3>5, <3>6, <3>7
         DEF Abstract!Next, Abstract!Add, Abstract!Finish, Got, Out
  <2> QED
    BY <2>1, <2>5, <2>6, <2>7, OwnCall DEF FeedInv
<1>2. CASE UNCHANGED fvars
  BY <1>2 DEF fvars, vars, Abstract!avars, Held
<1> QED
  BY <1>1, <1>2 DEF NextFeed

\* The buffer implements the assembler, fairness aside.
THEOREM FeedImplementsAssembler ==
  SpecFeed => Abstract!Init /\ [][Abstract!Next]_(Abstract!avars)
<1>1. InitFeed => Abstract!Init
  BY NoPartsIsEmpty DEF InitFeed, Init, NoReply, Abstract!Init
<1> QED
  BY <1>1, FeedStarts, FeedSteps, FeedAssembles, PTL DEF SpecFeed
=============================================================================
