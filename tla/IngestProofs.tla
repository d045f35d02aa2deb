---------------------------- MODULE IngestProofs ----------------------------
(***************************************************************************)
(* What a transaction commits is the message that was sent, for any number *)
(* of failures: FBInv and HeldIsOwn hold across rollbacks, lost answers    *)
(* and deaths of the backend, because a call that answers empties the      *)
(* buffer and every other call keeps it the message's own.                 *)
(***************************************************************************)
EXTENDS Ingest, SerialFeedProofs

IngestInv == FeedInv /\ RowIsOwn

\* A call on the message being sent keeps the buffer its own, and an answer to
\* it is the whole message.
LEMMA CallKeepsOwn ==
  ASSUME FeedInv, NEW i \in 1..Len(sending), Parse(sending[i]),
         sending' = sending
  PROVE  FeedInv' /\ (Answered # None => Answered = Parse1(sending) /\ Held(parts') = {})
<1>1. FBInv'
  BY OwnFragment, NextPreservesFBInv DEF FeedInv, Next
<1>2. HeldIsOwn'
  BY OwnCallKeepsHeld DEF FeedInv, HeldIsOwn, Held
<1>3. ASSUME Answered # None
      PROVE  Answered = Parse1(sending) /\ Held(parts') = {}
  BY <1>3, OwnCallKeepsHeld DEF FeedInv, Answered, Json
<1> QED
  BY <1>1, <1>2, <1>3 DEF FeedInv

\* The client starts in its invariant.
LEMMA IngestStarts == InitIngest => IngestInv
BY FeedStarts DEF InitIngest, IngestInv, RowIsOwn

\* Every step of the client, and every failure, keeps it.
LEMMA IngestSteps == IngestInv /\ [NextIngest]_ivars => IngestInv'
<1> SUFFICES ASSUME IngestInv, [NextIngest]_ivars  PROVE  IngestInv'
  OBVIOUS
<1> USE DEF IngestInv
<1>1. ASSUME NEW i \in 1..MaxParts, Call(i)  PROVE  IngestInv'
  BY <1>1, CallKeepsOwn DEF Call, RowIsOwn, Held
<1>2. ASSUME NEW i \in 1..MaxParts, Lose(i)  PROVE  IngestInv'
  BY <1>2, CallKeepsOwn DEF Lose, RowIsOwn
<1>3. CASE Rollback
  <2>1. FBInv'
    BY <1>3, NextPreservesFBInv DEF Rollback, fvars, FeedInv
  <2> QED
    BY <1>3, <2>1 DEF Rollback, fvars, vars, FeedInv, HeldIsOwn, RowIsOwn, Held
<1>4. CASE Die
  <2>1. FBInv'
    BY <1>4, NextPreservesFBInv DEF Die, Next, FeedInv
  <2>2. Held(parts') = {}
    BY <1>4, NoPartsIsEmpty DEF Die, EndSession
  <2> QED
    BY <1>4, <2>1, <2>2 DEF Die, FeedInv, HeldIsOwn, RowIsOwn, Held
<1>5. CASE Commit
  <2>1. FBInv'
    BY <1>5, NextPreservesFBInv DEF Commit, FeedInv
  <2>2. Held(parts') = {}
    BY <1>5 DEF Commit, RowIsOwn, vars, Held
  <2> QED
    BY <1>5, <2>1, <2>2 DEF Commit, FeedInv, HeldIsOwn, RowIsOwn, Held
<1>6. CASE UNCHANGED ivars
  <2>1. FBInv'
    BY <1>6, NextPreservesFBInv DEF ivars, fvars, FeedInv
  <2> QED
    BY <1>6, <2>1
       DEF ivars, fvars, vars, FeedInv, HeldIsOwn, RowIsOwn, Held
<1> QED
  BY <1>1, <1>2, <1>3, <1>4, <1>5, <1>6 DEF NextIngest

-----------------------------------------------------------------------------
\* The answer in a transaction is the whole message being sent, and nothing of
\* it is left behind, however many failures there were.
THEOREM RowStaysOwn == SpecIngest => []RowIsOwn
<1>1. IngestInv => RowIsOwn
  BY DEF IngestInv
<1> QED
  BY <1>1, IngestStarts, IngestSteps, PTL DEF SpecIngest

\* A commit stores the message being sent; no other step changes what is
\* stored or what is to be stored.
LEMMA IngestDelivers ==
  IngestInv /\ [NextIngest]_ivars => [Wanted!Store]_(Wanted!dvars)
<1> SUFFICES ASSUME IngestInv, [NextIngest]_ivars
             PROVE  [Wanted!Store]_(Wanted!dvars)
  OBVIOUS
<1>1. CASE Commit
  <2>1. stored' = Parse1(sending)
    BY <1>1 DEF Commit, IngestInv, RowIsOwn
  <2>2. Parse1(sending)' \in {Parse1(m) : m \in Messages}
    BY <1>1 DEF Commit, Parse1
  <2> QED
    BY <2>1, <2>2 DEF Wanted!Store
<1>2. ASSUME sending' = sending, stored' = stored
      PROVE  UNCHANGED Wanted!dvars
  BY <1>2 DEF Wanted!dvars, Parse1
<1> QED
  BY <1>1, <1>2 DEF NextIngest, Call, Lose, Rollback, Die, ivars, fvars

\* The client implements Delivery, liveness aside.
THEOREM IngestImplementsDelivery ==
  SpecIngest => Wanted!Init /\ [][Wanted!Store]_(Wanted!dvars)
<1>1. InitIngest => Wanted!Init
  BY DEF InitIngest, InitFeed, Wanted!Init
<1> QED
  BY <1>1, IngestStarts, IngestSteps, IngestDelivers, PTL DEF SpecIngest
=============================================================================
