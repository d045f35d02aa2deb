------------------------------- MODULE Ingest -------------------------------
(***************************************************************************)
(* A client that stores what pg_ais_parse answers, one message to a        *)
(* transaction, and starts over on the same session when something fails.  *)
(* frag_buffer is a static variable, so no transaction covers it: a        *)
(* rollback does not give back the parts that a delivery took out, and an  *)
(* evaluation whose answer nobody sees has stored its part all the same.   *)
(*                                                                         *)
(* Not covered: a sentence passed again once its message was answered (a   *)
(* late duplicate), a message given up halfway, and a next message that    *)
(* goes to a session other than the one that was left with parts.  Each    *)
(* leaves a part to the message that follows, as OneMessagePerReply says.  *)
(***************************************************************************)
EXTENDS SerialFeed

CONSTANT MaxFaults  \* failures between two commits

ASSUME FaultsAssumption == MaxFaults \in Nat

VARIABLES row,     \* the fragments of the answer in the open transaction
          stored,  \* those of the answer that was committed last
          faults   \* failures since then
ivars == <<fvars, row, stored, faults>>

InitIngest == InitFeed /\ row = None /\ stored = None /\ faults = 0

\* What the last call gave the transaction.
Answered == IF reply'.kind = "json" THEN reply'.from ELSE None

Failing == faults < MaxFaults /\ faults' = faults + 1

\* The client passes a sentence; it goes on until one is answered.
Call(i) == /\ row = None
           /\ i \in 1..Len(sending)
           /\ Parse(sending[i])
           /\ row' = Answered
           /\ UNCHANGED <<sending, stored, faults>>

\* The call is evaluated and its answer is thrown away: pg_ais_parse is
\* declared IMMUTABLE, so that a call on a literal is evaluated when a
\* statement is planned or explained, and planned again; or the statement is
\* cancelled.
Lose(i) == /\ row = None
           /\ i \in 1..Len(sending)
           /\ Failing
           /\ Parse(sending[i])
           /\ UNCHANGED <<sending, row, stored>>

\* The transaction is rolled back, and frag_buffer is not.
Rollback == /\ row # None
            /\ Failing
            /\ row' = None
            /\ UNCHANGED <<fvars, stored>>

\* The backend dies; the client opens a new session.
Die == /\ Failing
       /\ EndSession
       /\ row' = None
       /\ UNCHANGED <<sending, stored>>

Commit == /\ row # None
          /\ stored' = row
          /\ row' = None
          /\ faults' = 0
          /\ sending' \in Messages
          /\ UNCHANGED vars

NextIngest == \/ \E i \in 1..MaxParts : Call(i) \/ Lose(i)
              \/ Rollback \/ Die \/ Commit

\* The client passes every sentence whose part the buffer lacks, until it has
\* an answer, and commits what it has.
CallMissing(i) == i \in 1..MaxParts /\ parts[i-1] = NoPart /\ Call(i)

FairIngest == /\ \A i \in 1..MaxParts : WF_ivars(CallMissing(i))
              /\ WF_ivars(Commit)

SpecIngest == InitIngest /\ [][NextIngest]_ivars /\ FairIngest

-----------------------------------------------------------------------------
(* What the client can rely on                                             *)

\* The answer in the open transaction was made from the message being sent,
\* all of it and nothing else, through rollbacks, deaths of the backend and
\* evaluations that nobody asked for; and nothing of it is left in the buffer.
RowIsOwn == row # None => row = Parse1(sending) /\ Held(parts) = {}

Wanted == INSTANCE Delivery WITH
  Messages <- {Parse1(m) : m \in Messages},
  current  <- Parse1(sending),
  stored   <- stored

\* Every message is stored in its turn, as it was sent.
ImplementsDelivery == Wanted!Spec
=============================================================================
