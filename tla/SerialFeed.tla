----------------------------- MODULE SerialFeed -----------------------------
(***************************************************************************)
(* pg_ais_parse under the feed it can serve: one session, one message at a *)
(* time, its sentences in any order and any number of times until it is    *)
(* delivered, every message well formed.  Under it the code implements     *)
(* Assembler.                                                              *)
(***************************************************************************)
EXTENDS FragmentBuffer

CONSTANTS Messages,  \* sequences of sentences, one sentence per part
          None

Parse1(m) == [i \in DOMAIN m |-> Fragment[m[i]]]

\* A message this buffer can deliver.
WellFormed(m) ==
  /\ m \in Seq(Sentences)
  /\ Len(m) \in 1..MaxParts
  /\ \A i \in 1..Len(m) : /\ Accepts(m[i])
                          /\ Parse1(m)[i].seq = i
                          /\ Parse1(m)[i].total = Len(m)
  /\ Decode(Joined(Parse1(m))) = "PARSE_OK"
  /\ NaNFields(Joined(Parse1(m))) = {}

ASSUME MessagesAssumption == \A m \in Messages : WellFormed(m)
\* The feed tells messages apart by what is parsed of them.
ASSUME DistinctAssumption ==
  \A m, n \in Messages : Parse1(m) = Parse1(n) => m = n
ASSUME CleanStackAssumption == CleanStack

VARIABLE sending  \* the message whose sentences the feed passes
fvars == <<vars, sending>>

InitFeed == Init /\ sending \in Messages

\* One call on sentence i; the feed turns to another message once it has seen
\* this one's reply.
Feed(i) == /\ i \in 1..Len(sending)
           /\ Parse(sending[i])
           /\ sending' \in IF reply'.kind = "null" THEN {sending} ELSE Messages

\* A sentence whose part is not in the buffer.
FeedMissing(i) == i \in 1..MaxParts /\ parts[i-1] = NoPart /\ Feed(i)

NextFeed == \E i \in 1..MaxParts : Feed(i)

\* The receiver hears every part of a message sooner or later: the feed passes
\* each sentence that is still missing.
FairFeed == \A i \in 1..MaxParts : WF_fvars(FeedMissing(i))

SpecFeed == InitFeed /\ [][NextFeed]_fvars /\ FairFeed

\* What waits in the buffer belongs to the message being sent: a delivery
\* leaves no part behind that the next message could be joined with.
HeldIsOwn == \A i \in Held(parts) : /\ i < Len(sending)
                                    /\ parts[i] = Parse1(sending)[i+1]

-----------------------------------------------------------------------------
(* Refinement                                                              *)

\* The message a reply was made from.
MessageOf(run) == CHOOSE m \in Messages : Parse1(m) = run

Abstract == INSTANCE Assembler WITH
  PartsOf <- [m \in Messages |-> Len(m)],
  current <- sending,
  got     <- {i + 1 : i \in Held(parts)},
  out     <- IF reply.kind = "json" THEN MessageOf(reply.from) ELSE None

\* The buffer implements the assembler, its fairness included.
ImplementsAssembler == Abstract!Spec

\* Every message sent is delivered, from its own parts.
EveryMessageDelivered ==
  \A m \in Messages :
     sending = m ~> reply.kind = "json" /\ reply.from = Parse1(m)
=============================================================================
