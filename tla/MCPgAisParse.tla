---------------------------- MODULE MCPgAisParse ----------------------------
(***************************************************************************)
(* Runs of PgAisParse: a feed with one sentence of each kind, and bounds   *)
(* on the counters and on the blocks, which the code never stops making.   *)
(***************************************************************************)
EXTENDS PgAisParse, MCFragmentBuffer

CONSTANTS MaxMessages, MaxBlocks

\* A pair, a single-part message, an unsupported one, one with a type and no
\* handler's fields, a type 5 cut after its call sign, and a refused sentence.
BackendFeed ==
  {First("2"), Second("2"), Position("7"), Nmea(1, 1, "7", Pay(40, 28)),
   Nmea(1, 1, "7", Pay(14, 20)), Nmea(1, 1, "7", Pay(5, 28)),
   Nmea(0, 1, "7", Pay(8, 12)), [Position("7") EXCEPT ![1] = Tag("!AIVDO")]}

BoundedNext == /\ NextBackend
               /\ metrics'.messages <= MaxMessages
               /\ made' <= MaxBlocks

BoundedSpec == InitBackend /\ [][BoundedNext]_state

=============================================================================
