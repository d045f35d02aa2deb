-------------------------- MODULE MCMessageDecoder --------------------------
(***************************************************************************)
(* parse_ais_payload on payloads of every type and length up to MaxLen,    *)
(* with no illegal character or one, and the lengths each type needs.      *)
(***************************************************************************)
EXTENDS MessageDecoder

MaxLen == 42  \* past the longest minimum, type 5's 39 characters

AllPayloads ==
  {q \in [type : 0..30, len : 1..MaxLen, bad : {{}, {0}, {6}, {15}, {27}}] :
     \A b \in q.bad : b < q.len}
=============================================================================
