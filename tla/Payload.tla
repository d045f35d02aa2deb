------------------------------ MODULE Payload ------------------------------
(***************************************************************************)
(* AIS payloads: strings of 6-bit ASCII characters.  The decoder reads the *)
(* message type from the first six bits and after that only asks whether a *)
(* bit range lies within the string and whether the characters under it    *)
(* are legal, so a payload is abstracted to                                *)
(*   type : the value of its first six bits,                               *)
(*   len  : its length in characters,                                      *)
(*   bad  : the positions (from 0) of characters outside '0'..'w'.         *)
(***************************************************************************)
EXTENDS Integers, FiniteSetsExt

IsPayload(p) == /\ p \in [type : 0..63, len : Nat, bad : SUBSET Nat]
                /\ \A b \in p.bad : b < p.len

\* The empty string (its type is never read).
EmptyPayload == [type |-> 0, len |-> 0, bad |-> {}]

\* strlen(payload) * 6
Bits(p) == 6 * p.len

\* Characters the bit loop of parse_uint_safe visits: start/6 .. (start+n-1)/6.
CharsUnder(start, n) == start \div 6 .. (start + n - 1) \div 6

\* No character under the bits start .. start+n-1 is illegal.
Legal(p, start, n) == CharsUnder(start, n) \cap p.bad = {}

\* A bug that checks where a field starts and not where it ends.
MutReadsUint(p, start, n) ==
  n \in 1..32 /\ start >= 0 /\ start < Bits(p) /\ Legal(p, start, n)

\* parse_uint_safe and parse_int_safe succeed.
ReadsUint(p, start, n) ==
  n \in 1..32 /\ start >= 0 /\ start + n <= Bits(p) /\ Legal(p, start, n)

\* The first n characters of p; all of p when it is shorter, none when n <= 0.
Prefix(p, n) ==
  IF n <= 0 THEN EmptyPayload
            ELSE [type |-> p.type,
                  len  |-> Min({p.len, n}),
                  bad  |-> {b \in p.bad : b < n}]
=============================================================================
