-------------------------- MODULE MCFragmentBuffer --------------------------
(***************************************************************************)
(* Sentences for the runs of FragmentBuffer: each set below is a feed that *)
(* brings its cases about, given to Sentences by a .cfg.                   *)
(***************************************************************************)
EXTENDS FragmentBufferClaims

Pay(type, len) == [type |-> type, len |-> len, bad |-> {}]

\* A one-character field; atoi of it is n.
Short(text, n) == [text |-> text, num |-> n, pay |-> Pay(0, 1)]
Empty == [text |-> "", num |-> 0, pay |-> EmptyPayload]
Tag(text) == [text |-> text, num |-> 0, pay |-> Pay(0, Len(text))]
Data(p) == [text |-> "data", num |-> 0, pay |-> p]

\* "!AIVDM,<total>,<seq>,<id>,<channel>,<payload>,0*5C"
Nmea(total, seq, id, p) ==
  <<Tag("!AIVDM"), Short("n", total), Short("n", seq),
    IF id = "" THEN Empty ELSE Short(id, 0), Short("B", 0), Data(p),
    Short("0", 0), [text |-> "5C", num |-> 5, pay |-> Pay(5, 2)]>>

\* The two-part type 5 message of pg_ais_regression.sql under two ids.
First(id) == Nmea(2, 1, id, Pay(5, 28))
Second(id) == Nmea(2, 2, id, Pay(0, 11))
Position(id) == Nmea(1, 1, id, Pay(1, 28))

\* Two interleaved two-part messages and a five-part one, a single-part one,
\* an undecodable one, more parts than slots, no such slot, another talker, and
\* a first field that only starts with the tag.
MixedFeed ==
  {First("2"), Second("2"), First("9"), Second("9"), Position("7"),
   Nmea(1, 1, "6", Pay(14, 20)), Nmea(6, 1, "4", Pay(5, 28)),
   Nmea(6, 6, "4", Pay(0, 28)), Nmea(5, 0, "3", Pay(8, 28)),
   [Position("7") EXCEPT ![1] = Tag("!AIVDO")],
   [Position("7") EXCEPT ![1] = Tag("!AIVDM-")]}
    \cup {Nmea(5, q, "3", Pay(8, 28)) : q \in 1..5}

\* Totals and sequence numbers that no sentence should carry, and payloads
\* whose decode fails, or leaves lat and lon NaN.
OddFeed ==
  {Nmea(t, q, "2", Pay(8, 12)) : t \in {-1, 0, 3}, q \in {0, 1, 3, 4}}
    \cup {Nmea(1, 1, "7", Pay(40, 28)), Nmea(1, 1, "7", Pay(1, 27)),
          Nmea(1, 1, "7", [Pay(1, 28) EXCEPT !.bad = {15}]),
          Nmea(1, 1, "7", Pay(21, 7))}

\* Sentences at the limit of copy[512]: 494 characters of payload fit.
LongFeed ==
  {Nmea(t, q, "2", Pay(8, n)) : t \in {2, 3}, q \in 1..3, n \in {493, 494}}
    \cup {Nmea(2, q, "2", Pay(8, n)) : q \in 1..2, n \in {495, 600}}
    \cup {Nmea(1, 1, "", Pay(8, 494))}

\* All of it in one session.
WholeFeed == MixedFeed \cup OddFeed \cup LongFeed

\* The sentences of README and tests: no message id on single-part messages.
PlainFeed == {Position(""), Position("7"), First("2"), Second("2")}
=============================================================================
