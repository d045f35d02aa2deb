---------------------------- MODULE MCSerialFeed ----------------------------
(* Messages of one, two, three and five parts.                             *)
EXTENDS SerialFeed, MCFragmentBuffer

FeedMessages ==
  {<<First("2"), Second("2")>>, <<First("9"), Second("9")>>, <<Position("7")>>,
   <<Nmea(3, 1, "4", Pay(8, 5)), Nmea(3, 2, "4", Pay(0, 5)),
     Nmea(3, 3, "4", Pay(0, 1))>>,
   <<Nmea(5, 1, "3", Pay(8, 9)), Nmea(5, 2, "3", Pay(0, 9)),
     Nmea(5, 3, "3", Pay(0, 9)), Nmea(5, 4, "3", Pay(0, 9)),
     Nmea(5, 5, "3", Pay(0, 1))>>,
   <<Nmea(5, 1, "8", Pay(8, 1)), Nmea(5, 2, "8", Pay(0, 7)),
     Nmea(5, 3, "8", Pay(0, 2)), Nmea(5, 4, "8", Pay(0, 9)),
     Nmea(5, 5, "8", Pay(0, 1))>>}
FeedSentences == UNION {{m[i] : i \in DOMAIN m} : m \in FeedMessages}
=============================================================================
