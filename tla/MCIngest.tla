------------------------------ MODULE MCIngest ------------------------------
(***************************************************************************)
(* Two messages of two parts, one of one part and one of three, with up to *)
(* MaxFaults failures for each.                                            *)
(***************************************************************************)
EXTENDS Ingest, MCSerialFeed

IngestMessages == {m \in FeedMessages : Len(m) <= 3}
IngestSentences == UNION {{m[i] : i \in DOMAIN m} : m \in IngestMessages}
=============================================================================
