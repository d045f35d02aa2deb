------------------------------ MODULE AisType ------------------------------
(***************************************************************************)
(* The SQL type ais: ais_in wraps a sentence as a varlena datum, ais_out   *)
(* and pg_ais_parse unwrap it with ais_to_cstring.  Between the two the    *)
(* datum may have been stored in a table, where PostgreSQL (external)      *)
(* packs a short datum of a type with EXTENDED storage under a header of   *)
(* one byte instead of four.  PG_GETARG_POINTER hands it on as it is.      *)
(*                                                                         *)
(* A sentence is its length.  Headers are those of a little-endian build.  *)
(***************************************************************************)
EXTENDS Naturals

CONSTANTS Lengths,  \* of the sentences that are entered, tag included
          None      \* no value yet

VARIABLES datum,  \* the value of type ais
          output  \* what ais_out gave
avars == <<datum, output>>

VARHDRSZ == 4
ShortMax == 127  \* VARATT_SHORT_MAX, header included

\* The first bytes of every sentence: "!AI".
Start == 33 + 256 * (65 + 256 * 73)

\* A part of a datum as characters: those of the sentence from the skip-th on.
Text(skip, len) == [skip |-> skip, len |-> len]

\* The length in the first word of the datum, whatever header it has.  That of
\* a short header is an odd byte, and the text follows at once.
VARSIZE(d) ==
  IF d.header = VARHDRSZ THEN d.header + d.len
  ELSE ((2 * (d.header + d.len) + 1) + 256 * Start) \div 4

ais_from_cstring_external(n) == [header |-> VARHDRSZ, len |-> n]

\* VARDATA is four bytes into the datum.
ais_to_cstring(d) ==
  IF VARSIZE(d) <= VARHDRSZ THEN None
  ELSE Text(VARHDRSZ - d.header, VARSIZE(d) - VARHDRSZ)

-----------------------------------------------------------------------------
Init == datum = None /\ output = None

\* Text that does not start with '!' gives NULL and no datum.
ais_in == /\ datum = None
          /\ \E n \in Lengths : datum' = ais_from_cstring_external(n)
          /\ UNCHANGED output

\* heap_fill_tuple of PostgreSQL.
StoreInTable ==
  /\ datum # None
  /\ datum.header = VARHDRSZ
  /\ datum.len + 1 <= ShortMax
  /\ datum' = [datum EXCEPT !.header = 1]
  /\ UNCHANGED output

ais_out == /\ datum # None
           /\ output' = ais_to_cstring(datum)
           /\ UNCHANGED datum

Next == ais_in \/ StoreInTable \/ ais_out

Spec == Init /\ [][Next]_avars

-----------------------------------------------------------------------------
\* test_pg_ais.sql, "Check value and round-trip", of a sentence selected from
\* a table: a sentence comes out as it was entered.
RoundTrip == output # None => output = Text(0, datum.len)
=============================================================================
