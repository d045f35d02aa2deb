------------------------------ MODULE MCAisType ------------------------------
(***************************************************************************)
(* Sentences of the length test_pg_ais.sql inserts, and at the limit of    *)
(* the short header.                                                       *)
(***************************************************************************)
EXTENDS AisType

TestLengths == {46, 126, 127}
=============================================================================
