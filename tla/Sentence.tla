------------------------------ MODULE Sentence ------------------------------
(***************************************************************************)
(* NMEA 0183 sentences and parse_ais_fragment (parse_ais.c).  A sentence   *)
(* is the sequence of its fields, the runs of characters between the       *)
(* separators ',' and '*'; a field may be empty.  Of a field the parser    *)
(* uses                                                                    *)
(*   text : its characters, as one value,                                  *)
(*   num  : what atoi makes of it,                                         *)
(*   pay  : the field read as a payload; pay.len is its length.            *)
(***************************************************************************)
EXTENDS Payload, Sequences

CONSTANTS SentenceCap,  \* characters kept by copy[512]: 511
          Malformed     \* parse_ais_fragment returned PARSE_ERROR

\* What atoi makes of a field is an int, and a field is a payload or could be
\* one.
IsSentence(s) ==
  /\ Len(s) \in Nat
  /\ DOMAIN s = 1..Len(s)
  /\ \A k \in DOMAIN s : /\ DOMAIN s[k] = {"text", "num", "pay"}
                         /\ s[k].num \in Int
                         /\ IsPayload(s[k].pay)

\* Where each field starts in the sentence: behind the fields before it, each
\* with the separator that follows it.
Starts(s) == LET at[k \in DOMAIN s] == IF k = 1 THEN 0
                                       ELSE at[k-1] + s[k-1].pay.len + 1
             IN  at

\* strncpy into copy[512].  Where the cut falls matters only for pay: a cut in
\* one of the first six tokens leaves fewer than seven, and a cut in the
\* seventh changes nothing but fill_bits, which no one reads.
Copied(s) ==
  [k \in DOMAIN s |->
     [s[k] EXCEPT !.pay = Prefix(@, SentenceCap - Starts(s)[k])]]

\* strtok(copy, ",*") up to the end: a run of separators counts as one, so an
\* empty field yields no token, and tokens[10] keeps at most ten.
Tokens(s) ==
  LET kept[k \in 0..Len(s)] ==
        IF k = 0 THEN <<>>
        ELSE IF Copied(s)[k].pay.len > 0 /\ Len(kept[k-1]) < 10
             THEN Append(kept[k-1], Copied(s)[k])
             ELSE kept[k-1]
  IN  kept[Len(s)]

\* strncmp(sentence, "!AIVDM", 6) = 0: the sentence starts with the tag, which
\* holds no separator.
HasTag(s) == /\ s # <<>>
             /\ Len(s[1].text) >= 6
             /\ SubSeq(s[1].text, 1, 6) = "!AIVDM"

\* A bug: six tokens are enough.
Mut_parse_ais_fragment(s) ==
  LET t == Tokens(s)
  IN  IF ~HasTag(s) \/ Len(t) < 6
      THEN Malformed
      ELSE [total      |-> t[2].num,
            seq        |-> t[3].num,
            message_id |-> IF t[4].pay.len < 9 THEN t[4].text ELSE "",
            payload    |-> t[6].pay]

\* The fields of AISFragment that the code reads again: channel, fill_bits and
\* raw are stored and never used.
parse_ais_fragment(s) ==
  LET t == Tokens(s)
  IN  IF ~HasTag(s) \/ Len(t) < 7
      THEN Malformed
      ELSE [total      |-> t[2].num,
            seq        |-> t[3].num,
            message_id |-> IF t[4].pay.len < 9 THEN t[4].text ELSE "",
            payload    |-> t[6].pay]
=============================================================================
