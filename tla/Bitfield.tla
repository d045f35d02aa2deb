------------------------------ MODULE Bitfield ------------------------------
(***************************************************************************)
(* bitfield.c on payloads given character by character: what               *)
(* parse_uint_safe and its callers compute, and the abstraction of such a  *)
(* payload that the other modules work with.  A character is its ASCII     *)
(* code; ParseResult and the out parameter are one record.                 *)
(***************************************************************************)
EXTENDS MessageLayout

CONSTANTS Alphabet,  \* the characters a payload may have, as their codes
          MaxChars   \* bound on the characters of a payload

ASSUME AlphabetAssumption == Alphabet \subseteq Int

Failed == [ok |-> FALSE, value |-> 0]
Ok(v)  == [ok |-> TRUE, value |-> v]

IsLegal(c) == c \in 48..119

\* The value of a payload character in ITU-R M.1371 armouring, which bitfield.c
\* states in this helper and never calls.
sixbit_to_uint(c) ==
  IF ~IsLegal(c) THEN 0
  ELSE IF c - 48 > 40 THEN c - 48 - 8
  ELSE c - 48

\* 2^n, the value of bit n.
Two[n \in Nat] == IF n = 0 THEN 1 ELSE 2 * Two[n - 1]

\* A bug that takes the low bit of a character first.
MutBit(chars, i) == ((chars[i \div 6 + 1] - 48) \div Two[i % 6]) % 2

\* Bit i of the payload: ((c - 48) >> bit_offset) & 1.
Bit(chars, i) == ((chars[i \div 6 + 1] - 48) \div Two[5 - (i % 6)]) % 2

\* A bug that reads an illegal character as zero bits, as sixbit_to_uint does.
MutShift(chars, i, acc) ==
  IF ~acc.ok THEN acc
  ELSE IF ~IsLegal(chars[i \div 6 + 1]) THEN Ok(2 * acc.value)
  ELSE Ok(2 * acc.value + Bit(chars, i))

\* One turn of the loop of parse_uint_safe; a failure returns at once.
Shift(chars, i, acc) ==
  IF ~acc.ok THEN acc
  ELSE IF ~IsLegal(chars[i \div 6 + 1]) THEN Failed
  ELSE Ok(2 * acc.value + Bit(chars, i))

parse_uint_safe(chars, start, n) ==
  IF start < 0 \/ n <= 0 \/ n > 32 \/ start + n > 6 * Len(chars) THEN Failed
  ELSE LET acc[k \in 0..n] == IF k = 0 THEN Ok(0)
                              ELSE Shift(chars, start + k - 1, acc[k-1])
       IN  acc[n]

\* A set top bit is extended to the left (n < 32; for 32 the shift is
\* undefined, and no caller asks for it).
parse_int_safe(chars, start, n) ==
  LET r == parse_uint_safe(chars, start, n)
  IN  IF r.ok /\ r.value >= Two[n-1] THEN Ok(r.value - Two[n]) ELSE r

\* parse_bool_safe
parse_bool_safe(chars, start) ==
  LET r == parse_uint_safe(chars, start, 1)
  IN  IF r.ok THEN Ok(r.value # 0) ELSE Failed

\* A bug that steps by six bits from one byte to the next.
Mut_parse_bin_payload(chars, start, n) ==
  LET bytes == [i \in 1..(n \div 8) |->
                  parse_uint_safe(chars, start + 6 * (i - 1), 8)]
  IN  IF n <= 0 \/ start + n > 6 * Len(chars) \/ \E i \in DOMAIN bytes : ~bytes[i].ok
      THEN Failed
      ELSE Ok([i \in DOMAIN bytes |-> bytes[i].value])

\* parse_bin_payload: the blob as the sequence of its bytes.
parse_bin_payload(chars, start, n) ==
  LET bytes == [i \in 1..(n \div 8) |->
                  parse_uint_safe(chars, start + 8 * (i - 1), 8)]
  IN  IF n <= 0 \/ start + n > 6 * Len(chars) \/ \E i \in DOMAIN bytes : ~bytes[i].ok
      THEN Failed
      ELSE Ok([i \in DOMAIN bytes |-> bytes[i].value])

\* The codes of count characters from bit start on.
Codes(chars, start, count) ==
  [i \in 1..count |-> parse_uint_safe(chars, start + 6 * (i - 1), 6)]

\* A bug that drops every space and not only the trailing ones.
MutTrimmed(codes) == SelectSeq([i \in DOMAIN codes |-> codes[i].value],
                               LAMBDA v : v \notin {0, 32})

\* Codes as text, with code 0 turned into a space (code 32), up to the last
\* character that is no space.
Trimmed(codes) ==
  LET text == [i \in DOMAIN codes |->
                 IF codes[i].value = 0 THEN 32 ELSE codes[i].value]
      last == Max({0} \cup {i \in DOMAIN text : text[i] # 32})
  IN  SubSeq(text, 1, last)

\* parse_string_utf8: the text as the sequence of its six-bit codes.
parse_string_utf8(chars, start, n) ==
  LET codes == Codes(chars, start, n \div 6)
  IN  IF \/ start < 0 \/ n <= 0 \/ n % 6 # 0
         \/ start + n > 6 * Len(chars)
         \/ \E i \in DOMAIN codes : ~codes[i].ok
      THEN Failed
      ELSE Ok(Trimmed(codes))

\* A bug that forgets the bits past the last whole character.
Mut_parse_string_safe(chars, start, n) ==
  LET codes == Codes(chars, start, n \div 6)
  IN  IF \/ start < 0 \/ n <= 0 \/ start + n > 6 * Len(chars)
         \/ \E i \in DOMAIN codes : ~codes[i].ok
      THEN Failed
      ELSE Ok(Trimmed(codes))

\* parse_string_safe: the same on a width that need not be whole characters.
parse_string_safe(chars, start, n) ==
  LET codes == Codes(chars, start, (n + 5) \div 6)
  IN  IF \/ start < 0 \/ n <= 0 \/ start + n > 6 * Len(chars)
         \/ \E i \in DOMAIN codes : ~codes[i].ok
      THEN Failed
      ELSE Ok(Trimmed(codes))

-----------------------------------------------------------------------------
\* What Payload keeps of a payload.
Abstraction(chars) ==
  [type |-> parse_uint_safe(chars, 0, 6).value,
   len  |-> Len(chars),
   bad  |-> {i \in 0..Len(chars)-1 : ~IsLegal(chars[i+1])}]

-----------------------------------------------------------------------------
(* A payload, given character by character                                 *)

VARIABLE chars

Init == chars = <<>>
Next == /\ Len(chars) < MaxChars
        /\ \E c \in Alphabet : chars' = Append(chars, c)
Spec == Init /\ [][Next]_chars

Width == 6 * Len(chars)
Ranges == (-1..Width) \X (0..Width + 1)

\* The payload as one number, most significant character first, and the n bits
\* of it from bit start on.
Number == LET value[k \in 0..Len(chars)] ==
                IF k = 0 THEN 0 ELSE 64 * value[k-1] + sixbit_to_uint(chars[k])
          IN  value[Len(chars)]
Slice(start, n) == (Number \div Two[Width - start - n]) % Two[n]

\* The loops of bitfield.c and its callers succeed exactly where Payload and
\* MessageLayout say they do, for every range in and around the payload.
AbstractionIsExact ==
  \E p \in {Abstraction(chars)} :
    \A r \in Ranges :
       /\ parse_uint_safe(chars, r[1], r[2]).ok <=> ReadsUint(p, r[1], r[2])
       /\ r[1] >= 0 =>
            /\ parse_bin_payload(chars, r[1], r[2]).ok <=> ReadsBin(p, r[1], r[2])
            /\ parse_string_utf8(chars, r[1], r[2]).ok <=> ReadsText(p, r[1], r[2])

\* Up to 'W' the fields are the bits of the armoured payload: a field that
\* crosses characters takes the right bits of each, in order, and a signed one
\* is their two's complement.
SlicesOfTheNumber ==
  (\A i \in DOMAIN chars : chars[i] \in 48..87) =>
    \A r \in Ranges :
       LET u == parse_uint_safe(chars, r[1], r[2])
           s == parse_int_safe(chars, r[1], r[2])
           b == parse_bin_payload(chars, r[1], r[2])
           t == parse_bool_safe(chars, r[1])
       IN  /\ u.ok => u.value = Slice(r[1], r[2])
           /\ t.ok => (t.value <=> Slice(r[1], 1) = 1)
           /\ s.ok => /\ s.value \in -Two[r[2]-1] .. Two[r[2]-1] - 1
                      /\ (Slice(r[1], r[2]) - s.value) % Two[r[2]] = 0
           /\ b.ok => \A i \in DOMAIN b.value :
                        b.value[i] = Slice(r[1] + 8 * (i - 1), 8)

\* Trimming a text takes its trailing spaces, coded 0 or 32, and nothing else.
TextLosesOnlyTrailingSpaces ==
  \A r \in Ranges :
     LET t == parse_string_utf8(chars, r[1], r[2])
         Code(i) == parse_uint_safe(chars, r[1] + 6 * (i - 1), 6).value
     IN  t.ok => /\ \A i \in DOMAIN t.value :
                      t.value[i] = Code(i) \/ (t.value[i] = 32 /\ Code(i) = 0)
                 /\ \A i \in Len(t.value)+1 .. r[2] \div 6 : Code(i) \in {0, 32}
                 /\ t.value # <<>> => t.value[Len(t.value)] # 32

\* The two readers of texts agree: the one that takes any width reads on to the
\* end of its last character, or fails where that lies past the payload.
TextReadersAgree ==
  \A r \in Ranges : r[1] + r[2] <= Width =>
     LET any   == parse_string_safe(chars, r[1], r[2])
         whole == parse_string_utf8(chars, r[1], 6 * ((r[2] + 5) \div 6))
     IN  (any.ok <=> whole.ok) /\ (any.ok => any.value = whole.value)

\* bitfield.c: a payload character decodes "into a 6-bit unsigned integer
\* according to the ITU-R M.1371 spec", "chars 48-119".
CharactersAreArmoured ==
  \A i \in DOMAIN chars :
     IsLegal(chars[i]) =>
       parse_uint_safe(chars, 6 * (i - 1), 6) = Ok(sixbit_to_uint(chars[i]))
=============================================================================
