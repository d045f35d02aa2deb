--------------------------- MODULE BitfieldProofs ---------------------------
(***************************************************************************)
(* What the loops of bitfield.c do on payloads of every length over every  *)
(* alphabet.  The loop of parse_uint_safe is a recursive function; what it *)
(* does is proved by induction on the bits it has read.                    *)
(***************************************************************************)
EXTENDS Bitfield, MessageLayoutProofs, SequenceTheorems

\* The recursion of the loop of parse_uint_safe.
Loop(f, cs, start, n) ==
  f = [k \in 0..n |-> IF k = 0 THEN Ok(0)
                      ELSE Shift(cs, start + k - 1, f[k-1])]

\* The recursion has a solution: the one for n bits extends to n + 1.
LEMMA LoopExists ==
  ASSUME NEW cs, NEW start, NEW n \in Nat
  PROVE  \E f : Loop(f, cs, start, n)
PROOF
  <1> DEFINE Solved == {m \in Nat : \E f : Loop(f, cs, start, m)}
  <1>1. 0 \in Solved
    <2>1. Loop([k \in 0..0 |-> Ok(0)], cs, start, 0)
      BY DEF Loop
    <2> QED
      BY <2>1
  <1>2. ASSUME NEW m \in Solved
        PROVE  m + 1 \in Solved
    <2>1. PICK f : Loop(f, cs, start, m)
      OBVIOUS
    <2> DEFINE g == [k \in 0..m+1 |-> IF k <= m THEN f[k]
                                      ELSE Shift(cs, start + m, f[m])]
    <2>2. \A k \in 0..m+1 :
            g[k] = IF k = 0 THEN Ok(0) ELSE Shift(cs, start + k - 1, g[k-1])
      <3> TAKE k \in 0..m+1
      <3>1. CASE k = 0
        BY <3>1, <2>1 DEF Loop
      <3>2. CASE k \in 1..m
        BY <3>2, <2>1 DEF Loop
      <3>3. CASE k = m + 1
        <4>1. start + k - 1 = start + m
          BY <3>3
        <4> QED
          BY <3>3, <4>1
      <3> QED
        BY <3>1, <3>2, <3>3
    <2>3. Loop(g, cs, start, m + 1)
      BY <2>2 DEF Loop
    <2>4. m + 1 \in Nat
      OBVIOUS
    <2> HIDE DEF g
    <2> QED
      BY <2>3, <2>4
  <1> HIDE DEF Solved
  <1>3. n \in Solved
    BY <1>1, <1>2, SetInduction
  <1> QED
    BY <1>3 DEF Solved

\* Where the range lies in the payload, parse_uint_safe answers what its loop
\* has after n bits.
LEMMA UintLoop ==
  ASSUME NEW cs, NEW start \in Nat, NEW n \in 1..32, start + n <= 6 * Len(cs),
         Len(cs) \in Nat
  PROVE  \E acc : /\ Loop(acc, cs, start, n)
                  /\ parse_uint_safe(cs, start, n) = acc[n]
PROOF
  <1> DEFINE acc == CHOOSE f : Loop(f, cs, start, n)
  <1> n \in Nat
    OBVIOUS
  <1>1. Loop(acc, cs, start, n)
    BY LoopExists, Zenon
  <1>2. ~(start < 0 \/ n <= 0 \/ n > 32 \/ start + n > 6 * Len(cs))
    OBVIOUS
  <1>3. parse_uint_safe(cs, start, n) = acc[n]
    BY <1>2 DEF parse_uint_safe, Loop
  <1> HIDE DEF acc
  <1> QED
    BY <1>1, <1>3

\* The n bits from start on lie in legal characters.
BitsLegal(cs, start, n) == \A i \in start..start+n-1 : IsLegal(cs[i \div 6 + 1])

\* parse_uint_safe succeeds where the range lies in the payload and its
\* characters are legal.
LEMMA UintReads ==
  ASSUME NEW cs, Len(cs) \in Nat, NEW start \in Int, NEW n \in Int
  PROVE  /\ parse_uint_safe(cs, start, n).ok \in BOOLEAN
         /\ parse_uint_safe(cs, start, n).ok
              <=> /\ n \in 1..32 /\ start >= 0 /\ start + n <= 6 * Len(cs)
                  /\ BitsLegal(cs, start, n)
PROOF
  <1>1. CASE start < 0 \/ n <= 0 \/ n > 32 \/ start + n > 6 * Len(cs)
    <2>1. parse_uint_safe(cs, start, n) = Failed
      BY <1>1, Zenon DEF parse_uint_safe
    <2>2. Failed.ok = FALSE
      BY DEF Failed
    <2>3. ~(n \in 1..32 /\ start >= 0 /\ start + n <= 6 * Len(cs))
      BY <1>1
    <2> QED
      BY <2>1, <2>2, <2>3, Zenon
  <1>2. CASE ~(start < 0 \/ n <= 0 \/ n > 32 \/ start + n > 6 * Len(cs))
    <2> n \in Nat /\ start \in Nat
      BY <1>2
    <2> n \in 1..32 /\ start + n <= 6 * Len(cs)
      BY <1>2
    <2>1. PICK acc : /\ Loop(acc, cs, start, n)
                     /\ parse_uint_safe(cs, start, n) = acc[n]
      BY UintLoop, Zenon
    <2>2. parse_uint_safe(cs, start, n) = acc[n]
      BY <2>1
    <2> DEFINE Right(k) == /\ acc[k].ok \in BOOLEAN
                           /\ acc[k].ok <=> BitsLegal(cs, start, k)
               S == {k \in Nat : k <= n => Right(k)}
    <2>3. 0 \in S
      <3>1. acc[0] = Ok(0) /\ Ok(0).ok = TRUE
        BY <2>1 DEF Ok, Loop
      <3>2. BitsLegal(cs, start, 0)
        BY DEF BitsLegal
      <3> QED
        BY <3>1, <3>2
    <2>4. ASSUME NEW k \in Nat, k \in S
          PROVE  k + 1 \in S
      <3> SUFFICES ASSUME k + 1 <= n PROVE Right(k + 1)
        OBVIOUS
      <3>1. acc[k+1] = Shift(cs, start + k, acc[k])
        BY <2>1 DEF Loop
      <3>2. Right(k)
        BY <2>4
      <3>3. BitsLegal(cs, start, k + 1)
              <=> BitsLegal(cs, start, k)
                  /\ IsLegal(cs[(start + k) \div 6 + 1])
        <4>1. \A i : i \in start..start+(k+1)-1
                       <=> i \in start..start+k-1 \/ i = start + k
          OBVIOUS
        <4> QED
          BY <4>1, Zenon DEF BitsLegal
      <3>4. \A v : Ok(v).ok = TRUE /\ Failed.ok = FALSE
        BY DEF Ok, Failed
      <3>5. acc[k+1].ok <=> acc[k].ok /\ IsLegal(cs[(start + k) \div 6 + 1])
        BY <3>1, <3>2, <3>4, Zenon DEF Shift
      <3>6. acc[k+1].ok \in BOOLEAN
        BY <3>1, <3>2, <3>4, Zenon DEF Shift
      <3> QED
        BY <3>2, <3>3, <3>5, <3>6
    <2> HIDE DEF S
    <2>5. n \in S
      BY <2>3, <2>4, SetInduction
    <2>6. Right(n)
      BY <2>5 DEF S
    <2> QED
      BY <1>2, <2>2, <2>6
  <1> QED
    BY <1>1, <1>2

\* The abstraction of a payload keeps its length and where it is illegal.
LEMMA AbstractionKeeps ==
  ASSUME NEW cs
  PROVE  /\ Bits(Abstraction(cs)) = 6 * Len(cs)
         /\ Abstraction(cs).bad = {i \in 0..Len(cs)-1 : ~IsLegal(cs[i+1])}
PROOF
  BY DEF Bits, Abstraction

\* In a range that lies in the payload, the characters under its bits are legal
\* where the abstraction has no illegal one under it.
LEMMA LegalExact ==
  ASSUME NEW cs, Len(cs) \in Nat, NEW start \in Nat, NEW n \in Nat \ {0},
         start + n <= 6 * Len(cs)
  PROVE  Legal(Abstraction(cs), start, n) <=> BitsLegal(cs, start, n)
PROOF
  <1> DEFINE bad == Abstraction(cs).bad
  <1>1. \A i : i \in bad <=> i \in 0..Len(cs)-1 /\ ~IsLegal(cs[i+1])
    BY AbstractionKeeps
  <1>2. \A i \in start..start+n-1 : i \div 6 \in CharsUnder(start, n)
    BY DEF CharsUnder
  <1>3. \A q \in CharsUnder(start, n) :
          \E i \in start..start+n-1 : i \div 6 = q
    <2> TAKE q \in CharsUnder(start, n)
    <2>1. q \in Int /\ q >= start \div 6 /\ q <= (start + n - 1) \div 6
      BY DEF CharsUnder
    <2>2. CASE q = start \div 6
      BY <2>2
    <2>3. CASE q > start \div 6
      <3>1. 6 * q \in start..start+n-1 /\ (6 * q) \div 6 = q
        BY <2>1, <2>3
      <3> QED
        BY <3>1
    <2> QED
      BY <2>1, <2>2, <2>3
  <1>4. \A q \in CharsUnder(start, n) : q \in 0..Len(cs)-1
    BY DEF CharsUnder
  <1>5. Legal(Abstraction(cs), start, n)
          <=> \A q \in CharsUnder(start, n) : IsLegal(cs[q+1])
    <2>1. Legal(Abstraction(cs), start, n)
            <=> \A q \in CharsUnder(start, n) : q \notin bad
      BY DEF Legal
    <2> HIDE DEF bad
    <2> QED
      BY <2>1, <1>1, <1>4
  <1> QED
    BY <1>2, <1>3, <1>5 DEF BitsLegal

\* parse_uint_safe succeeds exactly where Payload says it does.
LEMMA UintExact ==
  ASSUME NEW cs, Len(cs) \in Nat, NEW start \in Int, NEW n \in Int
  PROVE  parse_uint_safe(cs, start, n).ok
           <=> ReadsUint(Abstraction(cs), start, n)
PROOF
  <1>1. CASE n \in 1..32 /\ start >= 0 /\ start + n <= 6 * Len(cs)
    <2>1. start \in Nat /\ n \in Nat \ {0}
      BY <1>1
    <2> QED
      BY <1>1, <2>1, UintReads, LegalExact, AbstractionKeeps DEF ReadsUint
  <1>2. CASE ~(n \in 1..32 /\ start >= 0 /\ start + n <= 6 * Len(cs))
    BY <1>2, UintReads, AbstractionKeeps DEF ReadsUint
  <1> QED
    BY <1>1, <1>2

\* parse_bin_payload succeeds exactly where MessageLayout says it does.
LEMMA BinExact ==
  ASSUME NEW cs, Len(cs) \in Nat, NEW start \in Nat, NEW n \in Int
  PROVE  parse_bin_payload(cs, start, n).ok
           <=> ReadsBin(Abstraction(cs), start, n)
PROOF
  <1> DEFINE byte(i) == parse_uint_safe(cs, start + 8 * (i - 1), 8)
             bytes == [i \in 1..(n \div 8) |-> byte(i)]
  <1>1. parse_bin_payload(cs, start, n).ok
          <=> n > 0 /\ start + n <= 6 * Len(cs)
              /\ \A i \in 1..(n \div 8) : byte(i).ok
    <2>1. DOMAIN bytes = 1..(n \div 8)
          /\ \A i \in 1..(n \div 8) : bytes[i] = byte(i)
      OBVIOUS
    <2>2. \A v : Ok(v).ok = TRUE /\ Failed.ok = FALSE
      BY DEF Ok, Failed
    <2>3. parse_bin_payload(cs, start, n)
            = IF n <= 0 \/ start + n > 6 * Len(cs)
                 \/ \E i \in DOMAIN bytes : ~bytes[i].ok
              THEN Failed
              ELSE Ok([i \in DOMAIN bytes |-> bytes[i].value])
      BY DEF parse_bin_payload
    <2> HIDE DEF bytes, byte
    <2>4. parse_bin_payload(cs, start, n).ok
            <=> ~(n <= 0 \/ start + n > 6 * Len(cs)
                 \/ \E i \in DOMAIN bytes : ~bytes[i].ok)
      BY <2>2, <2>3, Zenon
    <2> QED
      BY <2>1, <2>4
  <1>2. \A i \in 1..(n \div 8) :
          byte(i).ok <=> ReadsUint(Abstraction(cs), start + 8 * (i - 1), 8)
    BY UintExact
  <1>3. (\A i \in 1..(n \div 8) : byte(i).ok)
          <=> \A k \in 0..(n \div 8) - 1 :
                ReadsUint(Abstraction(cs), start + 8 * k, 8)
    <2> HIDE DEF byte
    <2>1. \A k \in 0..(n \div 8) - 1 :
            k + 1 \in 1..(n \div 8) /\ start + 8 * ((k + 1) - 1) = start + 8 * k
      OBVIOUS
    <2>2. \A i \in 1..(n \div 8) : i - 1 \in 0..(n \div 8) - 1
      OBVIOUS
    <2> QED
      BY <1>2, <2>1, <2>2
  <1> HIDE DEF byte
  <1> QED
    BY <1>1, <1>3, AbstractionKeeps DEF ReadsBin

-----------------------------------------------------------------------------
(* Texts                                                                   *)

\* A bounded set of natural numbers that is not empty has its maximum.
LEMMA MaxBounds ==
  ASSUME NEW m \in Nat, NEW S \in SUBSET (0..m), S # {}
  PROVE  Max(S) \in S /\ \A x \in S : x <= Max(S)
PROOF
  <1> DEFINE Gaps == {m - x : x \in S}
  <1>1. PICK g \in Gaps : \A h \in Gaps : g <= h
    <2>1. \A x \in S : m - x \in Nat
      OBVIOUS
    <2>2. Gaps \subseteq Nat
      BY <2>1
    <2>3. Gaps # {}
      OBVIOUS
    <2> HIDE DEF Gaps
    <2> QED
      BY <2>2, <2>3, LeastNatural
  <1>2. PICK x \in S : g = m - x
    OBVIOUS
  <1>3. \A y \in S : x >= y
    BY <1>1, <1>2
  <1>4. \E z \in S : \A y \in S : z >= y
    BY <1>3
  <1>5. Max(S) \in S /\ \A y \in S : Max(S) >= y
    BY <1>4, Zenon DEF Max
  <1> QED
    BY <1>5

\* A run of whole characters is legal where each of them is.
LEMMA BitsOfCharacters ==
  ASSUME NEW cs, NEW start \in Nat, NEW count \in Nat
  PROVE  BitsLegal(cs, start, 6 * count)
           <=> \A i \in 1..count : BitsLegal(cs, start + 6 * (i - 1), 6)
PROOF
  <1>1. ASSUME NEW i \in 1..count,
               NEW b \in start + 6 * (i - 1) .. start + 6 * (i - 1) + 6 - 1
        PROVE  b \in start .. start + 6 * count - 1
    OBVIOUS
  <1>2. ASSUME NEW b \in start .. start + 6 * count - 1
        PROVE  \E i \in 1..count :
                 b \in start + 6 * (i - 1) .. start + 6 * (i - 1) + 6 - 1
    <2> DEFINE i == (b - start) \div 6 + 1
    <2>1. i \in 1..count
          /\ b \in start + 6 * (i - 1) .. start + 6 * (i - 1) + 6 - 1
      OBVIOUS
    <2> QED
      BY <2>1
  <1> QED
    BY <1>1, <1>2 DEF BitsLegal

\* Every code of a text is read where the text lies in the payload and its
\* characters are legal.
LEMMA CodesRead ==
  ASSUME NEW cs, Len(cs) \in Nat, NEW start \in Nat, NEW count \in Nat \ {0}
  PROVE  (\A i \in DOMAIN Codes(cs, start, count) : Codes(cs, start, count)[i].ok)
           <=> /\ start + 6 * count <= 6 * Len(cs)
               /\ BitsLegal(cs, start, 6 * count)
PROOF
  <1>1. DOMAIN Codes(cs, start, count) = 1..count
        /\ \A i \in 1..count : Codes(cs, start, count)[i]
                                 = parse_uint_safe(cs, start + 6 * (i - 1), 6)
    BY DEF Codes
  <1>2. \A i \in 1..count :
          Codes(cs, start, count)[i].ok
            <=> /\ start + 6 * (i - 1) + 6 <= 6 * Len(cs)
                /\ BitsLegal(cs, start + 6 * (i - 1), 6)
    BY <1>1, UintReads
  <1>3. (\A i \in 1..count : start + 6 * (i - 1) + 6 <= 6 * Len(cs))
          <=> start + 6 * count <= 6 * Len(cs)
    <2>1. count \in 1..count
      OBVIOUS
    <2> QED
      BY <2>1
  <1> QED
    BY <1>1, <1>2, <1>3, BitsOfCharacters

\* What parse_string_utf8 answers, in terms of the codes it reads.
LEMMA StringUtf8Is ==
  ASSUME NEW cs, NEW start, NEW n
  PROVE  parse_string_utf8(cs, start, n)
           = IF \/ start < 0 \/ n <= 0 \/ n % 6 # 0
                \/ start + n > 6 * Len(cs)
                \/ ~\A i \in DOMAIN Codes(cs, start, n \div 6) :
                      Codes(cs, start, n \div 6)[i].ok
             THEN Failed
             ELSE Ok(Trimmed(Codes(cs, start, n \div 6)))
PROOF
  BY Zenon DEF parse_string_utf8

\* The same of parse_string_safe.
LEMMA StringSafeIs ==
  ASSUME NEW cs, NEW start, NEW n
  PROVE  parse_string_safe(cs, start, n)
           = IF \/ start < 0 \/ n <= 0
                \/ start + n > 6 * Len(cs)
                \/ ~\A i \in DOMAIN Codes(cs, start, (n + 5) \div 6) :
                      Codes(cs, start, (n + 5) \div 6)[i].ok
             THEN Failed
             ELSE Ok(Trimmed(Codes(cs, start, (n + 5) \div 6)))
PROOF
  BY Zenon DEF parse_string_safe

\* What the cases of both answer.
LEMMA Outcomes ==
  /\ Failed.ok = FALSE
  /\ \A v : Ok(v).ok = TRUE /\ Ok(v).value = v
PROOF
  BY DEF Failed, Ok

\* parse_string_utf8 succeeds exactly where MessageLayout says it does.
LEMMA TextExact ==
  ASSUME NEW cs, Len(cs) \in Nat, NEW start \in Nat, NEW n \in Int
  PROVE  parse_string_utf8(cs, start, n).ok
           <=> ReadsText(Abstraction(cs), start, n)
PROOF
  <1> DEFINE AllRead == \A i \in DOMAIN Codes(cs, start, n \div 6) :
                        Codes(cs, start, n \div 6)[i].ok
  <1>1. parse_string_utf8(cs, start, n).ok
          <=> ~(start < 0 \/ n <= 0 \/ n % 6 # 0
                \/ start + n > 6 * Len(cs) \/ ~AllRead)
    BY StringUtf8Is, Outcomes, Zenon
  <1>2. CASE n > 0 /\ n % 6 = 0 /\ start + n <= 6 * Len(cs)
    <2>1. n \div 6 \in Nat \ {0} /\ 6 * (n \div 6) = n /\ n \in Nat \ {0}
      BY <1>2
    <2>2. AllRead <=> BitsLegal(cs, start, n)
      BY <1>2, <2>1, CodesRead
    <2>3. Legal(Abstraction(cs), start, n) <=> BitsLegal(cs, start, n)
      BY <1>2, <2>1, LegalExact
    <2> HIDE DEF AllRead
    <2> QED
      BY <1>1, <1>2, <2>2, <2>3, AbstractionKeeps DEF ReadsText
  <1>3. CASE ~(n > 0 /\ n % 6 = 0 /\ start + n <= 6 * Len(cs))
    <2> HIDE DEF AllRead
    <2> QED
      BY <1>1, <1>3, AbstractionKeeps DEF ReadsText
  <1> QED
    BY <1>2, <1>3

\* Trimming keeps the text up to its last character that is no space.
LEMMA TrimmedKeeps ==
  ASSUME NEW count \in Nat, NEW codes, DOMAIN codes = 1..count
  PROVE  /\ Len(Trimmed(codes)) \in 0..count
         /\ DOMAIN Trimmed(codes) = 1..Len(Trimmed(codes))
         /\ \A i \in 1..Len(Trimmed(codes)) :
              Trimmed(codes)[i]
                = IF codes[i].value = 0 THEN 32 ELSE codes[i].value
         /\ \A i \in Len(Trimmed(codes))+1 .. count : codes[i].value \in {0, 32}
         /\ Len(Trimmed(codes)) # 0 =>
              Trimmed(codes)[Len(Trimmed(codes))] # 32
PROOF
  <1> DEFINE text == [i \in DOMAIN codes |->
                        IF codes[i].value = 0 THEN 32 ELSE codes[i].value]
             kept == {0} \cup {i \in DOMAIN text : text[i] # 32}
             last == Max(kept)
  <1>1. Trimmed(codes) = SubSeq(text, 1, last)
    BY Zenon DEF Trimmed
  <1>2. /\ DOMAIN text = 1..count
        /\ \A i \in 1..count :
             text[i] = IF codes[i].value = 0 THEN 32 ELSE codes[i].value
    OBVIOUS
  <1> HIDE DEF text
  <1>3. last \in kept /\ \A i \in kept : i <= last
    <2>1. kept \in SUBSET (0..count) /\ kept # {}
      BY <1>2
    <2> HIDE DEF kept
    <2> QED
      BY <2>1, MaxBounds
  <1>4. last \in 0..count /\ (last # 0 => text[last] # 32)
        /\ \A i \in last+1..count : text[i] = 32
    <2> HIDE DEF last
    <2> QED
      BY <1>2, <1>3
  <1> HIDE DEF last
  <1>5. /\ SubSeq(text, 1, last) \in Seq({text[i] : i \in 1..last})
        /\ Len(SubSeq(text, 1, last)) = last
        /\ \A i \in 1..last : SubSeq(text, 1, last)[i] = text[i]
    <2> DEFINE values == {text[i] : i \in 1..last}
    <2>1. \A i \in 1..last : text[i] \in values
      OBVIOUS
    <2> HIDE DEF values
    <2>2. 1 \in Int /\ last \in Int
      BY <1>4
    <2>3. /\ SubSeq(text, 1, last) \in Seq(values)
          /\ Len(SubSeq(text, 1, last)) = IF 1 <= last THEN last - 1 + 1 ELSE 0
          /\ \A i \in 1..last - 1 + 1 : SubSeq(text, 1, last)[i] = text[1+i-1]
      BY <2>1, <2>2, SubSeqProperties
    <2> QED
      BY <2>3, <1>4 DEF values
  <1>6. DOMAIN SubSeq(text, 1, last) = 1..last
    BY <1>5, LenProperties
  <1> QED
    BY <1>1, <1>2, <1>4, <1>5, <1>6

-----------------------------------------------------------------------------
(* Powers of two                                                           *)

\* The recursion of Two up to n.
Doubling(f, n) == f = [k \in 0..n |-> IF k = 0 THEN 1 ELSE 2 * f[k-1]]

\* It has a solution for every n.
LEMMA DoublingExists ==
  ASSUME NEW n \in Nat
  PROVE  \E f : Doubling(f, n)
PROOF
  <1> DEFINE Solved == {m \in Nat : \E f : Doubling(f, m)}
  <1>1. 0 \in Solved
    <2>1. Doubling([k \in 0..0 |-> 1], 0)
      BY DEF Doubling
    <2> QED
      BY <2>1
  <1>2. ASSUME NEW m \in Nat, m \in Solved
        PROVE  m + 1 \in Solved
    <2>1. PICK f : Doubling(f, m)
      BY <1>2
    <2> DEFINE g == [k \in 0..m+1 |-> IF k <= m THEN f[k] ELSE 2 * f[m]]
    <2>2. \A k \in 0..m+1 : g[k] = IF k = 0 THEN 1 ELSE 2 * g[k-1]
      <3> TAKE k \in 0..m+1
      <3>1. CASE k = 0
        BY <3>1, <2>1 DEF Doubling
      <3>2. CASE k \in 1..m
        BY <3>2, <2>1 DEF Doubling
      <3>3. CASE k = m + 1
        BY <3>3
      <3> QED
        BY <3>1, <3>2, <3>3
    <2>3. Doubling(g, m + 1)
      BY <2>2 DEF Doubling
    <2> HIDE DEF g
    <2> QED
      BY <2>3
  <1> HIDE DEF Solved
  <1>3. n \in Solved
    BY <1>1, <1>2, SetInduction
  <1> QED
    BY <1>3 DEF Solved

\* Two solutions agree where both are defined.
LEMMA DoublingAgrees ==
  ASSUME NEW m \in Nat, NEW n \in Nat, m <= n,
         NEW f, Doubling(f, m), NEW g, Doubling(g, n)
  PROVE  f[m] = g[m]
PROOF
  <1> DEFINE S == {k \in Nat : k <= m => f[k] = g[k]}
  <1>1. 0 \in S
    BY DEF Doubling
  <1>2. ASSUME NEW k \in Nat, k \in S
        PROVE  k + 1 \in S
    <2> SUFFICES ASSUME k + 1 <= m
                 PROVE  f[k+1] = g[k+1]
      OBVIOUS
    <2>1. f[k+1] = 2 * f[k] /\ g[k+1] = 2 * g[k]
      BY DEF Doubling
    <2> QED
      BY <1>2, <2>1
  <1> HIDE DEF S
  <1>3. m \in S
    BY <1>1, <1>2, SetInduction
  <1> QED
    BY <1>3 DEF S

\* Two[n] is the power of two its recursion says.
LEMMA TwoIs ==
  /\ Two[0] = 1
  /\ \A n \in Nat : Two[n] \in Nat \ {0} /\ Two[n+1] = 2 * Two[n]
PROOF
  <1> DEFINE upto(n) == CHOOSE f : Doubling(f, n)
             whole == [n \in Nat |-> upto(n)[n]]
  <1>1. \A n \in Nat : Doubling(upto(n), n)
    BY DoublingExists, Zenon
  <1>2. \A n \in Nat : whole[n] = IF n = 0 THEN 1 ELSE 2 * whole[n-1]
    <2> TAKE n \in Nat
    <2> HIDE DEF upto
    <2>1. CASE n = 0
      BY <1>1, <2>1 DEF Doubling
    <2>2. CASE n # 0
      <3>1. n - 1 \in Nat /\ n - 1 <= n
        BY <2>2
      <3>2. upto(n)[n] = 2 * upto(n)[n-1]
        BY <1>1, <2>2 DEF Doubling
      <3>3. upto(n-1)[n-1] = upto(n)[n-1]
        BY <1>1, <3>1, DoublingAgrees
      <3> QED
        BY <2>2, <3>1, <3>2, <3>3
    <2> QED
      BY <2>1, <2>2
  <1> DEFINE Solves(f) == f = [n \in Nat |-> IF n = 0 THEN 1 ELSE 2 * f[n-1]]
  <1>3. Solves(whole)
    <2> HIDE DEF upto
    <2>1. whole = [n \in Nat |-> whole[n]]
      OBVIOUS
    <2> HIDE DEF whole
    <2> QED
      BY <1>2, <2>1
  <1>4. Solves(Two)
    <2>1. Two = CHOOSE f : Solves(f)
      BY DEF Two
    <2> HIDE DEF Solves, whole
    <2> QED
      BY <1>3, <2>1, Zenon
  <1>5. Two[0] = 1 /\ \A n \in Nat : Two[n+1] = 2 * Two[n]
    BY <1>4
  <1> DEFINE S == {n \in Nat : Two[n] \in Nat \ {0}}
  <1>6. 0 \in S /\ \A n \in Nat : n \in S => n + 1 \in S
    BY <1>5
  <1> HIDE DEF S
  <1>7. \A n \in Nat : n \in S
    BY <1>6, SetInduction
  <1> QED
    BY <1>5, <1>7 DEF S

\* Dividing by the next power of two halves the quotient.
LEMMA Halving ==
  ASSUME NEW v \in Nat, NEW n \in Nat
  PROVE  /\ v \div Two[n] \in Nat
         /\ v \div Two[0] = v
         /\ v \div Two[n+1] = (v \div Two[n]) \div 2
PROOF
  <1>1. \A p \in Nat \ {0} : v \div p \in Nat /\ v \div (2 * p) = (v \div p) \div 2
    OBVIOUS
  <1> DEFINE p == Two[n]
  <1>2. p \in Nat \ {0} /\ Two[n+1] = 2 * p /\ Two[0] = 1
    BY TwoIs
  <1> HIDE DEF p
  <1>3. v \div p \in Nat /\ v \div (2 * p) = (v \div p) \div 2
    BY <1>1, <1>2
  <1>4. v \div Two[0] = v
    BY <1>2
  <1> QED
    BY <1>2, <1>3, <1>4 DEF p

\* The lowest n + 1 bits are the lowest bit below the n bits above it.
LEMMA LowestBits ==
  ASSUME NEW v \in Nat, NEW p \in Nat \ {0}
  PROVE  /\ v % (2 * p) = 2 * ((v \div 2) % p) + (v % 2)
         /\ v % p \in 0..p-1
PROOF
  <1> DEFINE h == v \div 2
             d == h \div p
             m == h % p
  <1>1. v = 2 * h + (v % 2) /\ v % 2 \in 0..1 /\ h \in Nat
    OBVIOUS
  <1>2. h = p * d + m /\ m \in 0..p-1 /\ d \in Nat
    <2> HIDE DEF h
    <2> QED
      BY <1>1
  <1> HIDE DEF h, d, m
  <1> DEFINE rest == 2 * m + (v % 2)
  <1>3. rest \in 0 .. 2 * p - 1
    BY <1>1, <1>2
  <1>4. v = (2 * p) * d + rest
    BY <1>1, <1>2
  <1> HIDE DEF rest
  <1>5. v % (2 * p) = rest
    BY <1>2, <1>3, <1>4
  <1> QED
    BY <1>5 DEF rest, m, h

-----------------------------------------------------------------------------
(* The payload as one number                                               *)

\* The quotients by the next six powers of two.
LEMMA Halvings ==
  ASSUME NEW v \in Nat, NEW n \in Nat
  PROVE  /\ v \div Two[n+1] = (v \div Two[n]) \div 2
         /\ v \div Two[n+2] = (v \div Two[n]) \div 4
         /\ v \div Two[n+3] = (v \div Two[n]) \div 8
         /\ v \div Two[n+4] = (v \div Two[n]) \div 16
         /\ v \div Two[n+5] = (v \div Two[n]) \div 32
         /\ v \div Two[n+6] = (v \div Two[n]) \div 64
PROOF
  <1> DEFINE q == v \div Two[n]
             r(b) == v \div Two[n+b]
  <1>1. ASSUME NEW b \in 0..5
        PROVE  r(b) \in Nat /\ r(b+1) = r(b) \div 2
    <2>1. n + b \in Nat /\ (n + b) + 1 = n + (b + 1)
      OBVIOUS
    <2>2. v \div Two[n+b] \in Nat
          /\ v \div Two[(n+b)+1] = (v \div Two[n+b]) \div 2
      BY <2>1, Halving
    <2> QED
      BY <2>1, <2>2
  <1>2. r(0) = q
    OBVIOUS
  <1> HIDE DEF r, q
  <1>3. /\ r(0) \in Nat /\ r(1) = r(0) \div 2
        /\ r(1) \in Nat /\ r(2) = r(1) \div 2
        /\ r(2) \in Nat /\ r(3) = r(2) \div 2
    BY <1>1, 0 + 1 = 1, 1 + 1 = 2, 2 + 1 = 3
  <1>4. /\ r(3) \in Nat /\ r(4) = r(3) \div 2
        /\ r(4) \in Nat /\ r(5) = r(4) \div 2
        /\ r(5) \in Nat /\ r(6) = r(5) \div 2
    BY <1>1, 3 + 1 = 4, 4 + 1 = 5, 5 + 1 = 6
  <1>5. /\ r(1) = q \div 2 /\ r(2) = q \div 4 /\ r(3) = q \div 8
        /\ r(4) = q \div 16 /\ r(5) = q \div 32 /\ r(6) = q \div 64
    BY <1>2, <1>3, <1>4
  <1> QED
    BY <1>5 DEF r, q

\* What the armouring says of the characters it and bitfield.c read alike.
LEMMA SixBits ==
  ASSUME NEW c \in 48..87
  PROVE  IsLegal(c) /\ sixbit_to_uint(c) = c - 48 /\ c - 48 \in 0..39
PROOF
  <1>1. IsLegal(c) /\ ~(c - 48 > 40)
    BY DEF IsLegal
  <1>2. sixbit_to_uint(c) = c - 48
    BY <1>1, Zenon DEF sixbit_to_uint
  <1>3. c - 48 \in 0..39
    OBVIOUS
  <1> QED
    BY <1>1, <1>2, <1>3

\* The characters the armouring of ITU-R M.1371 and bitfield.c read alike.
Agreed(cs) == Len(cs) \in Nat /\ \A i \in 1..Len(cs) : cs[i] \in 48..87

\* The recursion of Number on the first n characters.
Numbering(f, cs, n) ==
  f = [k \in 0..n |-> IF k = 0 THEN 0
                      ELSE 64 * f[k-1] + sixbit_to_uint(cs[k])]

\* It has a solution for every n.
LEMMA NumberingExists ==
  ASSUME NEW cs, NEW n \in Nat
  PROVE  \E f : Numbering(f, cs, n)
PROOF
  <1> DEFINE Solved == {m \in Nat : \E f : Numbering(f, cs, m)}
  <1>1. 0 \in Solved
    <2>1. Numbering([k \in 0..0 |-> 0], cs, 0)
      BY DEF Numbering
    <2> QED
      BY <2>1
  <1>2. ASSUME NEW m \in Nat, m \in Solved
        PROVE  m + 1 \in Solved
    <2>1. PICK f : Numbering(f, cs, m)
      BY <1>2
    <2> DEFINE g == [k \in 0..m+1 |->
                       IF k <= m THEN f[k]
                       ELSE 64 * f[m] + sixbit_to_uint(cs[m+1])]
    <2>2. \A k \in 0..m+1 :
            g[k] = IF k = 0 THEN 0 ELSE 64 * g[k-1] + sixbit_to_uint(cs[k])
      <3> TAKE k \in 0..m+1
      <3>1. CASE k = 0
        BY <3>1, <2>1 DEF Numbering
      <3>2. CASE k \in 1..m
        BY <3>2, <2>1 DEF Numbering
      <3>3. CASE k = m + 1
        BY <3>3
      <3> QED
        BY <3>1, <3>2, <3>3
    <2>3. Numbering(g, cs, m + 1)
      BY <2>2 DEF Numbering
    <2> HIDE DEF g
    <2> QED
      BY <2>3
  <1> HIDE DEF Solved
  <1>3. n \in Solved
    BY <1>1, <1>2, SetInduction
  <1> QED
    BY <1>3 DEF Solved

\* Every character adds six bits to the number of those before it.
LEMMA Digits ==
  ASSUME NEW cs, Agreed(cs), NEW f, Numbering(f, cs, Len(cs))
  PROVE  /\ \A k \in 0..Len(cs) : f[k] \in Nat
         /\ \A k \in 1..Len(cs) : /\ cs[k] - 48 \in 0..39
                                  /\ f[k] = 64 * f[k-1] + (cs[k] - 48)
PROOF
  <1>1. f[0] = 0
    BY DEF Numbering, Agreed
  <1>2. \A k \in 1..Len(cs) : /\ cs[k] - 48 \in 0..39
                              /\ f[k] = 64 * f[k-1] + (cs[k] - 48)
    <2> TAKE k \in 1..Len(cs)
    <2>1. f[k] = 64 * f[k-1] + sixbit_to_uint(cs[k])
      BY DEF Numbering, Agreed
    <2>2. cs[k] \in 48..87
      BY DEF Agreed
    <2> QED
      BY <2>1, <2>2, SixBits
  <1> DEFINE S == {k \in Nat : k <= Len(cs) => f[k] \in Nat}
  <1>3. 0 \in S
    BY <1>1
  <1>4. ASSUME NEW k \in Nat, k \in S
        PROVE  k + 1 \in S
    <2> SUFFICES ASSUME k + 1 <= Len(cs)
                 PROVE  f[k+1] \in Nat
      OBVIOUS
    <2>1. k + 1 \in 1..Len(cs) /\ f[k] \in Nat
      BY <1>4 DEF Agreed
    <2> DEFINE d == cs[k+1] - 48
    <2>2. f[k+1] = 64 * f[(k+1)-1] + d /\ d \in 0..39 /\ (k+1)-1 = k
      BY <1>2, <2>1
    <2> HIDE DEF d
    <2> QED
      BY <2>1, <2>2
  <1> HIDE DEF S
  <1>5. \A k \in Nat : k \in S
    BY <1>3, <1>4, SetInduction
  <1> QED
    BY <1>2, <1>5 DEF S, Agreed

\* The number without its last j characters.
LEMMA Prefixes ==
  ASSUME NEW cs, Agreed(cs), NEW f, Numbering(f, cs, Len(cs)),
         NEW j \in 0..Len(cs)
  PROVE  f[Len(cs) - j] = f[Len(cs)] \div Two[6 * j]
PROOF
  <1> DEFINE L == Len(cs)
             S == {i \in Nat : i <= L => f[L - i] = f[L] \div Two[6 * i]}
  <1>1. L \in Nat /\ f[L] \in Nat
    BY Digits DEF Agreed
  <1>2. 0 \in S
    <2>1. f[L - 0] = f[L] /\ 6 * 0 = 0
      BY <1>1
    <2>2. f[L] \div Two[0] = f[L]
      BY <1>1, Halving
    <2> QED
      BY <2>1, <2>2
  <1>3. ASSUME NEW i \in Nat, i \in S
        PROVE  i + 1 \in S
    <2> SUFFICES ASSUME i + 1 <= L
                 PROVE  f[L - (i + 1)] = f[L] \div Two[6 * (i + 1)]
      OBVIOUS
    <2> DEFINE q == f[L] \div Two[6 * i]
    <2>1. f[L - i] = q
      BY <1>1, <1>3
    <2>2. f[L] \div Two[6 * i + 6] = q \div 64
      <3> DEFINE v == f[L]
                 m == 6 * i
      <3>1. v \in Nat /\ m \in Nat
        BY <1>1
      <3> HIDE DEF v, m
      <3>2. v \div Two[m + 6] = (v \div Two[m]) \div 64
        BY <3>1, Halvings
      <3> QED
        BY <3>2 DEF v, m
    <2> HIDE DEF q, L
    <2>3. L - i \in 1..Len(cs) /\ (L - i) - 1 = L - (i + 1)
          /\ L - (i + 1) \in 0..Len(cs)
      BY <1>1 DEF L
    <2> DEFINE d == cs[L - i] - 48
    <2>4. f[L - (i + 1)] \in Nat /\ d \in 0..39
          /\ f[L - i] = 64 * f[(L - i) - 1] + d
      BY <2>3, Digits
    <2> HIDE DEF d
    <2>5. f[L - i] = 64 * f[L - (i + 1)] + d
      BY <2>3, <2>4
    <2>6. f[L - (i + 1)] = q \div 64
      <3> DEFINE r == f[L - (i + 1)]
      <3>1. q = 64 * r + d /\ d \in 0..39 /\ r \in Nat
        BY <2>1, <2>4, <2>5
      <3> HIDE DEF r
      <3>2. r = q \div 64
        BY <3>1
      <3> QED
        BY <3>2 DEF r
    <2>7. 6 * (i + 1) = 6 * i + 6
      OBVIOUS
    <2> QED
      BY <2>2, <2>6, <2>7
  <1> HIDE DEF S
  <1>4. j \in S
    BY <1>1, <1>2, <1>3, SetInduction
  <1> QED
    BY <1>4 DEF S

\* Bit i of the payload is a bit of the number.
LEMMA BitOfNumber ==
  ASSUME NEW cs, Agreed(cs), NEW f, Numbering(f, cs, Len(cs)),
         NEW i \in 0 .. 6 * Len(cs) - 1
  PROVE  Bit(cs, i) = (f[Len(cs)] \div Two[6 * Len(cs) - 1 - i]) % 2
PROOF
  <1> DEFINE L == Len(cs)
             k == i \div 6 + 1
             b == 5 - (i % 6)
             d == cs[k] - 48
  <1>1. L \in Nat /\ k \in 1..L /\ b \in 0..5
        /\ 6 * L - 1 - i = 6 * (L - k) + b
    BY DEF Agreed
  <1>2. Bit(cs, i) = (d \div Two[b]) % 2
    BY DEF Bit
  <1> HIDE DEF b, k, L
  <1>3. L - k \in 0..Len(cs) /\ L - (L - k) = k
    BY <1>1 DEF L
  <1>4. f[k] = f[L] \div Two[6 * (L - k)]
    BY <1>3, Prefixes DEF L
  <1>5. f[k] = 64 * f[k-1] + d /\ d \in 0..39 /\ f[k] \in Nat /\ f[k-1] \in Nat
        /\ f[L] \in Nat
    BY <1>1, Digits DEF L
  <1> HIDE DEF d
  <1> DEFINE m == 6 * (L - k)
             q(c) == f[L] \div Two[m + c]
             h(c) == d \div Two[c]
  <1>6. m \in Nat
    BY <1>3
  <1> HIDE DEF m
  <1>7. /\ q(1) = f[k] \div 2 /\ q(2) = f[k] \div 4 /\ q(3) = f[k] \div 8
        /\ q(4) = f[k] \div 16 /\ q(5) = f[k] \div 32
    <2> DEFINE v == f[L]
    <2>1. v \in Nat /\ f[k] = v \div Two[m]
      BY <1>4, <1>5 DEF m
    <2> HIDE DEF v
    <2>2. /\ v \div Two[m+1] = f[k] \div 2 /\ v \div Two[m+2] = f[k] \div 4
          /\ v \div Two[m+3] = f[k] \div 8 /\ v \div Two[m+4] = f[k] \div 16
          /\ v \div Two[m+5] = f[k] \div 32
      BY <1>6, <2>1, Halvings
    <2> QED
      BY <2>2 DEF v
  <1>8. q(0) = f[k]
    <2>1. m + 0 = m
      BY <1>6
    <2> QED
      BY <1>4, <2>1 DEF m
  <1>9. h(0) = d
    <2>1. d \in Nat /\ 0 \in Nat
      BY <1>5
    <2>2. d \div Two[0] = d
      BY <2>1, Halving
    <2> QED
      BY <2>2
  <1>10. /\ h(1) = d \div 2 /\ h(2) = d \div 4 /\ h(3) = d \div 8
         /\ h(4) = d \div 16 /\ h(5) = d \div 32
    <2> DEFINE z == 0
    <2>1. d \in Nat /\ z \in Nat /\ d \div Two[z] = d
      BY <1>5, <1>9
    <2>2. 1 = z + 1 /\ 2 = z + 2 /\ 3 = z + 3 /\ 4 = z + 4 /\ 5 = z + 5
      OBVIOUS
    <2> HIDE DEF z
    <2>3. /\ d \div Two[z+1] = d \div 2
          /\ d \div Two[z+2] = d \div 4
          /\ d \div Two[z+3] = d \div 8
          /\ d \div Two[z+4] = d \div 16
          /\ d \div Two[z+5] = d \div 32
      <3>1. /\ d \div Two[z+1] = (d \div Two[z]) \div 2
            /\ d \div Two[z+2] = (d \div Two[z]) \div 4
            /\ d \div Two[z+3] = (d \div Two[z]) \div 8
            /\ d \div Two[z+4] = (d \div Two[z]) \div 16
            /\ d \div Two[z+5] = (d \div Two[z]) \div 32
        BY <2>1, Halvings, Zenon
      <3> QED
        BY <2>1, <3>1, Zenon
    <2> QED
      BY <2>2, <2>3
  <1> HIDE DEF q, h
  <1> DEFINE p == f[k]
             r == f[k-1]
  <1>11. p = 64 * r + d /\ d \in 0..39 /\ r \in Nat /\ p \in Nat
    BY <1>5
  <1> HIDE DEF p, r
  <1>12. /\ p % 2 = d % 2
         /\ (p \div 2) % 2 = (d \div 2) % 2
         /\ (p \div 4) % 2 = (d \div 4) % 2
         /\ (p \div 8) % 2 = (d \div 8) % 2
         /\ (p \div 16) % 2 = (d \div 16) % 2
         /\ (p \div 32) % 2 = (d \div 32) % 2
    BY <1>11
  <1>13. \A c \in 0..5 : q(c) % 2 = h(c) % 2
    <2> TAKE c \in 0..5
    <2>1. c = 0 \/ c = 1 \/ c = 2 \/ c = 3 \/ c = 4 \/ c = 5
      OBVIOUS
    <2> QED
      BY <2>1, <1>7, <1>8, <1>9, <1>10, <1>12, Zenon DEF p
  <1>14. Bit(cs, i) = h(b) % 2 /\ 6 * L - 1 - i = m + b
    BY <1>1, <1>2 DEF h, m
  <1> QED
    BY <1>1, <1>13, <1>14 DEF q, L

\* parse_uint_safe answers the n bits of the number from bit start on.
LEMMA UintIsSlice ==
  ASSUME NEW cs, Agreed(cs), NEW f, Numbering(f, cs, Len(cs)),
         NEW start \in Nat, NEW n \in 1..32, start + n <= 6 * Len(cs)
  PROVE  parse_uint_safe(cs, start, n)
           = Ok((f[Len(cs)] \div Two[6 * Len(cs) - start - n]) % Two[n])
PROOF
  <1> DEFINE W == 6 * Len(cs)
             N == f[Len(cs)]
  <1>1. W \in Nat /\ Len(cs) \in Nat /\ n \in Nat /\ start + n <= W
    BY DEF Agreed
  <1>2. N \in Nat
    BY <1>1, Digits
  <1>3. PICK acc : /\ Loop(acc, cs, start, n)
                   /\ parse_uint_safe(cs, start, n) = acc[n]
    BY <1>1, UintLoop
  <1> DEFINE Right(k) == acc[k] = Ok((N \div Two[W - start - k]) % Two[k])
             S == {k \in Nat : k <= n => Right(k)}
  <1> HIDE DEF N
  <1>4. 0 \in S
    <2>1. acc[0] = Ok(0)
      BY <1>1, <1>3 DEF Loop
    <2>2. W - start - 0 \in Nat
      BY <1>1
    <2> HIDE DEF W
    <2> DEFINE q == N \div Two[W - start - 0]
    <2>3. q \in Nat
      BY <1>2, <2>2, Halving
    <2> HIDE DEF q
    <2>4. q % Two[0] = 0
      BY <2>3, TwoIs
    <2> QED
      BY <2>1, <2>4 DEF q
  <1>5. ASSUME NEW k \in Nat, k \in S
        PROVE  k + 1 \in S
    <2> SUFFICES ASSUME k + 1 <= n
                 PROVE  Right(k + 1)
      OBVIOUS
    <2>1. acc[k+1] = Shift(cs, start + k, acc[k])
      BY <1>3 DEF Loop
    <2> DEFINE i == start + k
               m == W - start - (k + 1)
               q == N \div Two[m]
    <2>2. i \in 0 .. 6 * Len(cs) - 1 /\ m \in Nat /\ W - start - k = m + 1
          /\ 6 * Len(cs) - 1 - i = m
      BY <1>1
    <2>3. IsLegal(cs[i \div 6 + 1])
      <3>1. i \div 6 + 1 \in 1..Len(cs)
        BY <1>1, <2>2
      <3> QED
        BY <3>1 DEF Agreed, IsLegal
    <2>4. Bit(cs, i) = q % 2
      BY <2>2, BitOfNumber DEF N
    <2> HIDE DEF W, i, m
    <2>5. acc[k] = Ok((N \div Two[m+1]) % Two[k])
      BY <1>5, <2>2
    <2>6. q \in Nat /\ N \div Two[m+1] = q \div 2
      BY <1>2, <2>2, Halving
    <2>7. Two[k] \in Nat \ {0} /\ Two[k+1] = 2 * Two[k]
      BY TwoIs
    <2> HIDE DEF q
    <2>8. q % Two[k+1] = 2 * ((q \div 2) % Two[k]) + (q % 2)
      BY <2>6, <2>7, LowestBits
    <2>9. \A v : Shift(cs, i, Ok(v)) = Ok(2 * v + Bit(cs, i))
      BY <2>3, Outcomes, Zenon DEF Shift
    <2>10. acc[k+1] = Ok(q % Two[k+1])
      BY <2>1, <2>4, <2>5, <2>6, <2>8, <2>9 DEF i
    <2> QED
      BY <2>10 DEF q, m
  <1> HIDE DEF S
  <1>6. n \in S
    BY <1>1, <1>4, <1>5, SetInduction
  <1>7. Right(n)
    BY <1>6 DEF S
  <1> QED
    BY <1>3, <1>7 DEF N

\* A field that is read is the slice of the number, as wide as the field.
LEMMA FieldIsSlice ==
  ASSUME Agreed(chars), NEW start \in Int, NEW n \in Int,
         parse_uint_safe(chars, start, n).ok
  PROVE  /\ parse_uint_safe(chars, start, n) = Ok(Slice(start, n))
         /\ n \in 1..32
         /\ Slice(start, n) \in 0..Two[n]-1
PROOF
  <1> DEFINE L == Len(chars)
             value == CHOOSE f : Numbering(f, chars, L)
  <1>1. L \in Nat
    BY DEF Agreed
  <1>2. Numbering(value, chars, L)
    BY <1>1, NumberingExists, Zenon
  <1>3. Number = value[L]
    BY DEF Number, Numbering
  <1> HIDE DEF value
  <1>4. n \in 1..32 /\ start \in Nat /\ start + n <= 6 * L
    BY <1>1, UintReads
  <1>5. parse_uint_safe(chars, start, n)
          = Ok((value[L] \div Two[6 * L - start - n]) % Two[n])
    BY <1>2, <1>4, UintIsSlice
  <1>6. parse_uint_safe(chars, start, n) = Ok(Slice(start, n))
    BY <1>3, <1>5 DEF Slice, Width
  <1>7. Slice(start, n) \in 0..Two[n]-1
    <2> DEFINE m == 6 * L - start - n
               q == Number \div Two[m]
               p == Two[n]
    <2>1. m \in Nat /\ Number \in Nat
      BY <1>1, <1>2, <1>3, <1>4, Digits
    <2>2. q \in Nat
      BY <2>1, Halving
    <2>3. p \in Nat \ {0}
      <3>1. n \in Nat
        BY <1>4
      <3> QED
        BY <3>1, TwoIs, Zenon
    <2> HIDE DEF p, q
    <2>4. q % p \in 0..p-1
      BY <2>2, <2>3
    <2> QED
      BY <2>4 DEF p, q, Slice, Width
  <1> QED
    BY <1>4, <1>6, <1>7

-----------------------------------------------------------------------------
(* The theorems                                                            *)

\* A payload is a sequence of characters of the alphabet.
BInv == chars \in Seq(Alphabet)

\* It stays one, character by character.
LEMMA BInvHolds == Spec => []BInv
PROOF
  <1>1. Init => BInv
    BY DEF Init, BInv
  <1>2. BInv /\ [Next]_chars => BInv'
    BY DEF BInv, Next
  <1> QED
    BY <1>1, <1>2, PTL DEF Spec

\* The abstraction every other module works with is exact: parse_uint_safe, the
\* blob and the texts are read where Payload and MessageLayout say they are,
\* for payloads of every length.
THEOREM AbstractionAlwaysExact == Spec => []AbstractionIsExact
PROOF
  <1>1. BInv => AbstractionIsExact
    <2> SUFFICES ASSUME BInv
                 PROVE  AbstractionIsExact
      OBVIOUS
    <2>1. Len(chars) \in Nat
      BY DEF BInv
    <2>2. \A r \in Ranges : r[1] \in Int /\ r[2] \in Int
      BY <2>1 DEF Ranges, Width
    <2>3. \A r \in Ranges :
            parse_uint_safe(chars, r[1], r[2]).ok
              <=> ReadsUint(Abstraction(chars), r[1], r[2])
      BY <2>1, <2>2, UintExact
    <2>4. ASSUME NEW r \in Ranges, r[1] >= 0
          PROVE  /\ parse_bin_payload(chars, r[1], r[2]).ok
                      <=> ReadsBin(Abstraction(chars), r[1], r[2])
                 /\ parse_string_utf8(chars, r[1], r[2]).ok
                      <=> ReadsText(Abstraction(chars), r[1], r[2])
      <3>1. r[1] \in Nat /\ r[2] \in Int
        BY <2>2, <2>4
      <3> QED
        BY <2>1, <3>1, BinExact, TextExact
    <2> QED
      BY <2>3, <2>4, Zenon DEF AbstractionIsExact
  <1> QED
    BY <1>1, BInvHolds, PTL

\* A text loses its trailing spaces and nothing else, for texts of every
\* length.
THEOREM TextAlwaysLosesOnlyTrailingSpaces ==
  Spec => []TextLosesOnlyTrailingSpaces
PROOF
  <1>1. BInv => TextLosesOnlyTrailingSpaces
    <2> SUFFICES ASSUME BInv, NEW r \in Ranges,
                        parse_string_utf8(chars, r[1], r[2]).ok
                 PROVE  LET t == parse_string_utf8(chars, r[1], r[2])
                            Code(i) == parse_uint_safe(
                                         chars, r[1] + 6 * (i - 1), 6).value
                        IN  /\ \A i \in DOMAIN t.value :
                                 \/ t.value[i] = Code(i)
                                 \/ t.value[i] = 32 /\ Code(i) = 0
                            /\ \A i \in Len(t.value)+1 .. r[2] \div 6 :
                                 Code(i) \in {0, 32}
                            /\ t.value # <<>> => t.value[Len(t.value)] # 32
      BY Zenon DEF TextLosesOnlyTrailingSpaces
    <2> DEFINE count == r[2] \div 6
               codes == Codes(chars, r[1], count)
               text == parse_string_utf8(chars, r[1], r[2]).value
    <2>1. Len(chars) \in Nat
      BY DEF BInv
    <2>2. r[2] \in Nat
      BY <2>1 DEF Ranges, Width
    <2>3. count \in Nat
      BY <2>2
    <2>4. text = Trimmed(codes)
      BY StringUtf8Is, Outcomes, Zenon
    <2>5. DOMAIN codes = 1..count
          /\ \A i \in 1..count : codes[i]
                                   = parse_uint_safe(chars, r[1] + 6 * (i - 1), 6)
      BY DEF Codes
    <2> HIDE DEF codes, count, text
    <2>6. /\ Len(text) \in 0..count
          /\ DOMAIN text = 1..Len(text)
          /\ \A i \in 1..Len(text) :
               text[i] = IF codes[i].value = 0 THEN 32 ELSE codes[i].value
          /\ \A i \in Len(text)+1 .. count : codes[i].value \in {0, 32}
          /\ Len(text) # 0 => text[Len(text)] # 32
      BY <2>3, <2>4, <2>5, TrimmedKeeps
    <2>7. \A i \in DOMAIN text :
            LET c == parse_uint_safe(chars, r[1] + 6 * (i - 1), 6).value
            IN  text[i] = c \/ (text[i] = 32 /\ c = 0)
      BY <2>3, <2>5, <2>6
    <2>8. \A i \in Len(text)+1 .. count :
            parse_uint_safe(chars, r[1] + 6 * (i - 1), 6).value \in {0, 32}
      BY <2>3, <2>5, <2>6
    <2>9. text # <<>> => text[Len(text)] # 32
      <3>1. Len(text) = 0 => text = <<>>
        BY <2>6
      <3> QED
        BY <2>6, <3>1
    <2> QED
      BY <2>7, <2>8, <2>9 DEF text, count
  <1> QED
    BY <1>1, BInvHolds, PTL

\* The two readers of texts agree on every range of every payload.
THEOREM TextReadersAlwaysAgree == Spec => []TextReadersAgree
PROOF
  <1>1. BInv => TextReadersAgree
    <2> SUFFICES ASSUME BInv, NEW r \in Ranges, r[1] + r[2] <= Width
                 PROVE  LET any   == parse_string_safe(chars, r[1], r[2])
                            whole == parse_string_utf8(
                                       chars, r[1], 6 * ((r[2] + 5) \div 6))
                        IN  /\ any.ok <=> whole.ok
                            /\ any.ok => any.value = whole.value
      BY Zenon DEF TextReadersAgree
    <2> DEFINE count == (r[2] + 5) \div 6
               Read == \A i \in DOMAIN Codes(chars, r[1], count) :
                         Codes(chars, r[1], count)[i].ok
               any   == parse_string_safe(chars, r[1], r[2])
               whole == parse_string_utf8(chars, r[1], 6 * count)
               Answer == Ok(Trimmed(Codes(chars, r[1], count)))
    <2>1. Len(chars) \in Nat
      BY DEF BInv
    <2>2. r[1] \in Int /\ r[2] \in Nat /\ r[1] + r[2] <= 6 * Len(chars)
      BY <2>1 DEF Ranges, Width
    <2>3. count \in Nat /\ (6 * count) \div 6 = count /\ (6 * count) % 6 = 0
          /\ (6 * count > 0 <=> r[2] > 0) /\ 6 * count \in Nat
      BY <2>2
    <2>4. any = IF r[1] < 0 \/ r[2] <= 0 \/ r[1] + r[2] > 6 * Len(chars) \/ ~Read
                THEN Failed ELSE Answer
      BY StringSafeIs, Zenon
    <2>5. whole = IF \/ r[1] < 0 \/ 6 * count <= 0 \/ (6 * count) % 6 # 0
                     \/ r[1] + 6 * count > 6 * Len(chars) \/ ~Read
                  THEN Failed ELSE Answer
      <3> HIDE DEF count
      <3>1. (6 * count) \div 6 = count
        BY <2>3
      <3> QED
        BY <3>1, StringUtf8Is, Zenon
    <2>6. r[1] >= 0 /\ r[2] > 0 /\ Read => r[1] + 6 * count <= 6 * Len(chars)
      <3> HIDE DEF count
      <3> SUFFICES ASSUME r[1] >= 0, r[2] > 0, Read
                   PROVE  r[1] + 6 * count <= 6 * Len(chars)
        OBVIOUS
      <3>1. r[1] \in Nat /\ count \in Nat \ {0}
        BY <2>2, <2>3
      <3> QED
        BY <2>1, <3>1, CodesRead
    <2> HIDE DEF any, whole, Read, Answer, count
    <2>7. any = whole
      <3>1. (r[1] < 0 \/ r[2] <= 0 \/ r[1] + r[2] > 6 * Len(chars) \/ ~Read)
              <=> (\/ r[1] < 0 \/ 6 * count <= 0 \/ (6 * count) % 6 # 0
                   \/ r[1] + 6 * count > 6 * Len(chars) \/ ~Read)
        BY <2>1, <2>2, <2>3, <2>6
      <3> QED
        BY <2>4, <2>5, <3>1, Zenon
    <2> QED
      BY <2>7, Zenon DEF any, whole, count
  <1> QED
    BY <1>1, BInvHolds, PTL

\* Every field is the bits of the armoured payload it should be, for payloads
\* of every length: no character and no bit is skipped, taken twice or taken
\* in the wrong order, and a signed field is its two's complement.
THEOREM AlwaysSlicesOfTheNumber == Spec => []SlicesOfTheNumber
PROOF
  <1>1. BInv => SlicesOfTheNumber
    <2> SUFFICES ASSUME BInv, \A i \in DOMAIN chars : chars[i] \in 48..87,
                        NEW r \in Ranges
                 PROVE  LET u == parse_uint_safe(chars, r[1], r[2])
                            s == parse_int_safe(chars, r[1], r[2])
                            b == parse_bin_payload(chars, r[1], r[2])
                            t == parse_bool_safe(chars, r[1])
                        IN  /\ u.ok => u.value = Slice(r[1], r[2])
                            /\ t.ok => (t.value <=> Slice(r[1], 1) = 1)
                            /\ s.ok =>
                                 /\ s.value \in -Two[r[2]-1] .. Two[r[2]-1] - 1
                                 /\ (Slice(r[1], r[2]) - s.value) % Two[r[2]] = 0
                            /\ b.ok =>
                                 \A i \in DOMAIN b.value :
                                   b.value[i] = Slice(r[1] + 8 * (i - 1), 8)
      BY Zenon DEF SlicesOfTheNumber
    <2> DEFINE u == parse_uint_safe(chars, r[1], r[2])
               s == parse_int_safe(chars, r[1], r[2])
               b == parse_bin_payload(chars, r[1], r[2])
               t == parse_bool_safe(chars, r[1])
    <2>1. Agreed(chars)
      <3>1. Len(chars) \in Nat /\ DOMAIN chars = 1..Len(chars)
        BY LenProperties DEF BInv
      <3> QED
        BY <3>1 DEF Agreed
    <2>2. r[1] \in Int /\ r[2] \in Int
      BY DEF BInv, Ranges, Width
    <2>3. u.ok => /\ u = Ok(Slice(r[1], r[2])) /\ r[2] \in 1..32
                  /\ Slice(r[1], r[2]) \in 0..Two[r[2]]-1
      BY <2>1, <2>2, FieldIsSlice
    <2>4. u.ok => u.value = Slice(r[1], r[2])
      BY <2>3, Outcomes, Zenon
    <2>5. t.ok => (t.value <=> Slice(r[1], 1) = 1)
      <3> DEFINE bit == parse_uint_safe(chars, r[1], 1)
      <3>1. t = IF bit.ok THEN Ok(bit.value # 0) ELSE Failed
        BY DEF parse_bool_safe
      <3>2. t.ok => bit.ok
        BY <3>1, Outcomes, Zenon
      <3>3. bit.ok => bit = Ok(Slice(r[1], 1)) /\ Slice(r[1], 1) \in 0..Two[1]-1
        BY <2>1, <2>2, FieldIsSlice
      <3>4. Two[1] = 2
        BY TwoIs, 0 + 1 = 1
      <3> HIDE DEF bit
      <3>5. bit.ok => bit.value = Slice(r[1], 1)
                      /\ (bit.value # 0 <=> Slice(r[1], 1) = 1)
        <4>1. bit.ok => bit.value = Slice(r[1], 1)
          BY <3>3, Outcomes, Zenon
        <4>2. Slice(r[1], 1) \in 0..Two[1]-1
                => (Slice(r[1], 1) # 0 <=> Slice(r[1], 1) = 1)
          BY <3>4
        <4> QED
          BY <3>3, <4>1, <4>2, Zenon
      <3>6. bit.ok => t.value = (bit.value # 0)
        BY <3>1, Outcomes, Zenon
      <3> QED
        BY <3>2, <3>5, <3>6, Zenon
    <2>6. s.ok => /\ s.value \in -Two[r[2]-1] .. Two[r[2]-1] - 1
                  /\ (Slice(r[1], r[2]) - s.value) % Two[r[2]] = 0
      <3> SUFFICES ASSUME s.ok
                   PROVE  /\ s.value \in -Two[r[2]-1] .. Two[r[2]-1] - 1
                          /\ (Slice(r[1], r[2]) - s.value) % Two[r[2]] = 0
        OBVIOUS
      <3> DEFINE x == Slice(r[1], r[2])
                 p == Two[r[2]]
                 h == Two[r[2]-1]
      <3>1. s = IF u.ok /\ u.value >= h THEN Ok(u.value - p) ELSE u
        BY DEF parse_int_safe
      <3>2. u.ok
        BY <3>1, Outcomes, Zenon
      <3>3. u = Ok(x) /\ u.value = x /\ x \in 0..p-1 /\ r[2] \in 1..32
        BY <2>3, <2>4, <3>2
      <3>4. h \in Nat \ {0} /\ p = 2 * h
        <4>1. r[2] - 1 \in Nat /\ (r[2] - 1) + 1 = r[2]
          BY <3>3
        <4> QED
          BY <4>1, TwoIs
      <3> HIDE DEF x, p, h, u, s
      <3>5. CASE x >= h
        <4>1. s.value = x - p
          BY <3>1, <3>2, <3>3, <3>5, Outcomes, Zenon
        <4>2. x - s.value = p /\ x - p \in -h..h-1
          BY <3>3, <3>4, <3>5, <4>1
        <4>3. p % p = 0
          BY <3>4
        <4> QED
          BY <4>1, <4>2, <4>3 DEF x, p, h
      <3>6. CASE x < h
        <4>1. ~(x >= h)
          BY <3>3, <3>4, <3>6
        <4>2. s.value = x
          BY <3>1, <3>3, <4>1, Zenon
        <4>3. x - s.value = 0 /\ x \in -h..h-1 /\ 0 % p = 0
          BY <3>3, <3>4, <3>6, <4>2
        <4> QED
          BY <4>2, <4>3 DEF x, p, h
      <3> QED
        BY <3>3, <3>4, <3>5, <3>6
    <2>7. b.ok => \A i \in DOMAIN b.value :
                    b.value[i] = Slice(r[1] + 8 * (i - 1), 8)
      <3> SUFFICES ASSUME b.ok, NEW i \in DOMAIN b.value
                   PROVE  b.value[i] = Slice(r[1] + 8 * (i - 1), 8)
        OBVIOUS
      <3> DEFINE bytes == [j \in 1..(r[2] \div 8) |->
                             parse_uint_safe(chars, r[1] + 8 * (j - 1), 8)]
                 bad == \E j \in DOMAIN bytes : ~bytes[j].ok
                 values == [j \in DOMAIN bytes |-> bytes[j].value]
      <3>1. b = IF r[2] <= 0 \/ r[1] + r[2] > 6 * Len(chars) \/ bad
                THEN Failed ELSE Ok(values)
        BY DEF parse_bin_payload
      <3> HIDE DEF bytes, b
      <3>2. ~bad /\ b.value = values
        <4> HIDE DEF bad, values
        <4> QED
          BY <3>1, Outcomes, Zenon
      <3>3. i \in DOMAIN bytes /\ b.value[i] = bytes[i].value /\ bytes[i].ok
        BY <3>2
      <3>4. i \in Int /\ bytes[i] = parse_uint_safe(chars, r[1] + 8 * (i - 1), 8)
        BY <3>3 DEF bytes
      <3>5. parse_uint_safe(chars, r[1] + 8 * (i - 1), 8)
              = Ok(Slice(r[1] + 8 * (i - 1), 8))
        BY <2>1, <2>2, <3>3, <3>4, FieldIsSlice
      <3> QED
        BY <3>3, <3>4, <3>5, Outcomes, Zenon
    <2> QED
      BY <2>4, <2>5, <2>6, <2>7
  <1> QED
    BY <1>1, BInvHolds, PTL
=============================================================================
