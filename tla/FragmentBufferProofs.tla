------------------------ MODULE FragmentBufferProofs ------------------------
(***************************************************************************)
(* Proofs about FragmentBuffer, for every set of sentences and every       *)
(* number of slots.  The inductive invariant is FBInv: the counter counts  *)
(* the held parts, each part sits in its slot, and a complete message that *)
(* is still there does not decode.  What strtok leaves of a sentence and   *)
(* what two payloads add up to is proved by induction, with SetInduction.  *)
(***************************************************************************)
EXTENDS FragmentBuffer, MessageLayoutProofs, SequenceTheorems,
        FiniteSetTheorems, TLAPS

PartsType == [Slots -> Parsed \cup {NoPart}]

SlotHoldsItsSeq(pp) == \A i \in Held(pp) : pp[i].seq = i + 1

FBInv == /\ TypeOK
         /\ ReceivedCountsParts
         /\ SlotHoldsItsSeq(parts)
         /\ NoCompleteMessageWaits

-----------------------------------------------------------------------------
(* What an accepted sentence gives                                         *)

\* The recursion of Starts on the first n fields.
Laying(f, s, n) == f = [k \in 1..n |-> IF k = 1 THEN 0
                                       ELSE f[k-1] + s[k-1].pay.len + 1]

\* It has a solution for every n.
LEMMA LayingExists ==
  ASSUME NEW s, NEW n \in Nat
  PROVE  \E f : Laying(f, s, n)
PROOF
  <1> DEFINE Solved == {m \in Nat : \E f : Laying(f, s, m)}
  <1>1. 0 \in Solved
    <2>1. Laying([k \in 1..0 |-> 0], s, 0)
      BY DEF Laying
    <2> QED
      BY <2>1
  <1>2. ASSUME NEW m \in Nat, m \in Solved
        PROVE  m + 1 \in Solved
    <2>1. PICK f : Laying(f, s, m)
      BY <1>2
    <2> DEFINE g == [k \in 1..m+1 |-> IF k <= m THEN f[k]
                                      ELSE IF k = 1 THEN 0
                                      ELSE f[m] + s[m].pay.len + 1]
    <2>2. \A k \in 1..m+1 :
            g[k] = IF k = 1 THEN 0 ELSE g[k-1] + s[k-1].pay.len + 1
      <3> TAKE k \in 1..m+1
      <3>1. CASE k = 1
        BY <3>1, <2>1 DEF Laying
      <3>2. CASE k \in 2..m
        BY <3>2, <2>1 DEF Laying
      <3>3. CASE k = m + 1 /\ k # 1
        BY <3>3
      <3> QED
        BY <3>1, <3>2, <3>3
    <2>3. Laying(g, s, m + 1)
      BY <2>2 DEF Laying
    <2> HIDE DEF g
    <2> QED
      BY <2>3
  <1> HIDE DEF Solved
  <1>3. n \in Solved
    BY <1>1, <1>2, SetInduction
  <1> QED
    BY <1>3 DEF Solved

\* A field starts behind the end of every field before it.
LEMMA StartsGrow ==
  ASSUME NEW s, IsSentence(s)
  PROVE  /\ \A k \in 1..Len(s) : Starts(s)[k] \in Nat
         /\ \A k \in 1..Len(s) : \A j \in 1..k-1 :
              Starts(s)[j] + s[j].pay.len + 1 <= Starts(s)[k]
PROOF
  <1> DEFINE L == Len(s)
             at == CHOOSE f : Laying(f, s, L)
             len(k) == s[k].pay.len
  <1>1. L \in Nat /\ DOMAIN s = 1..L /\ \A k \in 1..L : len(k) \in Nat
    BY DEF IsSentence, IsPayload
  <1>2. Laying(at, s, L)
    BY <1>1, LayingExists, Zenon
  <1>3. Starts(s) = at
    BY <1>1 DEF Starts, Laying
  <1> HIDE DEF at
  <1>4. \A k \in 1..L : at[k] = IF k = 1 THEN 0 ELSE at[k-1] + len(k-1) + 1
    BY <1>2 DEF Laying
  <1> DEFINE Right(k) == /\ at[k] \in Nat
                         /\ \A j \in 1..k-1 : /\ at[j] \in Nat
                                              /\ at[j] + len(j) + 1 <= at[k]
             S == {k \in Nat : k + 1 <= L => Right(k + 1)}
  <1> HIDE DEF len, L
  <1>5. 0 \in S
    BY <1>1, <1>4
  <1>6. ASSUME NEW k \in Nat, k \in S
        PROVE  k + 1 \in S
    <2> SUFFICES ASSUME k + 2 <= L
                 PROVE  Right(k + 2)
      <3>1. (k + 1) + 1 = k + 2
        OBVIOUS
      <3> HIDE DEF Right
      <3> QED
        BY <3>1
    <2>1. Right(k + 1)
      BY <1>1, <1>6
    <2>2. at[k+2] = at[k+1] + len(k+1) + 1 /\ len(k+1) \in Nat
      <3>1. k + 2 \in 1..L /\ k + 1 \in 1..L /\ k + 2 # 1 /\ (k + 2) - 1 = k + 1
        BY <1>1
      <3> QED
        BY <1>1, <1>4, <3>1
    <2>3. at[k+2] \in Nat
      BY <2>1, <2>2
    <2>4. ASSUME NEW j \in 1..(k+2)-1
          PROVE  at[j] \in Nat /\ at[j] + len(j) + 1 <= at[k+2]
      <3>1. CASE j = k + 1
        BY <2>1, <2>2, <3>1
      <3>2. CASE j \in 1..(k+1)-1
        <4>1. /\ at[j] \in Nat /\ at[k+1] \in Nat
              /\ at[j] + len(j) + 1 <= at[k+1]
          BY <2>1, <3>2
        <4>2. j \in 1..L
          BY <1>1, <3>2
        <4> DEFINE e == at[j] + len(j) + 1
        <4>3. e \in Int
          BY <1>1, <4>1, <4>2
        <4> HIDE DEF e
        <4> QED
          BY <2>2, <4>1, <4>3 DEF e
      <3> QED
        BY <3>1, <3>2
    <2> QED
      BY <2>3, <2>4
  <1> HIDE DEF S
  <1>7. \A k \in Nat : k \in S
    BY <1>5, <1>6, SetInduction
  <1>8. \A k \in 1..L : Right(k)
    <2> TAKE k \in 1..L
    <2>1. k - 1 \in Nat /\ (k - 1) + 1 = k /\ k <= L
      BY <1>1
    <2>2. k - 1 \in S
      BY <1>7, <2>1
    <2> HIDE DEF Right
    <2> QED
      BY <2>1, <2>2 DEF S
  <1> QED
    BY <1>3, <1>8 DEF L, len

\* A copied field keeps its number; its payload is what the cut leaves of it.
LEMMA CopiedKeeps ==
  ASSUME NEW s, IsSentence(s), NEW k \in 1..Len(s)
  PROVE  /\ Copied(s)[k].num = s[k].num
         /\ Copied(s)[k].pay
              = Prefix(s[k].pay, SentenceCap - Starts(s)[k])
PROOF
  <1>1. k \in DOMAIN s /\ DOMAIN s[k] = {"text", "num", "pay"}
    BY DEF IsSentence
  <1>2. Copied(s)[k]
          = [s[k] EXCEPT !.pay = Prefix(@, SentenceCap - Starts(s)[k])]
    BY <1>1 DEF Copied
  <1> QED
    BY <1>1, <1>2

\* A field with a token behind it was not cut, and is shorter than the cut by
\* the separator and that token at least.
LEMMA UncutIsWhole ==
  ASSUME NEW s, IsSentence(s), NEW k \in 1..Len(s), NEW m \in k+1..Len(s),
         Copied(s)[m].pay.len > 0
  PROVE  Copied(s)[k].pay = s[k].pay /\ s[k].pay.len + 2 <= SentenceCap
PROOF
  <1> DEFINE p == s[k].pay
             start == Starts(s)[k]
             next == Starts(s)[m]
             room == SentenceCap - start
  <1>1. m \in 1..Len(s) /\ k \in 1..m-1 /\ DOMAIN s = 1..Len(s)
    BY DEF IsSentence
  <1>2. IsPayload(p) /\ IsPayload(s[m].pay)
    BY <1>1 DEF IsSentence
  <1>3. start \in Nat /\ next \in Nat /\ start + p.len + 1 <= next
        /\ p.len \in Nat /\ SentenceCap \in Nat
    BY <1>1, <1>2, StartsGrow, CapsAssumption DEF IsPayload
  <1>4. SentenceCap - next > 0
    <2> SUFFICES ASSUME SentenceCap - next <= 0
                 PROVE  FALSE
      BY <1>3
    <2>1. Copied(s)[m].pay = EmptyPayload
      BY <1>1, CopiedKeeps DEF Prefix
    <2> QED
      BY <2>1 DEF EmptyPayload
  <1>5. Copied(s)[k].pay = Prefix(p, room)
    BY CopiedKeeps
  <1> HIDE DEF p, start, next, room
  <1>6. p.len + 2 <= SentenceCap /\ room \in Int /\ room > p.len
    BY <1>3, <1>4 DEF room
  <1>7. Prefix(p, room) = p
    <2>1. Min({p.len, room}) = p.len
      <3>1. \A y \in {p.len, room} : p.len <= y
        BY <1>3, <1>6
      <3>2. \A x \in {p.len, room} : (\A y \in {p.len, room} : x <= y) => x = p.len
        BY <1>3, <1>6
      <3> QED
        BY <3>1, <3>2, Zenon DEF Min
    <2>2. {b \in p.bad : b < room} = p.bad
      BY <1>2, <1>3, <1>6 DEF IsPayload
    <2>3. p = [type |-> p.type, len |-> p.len, bad |-> p.bad]
      BY <1>2 DEF IsPayload
    <2>4. ~(room <= 0)
      BY <1>3, <1>6
    <2> QED
      BY <2>1, <2>2, <2>3, <2>4, Zenon DEF Prefix
  <1> QED
    BY <1>5, <1>6, <1>7 DEF p

\* The loop of strtok, on the first n fields.
Keeping(f, s, n) ==
  f = [k \in 0..n |-> IF k = 0 THEN <<>>
                      ELSE IF Copied(s)[k].pay.len > 0 /\ Len(f[k-1]) < 10
                           THEN Append(f[k-1], Copied(s)[k])
                           ELSE f[k-1]]

\* It comes to an end for every n.
LEMMA KeepingExists ==
  ASSUME NEW s, NEW n \in Nat
  PROVE  \E f : Keeping(f, s, n)
PROOF
  <1> DEFINE Turn(t, k) == IF Copied(s)[k].pay.len > 0 /\ Len(t) < 10
                           THEN Append(t, Copied(s)[k])
                           ELSE t
             Solved == {m \in Nat : \E f : Keeping(f, s, m)}
  <1>1. 0 \in Solved
    <2>1. Keeping([k \in 0..0 |-> <<>>], s, 0)
      BY DEF Keeping
    <2> QED
      BY <2>1
  <1>2. ASSUME NEW m \in Nat, m \in Solved
        PROVE  m + 1 \in Solved
    <2>1. PICK f : Keeping(f, s, m)
      BY <1>2
    <2>2. f = [k \in 0..m |-> IF k = 0 THEN <<>> ELSE Turn(f[k-1], k)]
      BY <2>1 DEF Keeping
    <2> DEFINE g == [k \in 0..m+1 |-> IF k <= m THEN f[k] ELSE Turn(f[m], m+1)]
    <2>3. Keeping(g, s, m + 1) <=>
            g = [k \in 0..m+1 |-> IF k = 0 THEN <<>> ELSE Turn(g[k-1], k)]
      BY DEF Keeping
    <2> HIDE DEF Turn
    <2>4. \A k \in 0..m+1 : g[k] = IF k = 0 THEN <<>> ELSE Turn(g[k-1], k)
      <3> TAKE k \in 0..m+1
      <3>1. CASE k = 0
        BY <3>1, <2>2
      <3>2. CASE k \in 1..m
        BY <3>2, <2>2
      <3>3. CASE k = m + 1
        BY <3>3
      <3> QED
        BY <3>1, <3>2, <3>3
    <2>5. Keeping(g, s, m + 1)
      BY <2>3, <2>4
    <2> HIDE DEF g
    <2> QED
      BY <2>5
  <1> HIDE DEF Solved
  <1>3. n \in Solved
    BY <1>1, <1>2, SetInduction
  <1> QED
    BY <1>3 DEF Solved

\* Every token is a copied field, and each but the last has the field of
\* another token behind it.
LEMMA TokensAreFields ==
  ASSUME NEW s, IsSentence(s)
  PROVE  /\ Len(Tokens(s)) \in Nat
         /\ \A i \in 1..Len(Tokens(s)) : \E k \in 1..Len(s) :
              /\ Tokens(s)[i] = Copied(s)[k]
              /\ i < Len(Tokens(s)) =>
                   \E m \in k+1..Len(s) : Copied(s)[m].pay.len > 0
PROOF
  <1> DEFINE L == Len(s)
             c == Copied(s)
             Present(k) == c[k].pay.len > 0
             kept == CHOOSE f : Keeping(f, s, L)
  <1>1. L \in Nat
    BY DEF IsSentence
  <1>2. Keeping(kept, s, L)
    BY <1>1, KeepingExists, Zenon
  <1>3. Tokens(s) = kept[L]
    BY <1>1 DEF Tokens, Keeping
  <1> HIDE DEF kept
  <1>4. /\ kept[0] = <<>>
        /\ \A k \in 1..L : kept[k] = IF Present(k) /\ Len(kept[k-1]) < 10
                                     THEN Append(kept[k-1], c[k])
                                     ELSE kept[k-1]
    <2> DEFINE Turn(t, k) == IF Present(k) /\ Len(t) < 10
                             THEN Append(t, c[k]) ELSE t
    <2>1. kept = [k \in 0..L |-> IF k = 0 THEN <<>> ELSE Turn(kept[k-1], k)]
      BY <1>2 DEF Keeping
    <2>2. /\ kept[0] = <<>>
          /\ \A k \in 1..L : kept[k] = Turn(kept[k-1], k)
      <3> HIDE DEF Turn, L
      <3> QED
        BY <1>1, <2>1
    <2> HIDE DEF L, c, Present
    <2> QED
      BY <2>2
  <1> DEFINE Values == {c[k] : k \in 1..L}
             Right(n, t) ==
               /\ t \in Seq(Values)
               /\ \A i \in 1..Len(t) : \E k \in 1..n :
                    /\ t[i] = c[k]
                    /\ i < Len(t) => \E m \in k+1..n : Present(m)
             S == {n \in Nat : n <= L => Right(n, kept[n])}
  <1> HIDE DEF L, c, Present
  <1>5. 0 \in S
    <2> HIDE DEF Values
    <2>1. Right(0, <<>>)
      OBVIOUS
    <2> HIDE DEF Right
    <2> QED
      BY <1>4, <2>1
  <1>6. ASSUME NEW n \in Nat, n \in S
        PROVE  n + 1 \in S
    <2> SUFFICES ASSUME n + 1 <= L
                 PROVE  Right(n + 1, kept[n+1])
      <3> HIDE DEF Right
      <3> QED
        OBVIOUS
    <2> DEFINE t == kept[n]
    <2>1. Right(n, t)
      <3> HIDE DEF Right
      <3> QED
        BY <1>1, <1>6
    <2>2. kept[n+1] = IF Present(n + 1) /\ Len(t) < 10
                      THEN Append(t, c[n+1]) ELSE t
      <3>1. n + 1 \in 1..L /\ (n + 1) - 1 = n
        BY <1>1
      <3> QED
        BY <1>4, <3>1
    <2>3. c[n+1] \in Values
      BY <1>1
    <2> HIDE DEF t, Values
    <2>4. CASE Present(n + 1) /\ Len(t) < 10
      <3> DEFINE u == Append(t, c[n+1])
      <3>1. /\ u \in Seq(Values) /\ Len(u) = Len(t) + 1 /\ Len(t) \in Nat
            /\ \A i \in 1..Len(t) : u[i] = t[i]
            /\ u[Len(t)+1] = c[n+1]
        BY <2>1, <2>3
      <3> HIDE DEF u
      <3>2. ASSUME NEW i \in 1..Len(u)
            PROVE  \E k \in 1..n+1 :
                     /\ u[i] = c[k]
                     /\ i < Len(u) => \E m \in k+1..n+1 : Present(m)
        <4>1. CASE i \in 1..Len(t)
          <5>1. PICK k \in 1..n : t[i] = c[k]
            BY <2>1, <4>1
          <5>2. k \in 1..n+1 /\ n + 1 \in k+1..n+1 /\ u[i] = c[k]
            BY <3>1, <4>1, <5>1
          <5> QED
            BY <2>4, <5>2
        <4>2. CASE i = Len(t) + 1
          BY <3>1, <4>2
        <4> QED
          BY <3>1, <4>1, <4>2
      <3>3. kept[n+1] = u
        BY <2>2, <2>4 DEF u
      <3> QED
        BY <3>1, <3>2, <3>3
    <2>5. CASE ~(Present(n + 1) /\ Len(t) < 10)
      <3>1. kept[n+1] = t
        BY <2>2, <2>5
      <3>2. ASSUME NEW i \in 1..Len(t)
            PROVE  \E k \in 1..n+1 :
                     /\ t[i] = c[k]
                     /\ i < Len(t) => \E m \in k+1..n+1 : Present(m)
        <4>1. PICK k \in 1..n : /\ t[i] = c[k]
                                /\ i < Len(t) => \E m \in k+1..n : Present(m)
          BY <2>1
        <4>2. k \in 1..n+1 /\ \A m \in k+1..n : m \in k+1..n+1
          OBVIOUS
        <4> QED
          BY <4>1, <4>2
      <3> QED
        BY <2>1, <3>1, <3>2
    <2> QED
      BY <2>4, <2>5
  <1> HIDE DEF S, Right
  <1>7. L \in S
    BY <1>1, <1>5, <1>6, SetInduction
  <1>8. Right(L, Tokens(s))
    BY <1>1, <1>3, <1>7 DEF S
  <1> QED
    BY <1>1, <1>8 DEF Right, L, c, Present

\* What a parsed fragment is: two ints, and a payload that is a whole field of
\* its sentence and leaves room for what is behind it.
LEMMA ParsedFragments ==
  ASSUME NEW f \in Parsed
  PROVE  /\ f.total \in Int /\ f.seq \in Int
         /\ \E s \in Sentences : \E k \in DOMAIN s : f.payload = s[k].pay
         /\ f.payload.len \in Nat /\ f.payload.len + 2 <= SentenceCap
PROOF
  <1>1. PICK s \in Sentences : f = parse_ais_fragment(s) /\ f # Malformed
    BY DEF Parsed, Fragment
  <1> DEFINE t == Tokens(s)
  <1>2. IsSentence(s)
    BY SentencesAssumption
  <1>3. /\ Len(t) \in Nat
        /\ \A i \in 1..Len(t) : \E k \in 1..Len(s) :
             /\ t[i] = Copied(s)[k]
             /\ i < Len(t) =>
                  \E m \in k+1..Len(s) : Copied(s)[m].pay.len > 0
    BY <1>2, TokensAreFields
  <1> HIDE DEF t
  <1>4. ~(Len(t) < 7)
        /\ f = [total      |-> t[2].num,
                seq        |-> t[3].num,
                message_id |-> IF t[4].pay.len < 9 THEN t[4].text ELSE "",
                payload    |-> t[6].pay]
    BY <1>1, Zenon DEF parse_ais_fragment, t
  <1>5. f.total = t[2].num /\ f.seq = t[3].num /\ f.payload = t[6].pay
    BY <1>4
  <1>6. 2 \in 1..Len(t) /\ 3 \in 1..Len(t) /\ 6 \in 1..Len(t) /\ 6 < Len(t)
    <2>1. Len(t) \in Nat /\ ~(Len(t) < 7)
      BY <1>3, <1>4, Zenon
    <2> QED
      BY <2>1
  <1>7. \A i \in 1..Len(t) : t[i].num \in Int
    <2> TAKE i \in 1..Len(t)
    <2>1. PICK k \in 1..Len(s) : t[i] = Copied(s)[k]
      BY <1>3
    <2>2. s[k].num \in Int
      BY <1>2 DEF IsSentence
    <2> QED
      BY <1>2, <2>1, <2>2, CopiedKeeps
  <1>8. PICK k \in 1..Len(s) :
          /\ t[6] = Copied(s)[k]
          /\ \E m \in k+1..Len(s) : Copied(s)[m].pay.len > 0
    BY <1>3, <1>6
  <1>9. t[6].pay = s[k].pay /\ s[k].pay.len + 2 <= SentenceCap
    BY <1>2, <1>8, UncutIsWhole
  <1>10. k \in DOMAIN s /\ s[k].pay.len \in Nat
    BY <1>2 DEF IsSentence, IsPayload
  <1> QED
    BY <1>5, <1>6, <1>7, <1>9, <1>10

-----------------------------------------------------------------------------
(* The slots                                                               *)

\* The slots are finitely many, so are the held ones, and 0 is one of them.
LEMMA SlotsAreFinite ==
  /\ 0 \in Slots
  /\ IsFiniteSet(Slots)
  /\ Cardinality(Slots) = MaxParts
<1>1. 0 \in 0..MaxParts-1 /\ MaxParts \in Nat
  BY SizesAssumption
<1>2. /\ IsFiniteSet(0..MaxParts-1)
      /\ Cardinality(0..MaxParts-1) = MaxParts
  BY <1>1, FS_Interval
<1> QED
  BY <1>1, <1>2 DEF Slots

\* At most MaxParts parts are held.
LEMMA HeldIsFinite ==
  ASSUME NEW pp
  PROVE  /\ IsFiniteSet(Held(pp))
         /\ Cardinality(Held(pp)) \in 0..MaxParts
<1>1. Held(pp) \subseteq Slots
  BY DEF Held
<1>2. IsFiniteSet(Held(pp)) /\ Cardinality(Held(pp)) <= MaxParts
  BY <1>1, SlotsAreFinite, FS_Subset
<1>3. Cardinality(Held(pp)) \in Nat
  BY <1>2, FS_CardinalityType
<1> QED
  BY <1>2, <1>3, SizesAssumption

\* An empty buffer holds nothing and nothing in it is complete.
LEMMA NoPartsIsEmpty ==
  /\ NoParts \in PartsType
  /\ Held(NoParts) = {}
  /\ Cardinality(Held(NoParts)) = 0
  /\ ~Complete(NoParts)
<1>1. Held(NoParts) = {}
  BY DEF Held, NoParts
<1>2. NoParts[0] = NoPart
  BY SlotsAreFinite DEF NoParts
<1> QED
  BY <1>1, <1>2, FS_EmptySet DEF NoParts, PartsType, Complete

\* A held part is a parsed fragment, with int fields.
LEMMA HeldIsParsed ==
  ASSUME NEW pp \in PartsType, NEW i \in Slots, pp[i] # NoPart
  PROVE  pp[i] \in Parsed /\ pp[i].total \in Int /\ pp[i].seq \in Int
BY ParsedFragments DEF PartsType

\* Storing a fragment adds its slot to the held ones and touches no other.
LEMMA StoringAddsOne ==
  ASSUME NEW s \in Sentences, parts \in PartsType, Stores(s)
  PROVE  /\ Slot(s) \in Slots
         /\ Fragment[s] \in Parsed
         /\ With(s) \in PartsType
         /\ With(s)[Slot(s)] = Fragment[s]
         /\ \A i \in Slots : i # Slot(s) => With(s)[i] = parts[i]
         /\ Held(With(s)) = Held(parts) \cup {Slot(s)}
         /\ Cardinality(Held(With(s))) = Cardinality(Held(parts)) + 1
<1>1. Fragment[s] \in Parsed /\ Fragment[s] # NoPart
  BY NoPartAssumption DEF Parsed, Stores, Accepts
<1>2. Slot(s) \in Slots /\ parts[Slot(s)] = NoPart
  BY DEF Stores
<1>3. /\ With(s) \in PartsType
      /\ With(s)[Slot(s)] = Fragment[s]
      /\ \A i \in Slots : i # Slot(s) => With(s)[i] = parts[i]
  BY <1>1, <1>2 DEF With, PartsType
<1>4. Held(With(s)) = Held(parts) \cup {Slot(s)}
  BY <1>1, <1>2, <1>3 DEF Held
<1>5. Slot(s) \notin Held(parts)
  BY <1>2 DEF Held
<1>6. Cardinality(Held(With(s))) = Cardinality(Held(parts)) + 1
  BY <1>4, <1>5, HeldIsFinite, FS_AddElement
<1> QED
  BY <1>1, <1>2, <1>3, <1>4, <1>6

\* A complete message has as many held parts as its head announces.
LEMMA CompleteIsCounted ==
  ASSUME NEW pp \in PartsType, Complete(pp)
  PROVE  pp[0].total <= Cardinality(Held(pp))
<1>1. pp[0].total \in Int /\ pp[0].total <= MaxParts
  BY HeldIsParsed, SlotsAreFinite DEF Complete
<1>2. CASE pp[0].total <= 0
  BY <1>1, <1>2, HeldIsFinite
<1>3. CASE pp[0].total > 0
  <2>1. 0..pp[0].total-1 \subseteq Held(pp)
    BY <1>1, <1>3, SizesAssumption DEF Complete, Held, Slots
  <2>2. Cardinality(0..pp[0].total-1) = pp[0].total
    <3> DEFINE last == pp[0].total - 1
    <3>1. last \in Int /\ 0 <= last
      BY <1>1, <1>3
    <3> HIDE DEF last
    <3>2. Cardinality(0..last) = last - 0 + 1
      BY <3>1, FS_Interval
    <3>3. last - 0 + 1 = pp[0].total
      BY <1>1 DEF last
    <3> QED
      BY <3>2, <3>3 DEF last
  <2>3. Cardinality(0..pp[0].total-1) <= Cardinality(Held(pp))
    BY <2>1, HeldIsFinite, FS_Subset
  <2> QED
    BY <2>2, <2>3
<1> QED
  BY <1>1, <1>2, <1>3

\* try_reassemble joins exactly when the message is complete.
LEMMA ReadyIsComplete ==
  ASSUME NEW pp \in PartsType
  PROVE  Ready(pp, Cardinality(Held(pp))) <=> Complete(pp)
<1>1. ASSUME pp[0] # NoPart  PROVE  pp[0].total \in Int
  BY <1>1, HeldIsParsed, SlotsAreFinite
<1>2. Cardinality(Held(pp)) \in 0..MaxParts
  BY HeldIsFinite
<1>3. ASSUME Ready(pp, Cardinality(Held(pp)))  PROVE  Complete(pp)
  BY <1>1, <1>2, <1>3, SizesAssumption DEF Ready, HeadMissing, Complete
<1>4. ASSUME Complete(pp)  PROVE  Ready(pp, Cardinality(Held(pp)))
  BY <1>4, CompleteIsCounted DEF Ready, HeadMissing, Complete
<1> QED
  BY <1>3, <1>4

\* A head with a total below 1 joins nothing, and nothing does not decode.
LEMMA EmptyRunFails ==
  ASSUME NEW pp, pp[0].total \in Int, Decodes(pp)
  PROVE  pp[0].total >= 1
<1> SUFFICES ASSUME pp[0].total < 1  PROVE FALSE
  OBVIOUS
<1>1. Run(pp) = <<>>
  BY DEF Run
<1>2. Concatenation(Run(pp)) = EmptyPayload
  BY <1>1 DEF Concatenation
<1>3. Joined(Run(pp)).len = 0
  <2>1. CASE PayloadCap <= 0
    BY <1>2, <2>1 DEF Joined, Prefix, EmptyPayload
  <2>2. CASE ~(PayloadCap <= 0)
    <3>1. Joined(Run(pp)).len = Min({0, PayloadCap})
      BY <1>2, <2>2 DEF Joined, Prefix, EmptyPayload
    <3>2. Min({0, PayloadCap}) = 0
      BY <2>2, SizesAssumption DEF Min
    <3> QED
      BY <3>1, <3>2
  <2> QED
    BY <2>1, <2>2
<1>4. ~HasType(Joined(Run(pp)))
  BY <1>3 DEF HasType
<1>5. Decode(Joined(Run(pp))) = "PARSE_ERROR"
  BY <1>4 DEF Decode
<1> QED
  BY <1>5 DEF Decodes

-----------------------------------------------------------------------------
(* The inductive invariant                                                 *)

\* A new backend's buffer satisfies FBInv.
LEMMA InitEstablishesFBInv == Init => FBInv
<1> SUFFICES ASSUME Init PROVE FBInv
  OBVIOUS
<1>1. TypeOK
  BY NoPartsIsEmpty, SizesAssumption DEF Init, TypeOK, NoReply, PartsType
<1>2. ReceivedCountsParts /\ SlotHoldsItsSeq(parts)
  BY NoPartsIsEmpty DEF Init, ReceivedCountsParts, SlotHoldsItsSeq
<1>3. NoCompleteMessageWaits
  BY NoPartsIsEmpty DEF Init, NoCompleteMessageWaits
<1> QED
  BY <1>1, <1>2, <1>3 DEF FBInv

\* The calls that store a part and keep the buffer preserve all of FBInv but
\* its last conjunct, which depends on how the call ended.
LEMMA StoringPreserves ==
  ASSUME NEW s \in Sentences, FBInv, Stores(s),
         parts' = With(s), received' = received + 1, reply' = Null
  PROVE  /\ TypeOK' /\ ReceivedCountsParts' /\ SlotHoldsItsSeq(parts)'
         /\ parts' \in PartsType
         /\ received' = Cardinality(Held(parts'))
<1>1. parts \in PartsType /\ received = Cardinality(Held(parts))
  BY DEF FBInv, TypeOK, PartsType, ReceivedCountsParts
<1>2. parts' \in PartsType
  BY <1>1, StoringAddsOne
<1>3. received' = Cardinality(Held(parts'))
  BY <1>1, StoringAddsOne
<1>4. received' \in 0..MaxParts
  BY <1>3, HeldIsFinite
<1>5. reply'.kind = "null"
  BY DEF Null
<1>6. SlotHoldsItsSeq(With(s))
  <2> SUFFICES ASSUME NEW i \in Held(With(s))  PROVE  With(s)[i].seq = i + 1
    BY DEF SlotHoldsItsSeq
  <2>1. CASE i = Slot(s)
    <3>1. Fragment[s].seq \in Int
      BY <1>1, StoringAddsOne, ParsedFragments
    <3> QED
      BY <1>1, <2>1, <3>1, StoringAddsOne DEF Slot
  <2>2. CASE i # Slot(s)
    BY <1>1, <2>2, StoringAddsOne DEF FBInv, SlotHoldsItsSeq, Held
  <2> QED
    BY <2>1, <2>2
<1> QED
  BY <1>2, <1>3, <1>4, <1>5, <1>6
     DEF TypeOK, ReceivedCountsParts, SlotHoldsItsSeq, Held, PartsType

\* An emptied buffer satisfies FBInv whatever the reply.
LEMMA EmptyingPreserves ==
  ASSUME parts' = NoParts, received' = 0,
         reply'.kind \in {"none", "null", "json", "error", "crash"}
  PROVE  FBInv'
<1>1. TypeOK'
  BY NoPartsIsEmpty, SizesAssumption DEF TypeOK, PartsType
<1>2. ReceivedCountsParts' /\ (SlotHoldsItsSeq(parts))' /\ NoCompleteMessageWaits'
  BY NoPartsIsEmpty
     DEF ReceivedCountsParts, SlotHoldsItsSeq, NoCompleteMessageWaits
<1> QED
  BY <1>1, <1>2 DEF FBInv

\* A reply with the run it was made from is JSON or an ERROR.
LEMMA RepliesAreTyped ==
  ASSUME NEW run, NEW r \in Replies(run)
  PROVE  r.kind \in {"json", "error"} /\ r.from = run
BY DEF Replies, Json, Error

\* Every call, and the end of the backend, preserves FBInv.
LEMMA NextPreservesFBInv == FBInv /\ [Next]_vars => FBInv'
<1> SUFFICES ASSUME FBInv, [Next]_vars  PROVE  FBInv'
  OBVIOUS
<1>1. ASSUME NEW s \in Sentences, Refuse(s)  PROVE  FBInv'
  BY <1>1 DEF Refuse, Null, FBInv, TypeOK, ReceivedCountsParts,
              SlotHoldsItsSeq, NoCompleteMessageWaits
<1>2. ASSUME NEW s \in Sentences, SlotTaken(s)  PROVE  FBInv'
  BY <1>2 DEF SlotTaken, Null, FBInv, TypeOK, ReceivedCountsParts,
              SlotHoldsItsSeq, NoCompleteMessageWaits
<1>3. ASSUME NEW s \in Sentences, Hold(s)  PROVE  FBInv'
  <2>1. /\ TypeOK' /\ ReceivedCountsParts' /\ SlotHoldsItsSeq(parts)'
        /\ parts' \in PartsType
        /\ received' = Cardinality(Held(parts'))
    BY <1>3, StoringPreserves DEF Hold
  <2>2. ~Ready(parts', received')
    BY <1>3 DEF Hold
  <2>3. ~Complete(parts')
    BY <2>1, <2>2, ReadyIsComplete
  <2> QED
    BY <2>1, <2>3 DEF FBInv, NoCompleteMessageWaits
<1>4. ASSUME NEW s \in Sentences, Undecodable(s)  PROVE  FBInv'
  <2>1. TypeOK' /\ ReceivedCountsParts' /\ SlotHoldsItsSeq(parts)'
    BY <1>4, StoringPreserves DEF Undecodable
  <2>2. ~Decodes(parts')
    BY <1>4 DEF Undecodable
  <2> QED
    BY <2>1, <2>2 DEF FBInv, NoCompleteMessageWaits
<1>5. ASSUME NEW s \in Sentences, Deliver(s)  PROVE  FBInv'
  BY <1>5, RepliesAreTyped, EmptyingPreserves DEF Deliver
<1>6. ASSUME NEW s \in Sentences, Abort(s)  PROVE  FBInv'
  BY <1>6, EmptyingPreserves DEF Abort, Crash
<1>7. ASSUME EndSession  PROVE  FBInv'
  BY <1>7, EmptyingPreserves DEF EndSession, NoReply
<1>8. ASSUME UNCHANGED vars  PROVE  FBInv'
  BY <1>8 DEF vars, FBInv, TypeOK, ReceivedCountsParts,
              SlotHoldsItsSeq, NoCompleteMessageWaits
<1> QED
  BY <1>1, <1>2, <1>3, <1>4, <1>5, <1>6, <1>7, <1>8 DEF Next, Parse

\* FBInv holds in every state of the backend.
THEOREM Invariance == Spec => []FBInv
BY InitEstablishesFBInv, NextPreservesFBInv, PTL DEF Spec

\* The buffer stays well typed, and received within MAX_PARTS.
THEOREM TypeCorrect == Spec => []TypeOK
<1>1. FBInv => TypeOK
  BY DEF FBInv
<1> QED
  BY <1>1, Invariance, PTL

\* received is the number of slots in use, in every state.
THEOREM CountIsExact == Spec => []ReceivedCountsParts
<1>1. FBInv => ReceivedCountsParts
  BY DEF FBInv
<1> QED
  BY <1>1, Invariance, PTL

\* A message whose parts are all in the buffer has been tried, and failed.
THEOREM NothingCompleteWaits == Spec => []NoCompleteMessageWaits
<1>1. FBInv => NoCompleteMessageWaits
  BY DEF FBInv
<1> QED
  BY <1>1, Invariance, PTL

\* The loops of try_reassemble index parts[] within its bounds.
THEOREM IndicesInBounds == Spec => []LoopsStayInside
<1>1. FBInv => LoopsStayInside
  <2> SUFFICES ASSUME FBInv, parts[0] # NoPart, received >= parts[0].total
               PROVE  parts[0].total <= MaxParts
    BY DEF LoopsStayInside
  <2>1. parts \in PartsType /\ received \in 0..MaxParts
    BY DEF FBInv, TypeOK, PartsType
  <2>2. parts[0].total \in Int
    BY <2>1, HeldIsParsed, SlotsAreFinite
  <2> QED
    BY <2>1, <2>2, SizesAssumption
<1> QED
  BY <1>1, Invariance, PTL

-----------------------------------------------------------------------------
(* Delivered messages                                                      *)

\* What a reply was made from, as an invariant of its own: DeliveredInSequence.
LEMMA NextDeliversInSequence ==
  FBInv /\ DeliveredInSequence /\ [Next]_vars => DeliveredInSequence'
<1> SUFFICES ASSUME FBInv, DeliveredInSequence, [Next]_vars
             PROVE  DeliveredInSequence'
  OBVIOUS
<1>1. ASSUME NEW s \in Sentences, Deliver(s)  PROVE  DeliveredInSequence'
  <2> DEFINE run == Run(With(s))
             total == With(s)[0].total
  <2>1. parts \in PartsType /\ received = Cardinality(Held(parts))
    BY DEF FBInv, TypeOK, PartsType, ReceivedCountsParts
  <2>2. Stores(s) /\ Ready(With(s), received + 1) /\ Decodes(With(s))
    BY <1>1 DEF Deliver
  <2>3. With(s) \in PartsType /\ Complete(With(s))
    BY <2>1, <2>2, StoringAddsOne, ReadyIsComplete
  <2>4. total \in Int /\ With(s)[0] # NoPart /\ total <= MaxParts
    BY <2>3, HeldIsParsed, SlotsAreFinite DEF Complete
  <2>5. total >= 1
    BY <2>2, <2>4, EmptyRunFails
  <2>6. SlotHoldsItsSeq(With(s))
    <3>1. Fragment[s].seq \in Int
      BY <2>1, <2>2, StoringAddsOne, ParsedFragments
    <3> SUFFICES ASSUME NEW i \in Held(With(s))  PROVE  With(s)[i].seq = i + 1
      BY DEF SlotHoldsItsSeq
    <3>2. CASE i = Slot(s)
      BY <2>1, <2>2, <3>1, <3>2, StoringAddsOne DEF Slot
    <3>3. CASE i # Slot(s)
      BY <2>1, <2>2, <3>3, StoringAddsOne DEF FBInv, SlotHoldsItsSeq, Held
    <3> QED
      BY <3>2, <3>3
  <2>7. /\ DOMAIN run = 1..total
        /\ \A i \in 1..total : run[i] = With(s)[i-1]
    BY DEF Run
  <2>8. \A i \in 1..total : run[i].seq = i
    <3> SUFFICES ASSUME NEW i \in 1..total  PROVE  run[i].seq = i
      OBVIOUS
    <3>1. i - 1 \in Held(With(s))
      BY <2>3, <2>4, SizesAssumption DEF Complete, Held, Slots
    <3> QED
      BY <2>4, <2>6, <2>7, <3>1 DEF SlotHoldsItsSeq
  <2>9. run # <<>> /\ run[1].total = total
    BY <2>4, <2>5, <2>7
  <2>10. Len(run) = total
    BY <2>4, <2>5, <2>7
  <2>11. reply'.from = run
    BY <1>1, RepliesAreTyped DEF Deliver
  <2> HIDE DEF run, total
  <2> QED
    BY <2>7, <2>8, <2>9, <2>10, <2>11 DEF DeliveredInSequence
<1>2. ASSUME NEW s \in Sentences, Refuse(s) \/ SlotTaken(s) \/ Hold(s) \/ Undecodable(s)
      PROVE  DeliveredInSequence'
  BY <1>2 DEF Refuse, SlotTaken, Hold, Undecodable, Null, DeliveredInSequence
<1>3. ASSUME NEW s \in Sentences, Abort(s)  PROVE  DeliveredInSequence'
  BY <1>3 DEF Abort, Crash, DeliveredInSequence
<1>4. ASSUME EndSession  PROVE  DeliveredInSequence'
  BY <1>4 DEF EndSession, NoReply, DeliveredInSequence
<1>5. ASSUME UNCHANGED vars  PROVE  DeliveredInSequence'
  BY <1>5 DEF vars, DeliveredInSequence
<1> QED
  BY <1>1, <1>2, <1>3, <1>4, <1>5 DEF Next, Parse

\* A delivered message is parts 1..total of its head, each in its place.
THEOREM DeliveriesAreInSequence == Spec => []DeliveredInSequence
<1>1. Init => DeliveredInSequence
  BY DEF Init, NoReply, DeliveredInSequence
<1> QED
  BY <1>1, NextDeliversInSequence, Invariance, PTL DEF Spec

-----------------------------------------------------------------------------
(* Whole payloads                                                          *)

\* No payload is shortened by the limit on a sentence: every held part has a
\* whole field of some sentence.
THEOREM PayloadsAreWholeFields == Spec => []PayloadIsWholeField
<1>1. FBInv => PayloadIsWholeField
  <2> SUFFICES ASSUME FBInv, NEW i \in Held(parts)
               PROVE  \E s \in Sentences : \E k \in DOMAIN s :
                        parts[i].payload = s[k].pay
    BY DEF PayloadIsWholeField
  <2>1. parts \in PartsType /\ i \in Slots /\ parts[i] # NoPart
    BY DEF FBInv, TypeOK, PartsType, Held
  <2>2. parts[i] \in Parsed
    BY <2>1, HeldIsParsed
  <2> QED
    BY <2>2, ParsedFragments
<1> QED
  BY <1>1, Invariance, PTL

\* Two payloads that each fit a sentence fit full_payload together.
LEMMA PairFits ==
  ASSUME NEW run, DOMAIN run = 1..2, Len(run) = 2,
         run[1] \in Parsed, run[2] \in Parsed
  PROVE  JoinedWhole(run)
<1> DEFINE a == run[1].payload.len
           b == run[2].payload.len
           Summing(f) == f = [k \in 0..2 |-> IF k = 0 THEN 0
                                ELSE f[k-1] + run[k].payload.len]
           sum == CHOOSE f : Summing(f)
<1>1. a \in Nat /\ b \in Nat /\ a + 2 <= SentenceCap /\ b + 2 <= SentenceCap
  BY ParsedFragments
<1>2. Length(run) = a + b
  <2> DEFINE g == [k \in 0..2 |-> IF k = 0 THEN 0
                                  ELSE IF k = 1 THEN 0 + a ELSE (0 + a) + b]
  <2>1. \A k \in 0..2 : g[k] = IF k = 0 THEN 0 ELSE g[k-1] + run[k].payload.len
    <3> HIDE DEF a, b
    <3>1. g[0] = 0 /\ g[1] = g[0] + a /\ g[2] = g[1] + b
      OBVIOUS
    <3>2. \A k \in 0..2 : k = 0 \/ (k = 1 /\ k - 1 = 0) \/ (k = 2 /\ k - 1 = 1)
      OBVIOUS
    <3> HIDE DEF g
    <3> QED
      BY <3>1, <3>2 DEF a, b
  <2>2. Summing(g)
    <3>1. g = [k \in 0..2 |-> g[k]]
      OBVIOUS
    <3> HIDE DEF g
    <3> QED
      BY <2>1, <3>1
  <2> HIDE DEF g
  <2>3. Summing(sum)
    <3> HIDE DEF Summing
    <3> QED
      BY <2>2, Zenon
  <2>4. Length(run) = sum[2]
    BY DEF Length
  <2> HIDE DEF sum
  <2>5. sum[0] = 0 /\ sum[1] = sum[0] + a /\ sum[2] = sum[1] + b
    <3>1. \A k \in 0..2 : sum[k] = IF k = 0 THEN 0
                                   ELSE sum[k-1] + run[k].payload.len
      BY <2>3
    <3>2. 0 \in 0..2 /\ 1 \in 0..2 /\ 2 \in 0..2 /\ 1 - 1 = 0 /\ 2 - 1 = 1
      OBVIOUS
    <3> QED
      BY <3>1, <3>2
  <2> HIDE DEF a, b
  <2> QED
    BY <1>1, <2>4, <2>5
<1> HIDE DEF a, b
<1>3. a + b \in Nat /\ PayloadCap \in Nat /\ PayloadCap > 0 /\ a + b <= PayloadCap
  BY <1>1, CapsAssumption, SizesAssumption
<1>4. Min({a + b, PayloadCap}) = a + b
  <2> DEFINE n == a + b
  <2> HIDE DEF n
  <2>1. \A y \in {n, PayloadCap} : n <= y
    BY <1>3 DEF n
  <2>2. \A x \in {n, PayloadCap} : (\A y \in {n, PayloadCap} : x <= y) => x = n
    BY <1>3 DEF n
  <2>3. Min({n, PayloadCap}) = n
    BY <2>1, <2>2, Zenon DEF Min
  <2> QED
    BY <2>3 DEF n
<1>5. Concatenation(run).len = Length(run)
  <2>1. run # <<>>
    OBVIOUS
  <2> QED
    BY <2>1 DEF Concatenation
<1>6. Joined(run).len = Min({Concatenation(run).len, PayloadCap})
  BY <1>3 DEF Joined, Prefix
<1> QED
  BY <1>2, <1>4, <1>5, <1>6 DEF JoinedWhole

\* No step replies with a pair that was cut off.
LEMMA NextJoinsPairs ==
  FBInv /\ PairsJoinWhole /\ [Next]_vars => PairsJoinWhole'
<1> SUFFICES ASSUME FBInv, PairsJoinWhole, [Next]_vars
             PROVE  PairsJoinWhole'
  OBVIOUS
<1>1. ASSUME NEW s \in Sentences, Deliver(s)  PROVE  PairsJoinWhole'
  <2> DEFINE run == Run(With(s))
             total == With(s)[0].total
  <2>1. parts \in PartsType /\ received = Cardinality(Held(parts))
    BY DEF FBInv, TypeOK, PartsType, ReceivedCountsParts
  <2>2. Stores(s) /\ Ready(With(s), received + 1)
    BY <1>1 DEF Deliver
  <2>3. With(s) \in PartsType /\ Complete(With(s))
    BY <2>1, <2>2, StoringAddsOne, ReadyIsComplete
  <2>4. total \in Int /\ total <= MaxParts
    BY <2>3, HeldIsParsed, SlotsAreFinite DEF Complete
  <2>5. reply'.from = run
    BY <1>1, RepliesAreTyped DEF Deliver
  <2>6. /\ DOMAIN run = 1..total
        /\ \A i \in 1..total : run[i] = With(s)[i-1]
    BY DEF Run
  <2> SUFFICES ASSUME Len(run) = 2
               PROVE  JoinedWhole(run)
    BY <2>5 DEF PairsJoinWhole
  <2>7. total = 2
    BY <2>4, <2>6
  <2>8. \A i \in 1..2 : run[i] \in Parsed
    <3> TAKE i \in 1..2
    <3>1. i - 1 \in Slots /\ With(s)[i-1] # NoPart
      BY <2>3, <2>4, <2>7, SizesAssumption DEF Complete, Slots
    <3> QED
      BY <2>3, <2>6, <2>7, <3>1, HeldIsParsed
  <2> HIDE DEF run
  <2> QED
    BY <2>6, <2>7, <2>8, PairFits
<1>2. ASSUME NEW s \in Sentences, Refuse(s) \/ SlotTaken(s) \/ Hold(s) \/ Undecodable(s)
      PROVE  PairsJoinWhole'
  BY <1>2 DEF Refuse, SlotTaken, Hold, Undecodable, Null, PairsJoinWhole
<1>3. ASSUME NEW s \in Sentences, Abort(s)  PROVE  PairsJoinWhole'
  BY <1>3 DEF Abort, Crash, PairsJoinWhole
<1>4. ASSUME EndSession  PROVE  PairsJoinWhole'
  BY <1>4 DEF EndSession, NoReply, PairsJoinWhole
<1>5. ASSUME UNCHANGED vars  PROVE  PairsJoinWhole'
  BY <1>5 DEF vars, PairsJoinWhole
<1> QED
  BY <1>1, <1>2, <1>3, <1>4, <1>5 DEF Next, Parse

\* A pair is always joined whole: the limits of a sentence and of full_payload
\* leave room for two payloads, whatever the sentences are.
THEOREM PairsAlwaysJoinWhole == Spec => []PairsJoinWhole
<1>1. Init => PairsJoinWhole
  BY DEF Init, NoReply, PairsJoinWhole
<1> QED
  BY <1>1, NextJoinsPairs, Invariance, PTL DEF Spec

-----------------------------------------------------------------------------
(* A stuck head                                                            *)

\* A fragment that is stored beside a stuck head leaves it stuck.
LEMMA StoringKeepsStuck ==
  ASSUME NEW s \in Sentences, parts \in PartsType, Stores(s), Stuck(parts)
  PROVE  Stuck(With(s))
<1>1. parts[0] # NoPart
  BY DEF Stuck, Complete
<1>2. Slot(s) # 0 /\ With(s)[0] = parts[0]
  BY <1>1, StoringAddsOne, SlotsAreFinite DEF Stores
<1>3. CASE parts[0].total > MaxParts
  BY <1>1, <1>2, <1>3 DEF Stuck
<1>4. CASE Complete(parts) /\ ~Decodes(parts)
  <2> DEFINE total == parts[0].total
  <2>1. total \in Int /\ total <= MaxParts
    BY <1>1, <1>4, HeldIsParsed, SlotsAreFinite DEF Complete
  <2>2. \A i \in 0..total-1 : i \in Slots /\ parts[i] # NoPart
    BY <1>4, <2>1, SizesAssumption DEF Complete, Slots
  <2>3. \A i \in 0..total-1 : With(s)[i] = parts[i]
    BY <2>2, StoringAddsOne DEF Stores
  <2>4. Complete(With(s))
    BY <1>1, <1>2, <2>1, <2>2, <2>3 DEF Complete
  <2>5. Run(With(s)) = Run(parts)
    <3>1. \A i \in 1..total : With(s)[i-1] = parts[i-1]
      BY <2>1, <2>3
    <3> QED
      BY <1>2, <3>1 DEF Run
  <2> QED
    BY <1>4, <2>4, <2>5 DEF Stuck, Decodes
<1> QED
  BY <1>3, <1>4 DEF Stuck

\* One call on a buffer with a stuck head answers NULL and leaves it stuck.
LEMMA StuckStep ==
  ASSUME FBInv, [Next]_vars, Stuck(parts)
  PROVE  \/ Stuck(parts') /\ reply'.kind = "null"
         \/ reply'.kind \in {"none", "crash"}
         \/ UNCHANGED vars
<1>0. parts \in PartsType /\ received = Cardinality(Held(parts))
  BY DEF FBInv, TypeOK, PartsType, ReceivedCountsParts
<1>1. ASSUME NEW s \in Sentences, Refuse(s) \/ SlotTaken(s)
      PROVE  Stuck(parts') /\ reply'.kind = "null"
  BY <1>1 DEF Refuse, SlotTaken, Null
<1>2. ASSUME NEW s \in Sentences, Hold(s) \/ Undecodable(s)
      PROVE  Stuck(parts') /\ reply'.kind = "null"
  <2>1. Stores(s) /\ parts' = With(s) /\ reply' = Null
    BY <1>2 DEF Hold, Undecodable
  <2> QED
    BY <1>0, <2>1, StoringKeepsStuck DEF Null
<1>3. ASSUME NEW s \in Sentences, Deliver(s)  PROVE FALSE
  <2>1. Stores(s) /\ Ready(With(s), received + 1) /\ Decodes(With(s))
    BY <1>3 DEF Deliver
  <2>2. With(s) \in PartsType /\ Complete(With(s))
    BY <1>0, <2>1, StoringAddsOne, ReadyIsComplete
  <2>3. With(s)[0].total \in Int
    BY <2>2, HeldIsParsed, SlotsAreFinite DEF Complete
  <2> QED
    BY <1>0, <2>1, <2>2, <2>3, StoringKeepsStuck, SizesAssumption
       DEF Stuck, Complete
<1>4. ASSUME NEW s \in Sentences, Abort(s)  PROVE  reply'.kind = "crash"
  BY <1>4 DEF Abort, Crash
<1>5. ASSUME EndSession  PROVE  reply'.kind = "none"
  BY <1>5 DEF EndSession, NoReply
<1> QED
  BY <1>1, <1>2, <1>3, <1>4, <1>5 DEF Next, Parse

\* Once the head is stuck, every call returns NULL until the backend ends.
THEOREM StuckForTheSession == Spec => StuckStaysStuck
<1>1. FBInv /\ [Next]_vars =>
        [Stuck(parts) => \/ Stuck(parts') /\ reply'.kind = "null"
                         \/ reply'.kind \in {"none", "crash"}]_vars
  BY StuckStep
<1> QED
  BY <1>1, Invariance, PTL DEF Spec, StuckStaysStuck
=============================================================================
