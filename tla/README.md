# pg_ais in TLA+

pg_ais is a PostgreSQL extension in C that decodes AIS messages: NMEA 0183
sentences (`!AIVDM,...`) come in through SQL functions, multipart messages are
put together across calls, the 6-bit payload is decoded, and the fields come
out as JSON or through accessors. This directory models the extension in TLA+,
model-checks the models with TLC and proves theorems about seven of them with
TLAPS: every invariant that the passing runs check is also a theorem, for all
values of the constants.

Contents: 1 the system · 2 how the source is read · 3 modules · 4 runs and
bounds · 5 proofs · 6 where code and documentation disagree · 7 what is not
modelled · 8 plan.

## 1. The system

### 1.1 Components

| Component | Source (`src/src/`) | State it keeps | Operations |
|---|---|---|---|
| Fragment reassembly | `ais_core.c:84-131`, `parse_ais.c:72-113`, `pg_ais.h` | `static frag_buffer`: five slots and the counter `received`, per backend | `pg_ais_parse`, `try_reassemble`, `reset_buffer` |
| Sentence parsing | `parse_ais.c:30-59` | none | `parse_ais_fragment` |
| Message decoding | `parse_ais_msg.c`, `ais_core.h` | the caller's `AISMessage` | `parse_ais_payload` and 22 handlers |
| Bit extraction | `bitfield.c`, `shared_ais_utils.c:39`, `parse_ais.c:128` | none | `parse_uint_safe`, `parse_int_safe`, `parse_bool_safe`, `parse_bin_payload`, `parse_string_safe`, `parse_string_utf8` |
| Position values | `bitfield.c:159-229`, `shared_ais_utils.c:15` | the caller's `AISMessage` | `parse_lat/lon/speed/heading`, `normalize_position_fields` |
| Metrics | `pg_ais_metrics.c` | four static counters, per backend | two recorders, `pg_ais_metrics`, `pg_ais_reset_metrics` |
| The type `ais` | `pg_ais_core.c`, `ais_core.c:144-164` | the datum | `ais_in`, `ais_out`, `ais_to_cstring` |
| Accessors | `ais_core.c:170-463` | none | `pg_ais_point`, the get functions, `pg_ais_fields`, `pg_ais_debug` |
| Memory of a call | `ais_core.c`, `parse_ais.c` | blocks from `malloc`/`strdup` | each of the above |
| Enumeration names, SQL declarations, benchmark, scripts | | none | |

### 1.2 Interaction

`pg_ais_parse(ais)` unwraps the datum (`ais_to_cstring`), parses one sentence
(`parse_ais_fragment`), stores the part in slot `seq - 1` of `frag_buffer` and
calls `try_reassemble`. When the slots `0..total-1` of the head's `total` are
filled, that joins the payloads in `full_payload[1024]`, decodes them
(`parse_ais_payload` → one handler → `bitfield.c` → `normalize_position_fields`)
and counts the outcome in the metrics. On success `pg_ais_parse` resets the
whole buffer, prints five fields as JSON text, frees what the decode allocated
and has `jsonb_in` parse the text, which may raise an `ERROR`. Everything else
returns `NULL`. Communication between calls is through the static buffer and
the static counters only: no locks, no shared memory, no timer. One backend
runs one call at a time; sessions do not share anything.

### 1.3 What is hard here

* **Order and interleaving of sentences.** Parts come in any order, repeated,
  interleaved with parts of other messages, and all of them meet in one buffer.
* **State that outlives a call.** A message that does not decode stays in the
  buffer; a `reset` or an `ERROR` comes between a state change and its answer;
  the end of a backend loses what was accepted.
* **State that no transaction covers.** A rollback leaves the buffer as it is;
  `pg_ais_parse` is declared `IMMUTABLE`, so PostgreSQL may evaluate it when a
  statement is only planned, and each evaluation stores its part.
* **A struct nobody initialises.** Every function has its `AISMessage` on the
  stack; a handler assigns the members of its type, the accessors read theirs.
* **Three limits that must fit each other**: 511 characters of a sentence
  (`copy[512]`), 1023 of a message (`full_payload[1024]`), five slots, against
  a `total` that is whatever the sentence says.
* **Partial failure inside a decode**: a handler stops at the first hard field
  it cannot read, while position fields fail softly, leaving NaN.
* **Four-byte stores into one-byte members** of `AISMessage`.
* **Values**: sentinels and limits, each checked in three places; characters
  above `W` in the armouring; text trimming; bit ranges at the payload's end.
* **One event counted in three places** with early returns between them.

### 1.4 What makes each component correct

| Component | Properties |
|---|---|
| Reassembly | `ReceivedCountsParts`, `LoopsStayInside`, `NoCompleteMessageWaits`, `DeliveredInSequence`, `PairsJoinWhole`, `StuckStaysStuck`; under a serial feed `HeldIsOwn`, `ImplementsAssembler`, `EveryMessageDelivered` |
| Transactions and failures | `RowIsOwn`, `ImplementsDelivery` |
| Sentence parsing | `PayloadIsWholeField` |
| Decoding | `ResultIsDecode`, `FieldsSurviveStores`, `ZeroedStaysZero`, `DecodesFromLeastLength`, `RequiredTailCoversPosition`, `OverrunIsExact` |
| Bit extraction | `AbstractionIsExact`, `SlicesOfTheNumber`, `TextLosesOnlyTrailingSpaces`, `TextReadersAgree` |
| Position values, accessors | `PointIffOnGlobe`, `SentinelsAreNull`, `CoursesAgree`, `AnswersAreKnown`, `TypeTellsColumns`, `NaNOnlyWhenCutOff` |
| Metrics | `MetricsAddUp`, `AttemptsMatchReplies` |
| Memory | `HeldPartsAreAllocated` |

`PROJECT.json` lists the hazards behind them, each at its line.

## 2. How the source is read

The sources at this commit do not build as they stand (headers disagree,
several functions are declared or called and never defined, two `default`
labels in one `switch`). The models follow the statements as written; where
the text alone does not settle the behaviour, this is the reading:

* **R1** `ParseResult` is a struct in `parse_ais_result.h` and is used as a
  Boolean and as an enumeration (`if (!parse_uint_safe(..))`, `return
  PARSE_OK`). It is read as "the call succeeded" or the code it returns.
* **R2** `parse_ais_payload` has two `default` labels
  (`parse_ais_msg.c:484-485`): one goes on to record the parse, one returns
  before. The constant `RecordsUnsupported` chooses; the `PgAisParse` run and
  the fragment runs take the first, `SerialFeed` and `Ingest` the second, and
  every theorem is for both.
* **R3** `parse_lat`, `parse_lon`, `parse_speed`, `parse_heading` are called
  and not defined; they are the `_safe` functions with the error values the
  comments there give (NaN, and -1).
* **R4** `AISMessage` is the struct of `ais_core.h`; `pg_ais.h` has a shorter
  one without most members the handlers assign. The offsets in
  `MessageMemory` are those a compiler gives that struct on x86-64 and
  AArch64.
* **R5** `parse_ais_message`, `parse_ais_from_text` and `free_buffer` are
  defined nowhere. The first two are read as `parse_ais_payload` on the
  accessor's uninitialised `msg`. The members `shipname`, `assigned`,
  `alt_sensor` and `retransmit` that the accessors name are not declared, or are
  assigned by no handler: they are members that hold what the stack held.
* **R6** `AIS_ALLOC` is `malloc`, so that what is not freed stays; allocations
  succeed. The stores of `bin_len` (next to `bin_data`) and of `msg->type`
  (before anything else is stored) disturb no other member and are left out.
* An `ais` value that is `NULL` or empty (`ais_core.c:87-93`) answers `NULL`
  and changes nothing, as a refused sentence does: it is one of `Refuse`.

## 3. Modules

```
Payload ── MessageLayout ─┬─ MessageMemory ─┬─ MessageDecoder ── MCMessageDecoder
   │                      │                 └─ PositionReport ── MCPositionReport
   │                      └─ Bitfield ── MCBitfield
   └── Sentence ─┬─ FragmentBuffer ─┬─ FragmentBufferClaims ── MCFragmentBuffer
                 │ (+ MessageLayout)├─ PgAisParse ── MCPgAisParse
                 │                  └─ SerialFeed ── MCSerialFeed   (implements Assembler)
                 │                         └─ Ingest ── MCIngest    (implements Delivery)
AisType ── MCAisType

proofs: MessageLayoutProofs ─┬─ FragmentBufferProofs ─┬─ PgAisParseProofs
                             │                        └─ SerialFeedProofs ── IngestProofs
                             ├─ MessageDecoderProofs
                             ├─ PositionReportProofs
                             └─ BitfieldProofs
```

**Payload** — a payload as `[type, len, bad]`: the value of its first six bits,
its length, and the positions of illegal characters. This is all that
`parse_uint_safe` lets the rest of the code find out about *whether* a field
can be read; `AbstractionIsExact` (run `Bitfield`) checks that it is.

**MessageLayout** — for each handler the sequence of its reads in the order of
the code: *hard* (failure returns `PARSE_ERROR`), *soft* (failure stores NaN or
-1), *text* and *bin*. `Decode` is the result of `parse_ais_payload`,
`NaNFields`, `Assigned`, `OrphanedStrings` are what the callers depend on.

**Sentence** — `parse_ais_fragment`: the cut at 511 characters, `strtok`'s
tokens (adjacent separators count as one, at most ten are kept), the seven
fields it demands, the first of which begins with `!AIVDM` (`strncmp` looks at
six characters, so a longer first field passes). The loop of `strtok` is a recursive function, and `Starts`
says where the cut at 511 falls.

**FragmentBuffer** — the core. Variables: `parts` and `received` are the
members of `frag_buffer`; `reply` is how the last call ended and which parts it
was made from. One action is one call of `pg_ais_parse`, by outcome:

| Action | Code |
|---|---|
| `Refuse` | `parse_ais_fragment` fails, `ais_core.c:96-100` |
| `SlotTaken` | no such slot, or not free, `:103-108` |
| `Hold` | stored, `try_reassemble` returns at `parse_ais.c:73-80` |
| `Undecodable` | stored and joined, `parse_ais_payload` fails; the buffer stays |
| `Deliver` | decoded, `reset_buffer`, then JSON, or `ERROR` from `jsonb_in` |
| `Abort` | undefined behaviour that ends the backend: `parts[total-1]` with `total < 1`, or `free` of an uninitialised pointer |
| `EndSession` | the process ends, the static buffer with it |

Undefined behaviour is a choice: a read outside the array, and a `free` of an
indeterminate pointer, may end the backend or may not. `CleanStack` says that
the uninitialised `msg` happens to be zero.

**FragmentBufferClaims** — what comments and docs say and the code does not do.

**PgAisParse** — the same calls with the metrics (`metrics`) and the memory they
leave: blocks are numbered as they are made (`made`), `heap` is the set of the
live ones, and `owned[i]` are those of the part in slot `i`, which are the
fragment, its payload and its raw copy. `pg_ais_reset_metrics` comes between
calls, and so does the end of the backend. A call that joins parts records the parse in `parse_ais_payload`,
again in `try_reassemble`, and the attempt; `Joining` is that sequence.

**Assembler**, **SerialFeed** — the abstract promise of reassembly (parts are
collected in any order, a repeat changes nothing, the message comes out once,
when its last missing part arrives), and the client under which the code keeps
it: one session, one message at a time, every message well formed and
decodable. The refinement maps `parts` to the set of parts collected and a JSON
reply to the message it was made from.

**Delivery**, **Ingest** — what a client that stores answers wants (each message
stored in its turn, as it was sent), and a client that gets it: on one session,
one message to a transaction, starting over when something fails. On top of
`SerialFeed`'s calls it adds

| Action | What happens |
|---|---|
| `Call` | a sentence of the message; its answer goes into the open transaction |
| `Lose` | the call is evaluated and its answer thrown away: planned, explained, cancelled. Its part is stored, and a delivery empties the buffer |
| `Rollback` | the transaction is undone; `frag_buffer` is not |
| `Die` | the backend ends with its buffer; the client reconnects |
| `Commit` | the answer is stored, and the next message's turn comes |

Outside this client, and outside the module, each of the following leaves a part
in a buffer that the next message is joined with (`OneMessagePerReply`, run
`ClaimOneMessage`, is the property that then fails): a sentence that comes again
after its message was answered, a message given up halfway, a next message sent
to another of several pooled sessions, and a transaction per sentence, in which
rolling back a later part does not take back the earlier ones.

**MessageMemory** — the members of `AISMessage` at their offsets, and what a
store does: each byte of memory is a token *(member, k)*, byte `k` of the value
last stored for that member, and a store through a `uint32_t *` is never
narrower than four bytes. `Overrun` names the members that are filled only by
running over, `pg_ais_fields` those that a row is made of.

**MessageDecoder** — `parse_ais_payload` read by read on that memory. `Least`
states from which length on a type decodes.

**Bitfield** — `bitfield.c` on payloads given character by character, with the
values: the bit loop, sign extension, blobs, texts. The variable `chars` is the
payload, which grows by any character of `Alphabet`; `Two` is the power of two by
its recursion, since the provers know none for `^`.

**PositionReport** — a message of any type, from the numbers in its payload
through the reads and `normalize_position_fields` to every accessor. Members no
handler assigned hold `Residue`; the accessors are asked about
`With(msg, v)`, the message with some value `v` in those places, and `Known`
says that an answer is the same whatever `v` is. The limits of latitude and
longitude are a few raw units beyond 90 and 180 degrees, since the members are
floats: 54000002/600000 is still stored as 90.0f, 108000004/600000 as 180.0f.

**AisType** — a sentence as a datum: `ais_in` gives it a four-byte header,
PostgreSQL (external) may pack it under a one-byte header when a row is stored,
`ais_out` and `pg_ais_parse` unwrap what they are given.

## 4. Runs and bounds

| Run | Checks | Distinct states |
|---|---|---|
| `FragmentBuffer` | the buffer invariants and `StuckStaysStuck` on interleaved messages, odd totals, sequence numbers and payloads, long sentences, with undefined behaviour | 7221 |
| `PgAisParse` | metrics and heap blocks against the calls | 7550 |
| `SerialFeed` | refinement of `Assembler`, and liveness | 112 |
| `Ingest` | refinement of `Delivery` through rollbacks, lost answers and deaths, with liveness | 420 |
| `MessageDecoder` | the decoder, its memory, and which lengths decode | 18696 |
| `Bitfield` | values, and the abstraction of `Payload` | 585 |
| `PositionReport` | sentinels and limits from payload to accessor; which answers are the message's | 2204 |
| `ClaimOneMessage`, `ClaimLoneSentence`, `ClaimNoCrash`, `ClaimArmour`, `ClaimRoundTrip` | one statement each that the code contradicts (section 6) | |

*Bounds.* The buffer has its real five slots, `SentenceCap` and `PayloadCap` are
the real 511 and 1023. What is bounded is the set of sentences:

* `FragmentBuffer` gets `WholeFeed`, three sets in one session. `MixedFeed`: two
  two-part messages with different ids, a five-part one that fills the buffer, a
  single-part one, an undecodable one, a head with more parts than slots,
  sequence numbers 0 and 6, another talker, a first field that goes on after
  `!AIVDM`. `OddFeed`: totals -1, 0 and 3 with
  sequence numbers 0, 1, 3, 4 (below, at and above the comparisons in
  `try_reassemble`), a payload of an unsupported type, one that is one character
  short, one with an illegal character, one that leaves NaN. `LongFeed`:
  payloads of 493, 494 (the longest that fits), 495 and 600 characters. The
  state of the buffer is a function of which sentences sit in which slots, so a
  few sentences per slot, one of each kind, give every way in which two
  messages can meet.
* `PgAisParse`: one sentence of each kind of outcome; `MaxMessages = 8` and
  `MaxBlocks = 32` bound counters that the code only raises. Eight messages are
  four decodes, enough for every pair of outcomes with a reset between them, and
  32 blocks are eight accepted sentences: both slots of the pair filled, emptied
  and filled again with dropped parts between.
* `SerialFeed`: messages of one, two, three and five parts, two of them of equal
  shape. Parts in every order, every repeat.
* `Ingest`: two messages of two parts, one of one and one of three;
  `MaxFaults = 3` failures between two commits, of any kind and at any point: one
  more than a two-part message has parts, so that each part can be lost and the
  answer rolled back as well.
* `MessageDecoder`: every type 0..30, every length 1..42 (past the longest
  minimum, type 5's 39), no illegal character or one in five places.
* `Bitfield`: every payload of up to three characters from the eight at the
  boundaries (`/`, `0`, `@`, `P`, `W`, the grave accent, `w`, `x`), every start
  and width in and one past the payload. Three characters hold a field that
  begins in one, covers one and ends in one.
* `PositionReport`: in types 1 and 4 every coordinate at zero, at and past its
  limits, at its sentinel and at the ends of its range, in all pairs; speed,
  course, heading and time stamp at theirs in all combinations, in type 18;
  every type 1..28 in ten lengths around the ends of the reports' fields, with
  and without an illegal character in the coordinates. The stack holds a null
  pointer, a value every test takes, one that it refuses, or one off the globe.

*Deadlock* is checked in the runs of the buffer, which never stops serving
calls. It is off in `MessageDecoder`, `Bitfield`, `PositionReport` and `AisType`,
where the computation ends.

*Fairness* concerns clients only. In `SerialFeed` each sentence that is still
missing is eventually passed (`WF` of `FeedMissing(i)`): a receiver that hears
every part of a message sooner or later. In `Ingest` the client passes what is
missing until it has an answer, and commits what it has (`WF` of
`CallMissing(i)` and of `Commit`): a loop around a transaction that is retried.
Nothing is assumed of failures except that between two commits there are no
more than `MaxFaults`; were they unbounded, every answer could be rolled back.
Nothing is assumed of the extension: a call is one step that always returns, so
liveness comes from `NoCompleteMessageWaits`, that the last part delivers within
its own call. Without the serial feed there is no liveness: see
`StuckStaysStuck`.

*What the runs show.* Whatever sentences arrive, the counter is exact, the
loops stay in bounds, no decodable message is left waiting, and a delivery is
made of parts 1..total (`FragmentBuffer`); an undecodable head blocks the
session, and nothing but its end unblocks it. Two parts are never cut by the
buffer limit. The four counters satisfy `messages - failures = 2 * success` at
every read, also around resets, which is how `METRICS.md` has to be understood.
One-byte members survive four-byte stores because each handler reads them in
address order: exchanging `raim` and `maneuver` breaks `FieldsSurviveStores`,
and one field wider than eight bits breaks `ZeroedStaysZero`.

With one message to a transaction and retries on the same session the buffer
needs no transaction (`Ingest`): what a rollback or a lost answer leaves is a
subset of the message that is passed again, and a part that is already there is
dropped. It matters that `reset_buffer` comes in the call that delivers: if it
is left out, the parts of a stored message become those of the next
(`MutReset`).

`AnswersAreKnown` is the table of which accessor may be asked about which type.
`pg_ais_point` answers from the message for the types in `Located`, and
`pg_ais_point_geom`, whose ordinates take in `speed`, only for those in `Moving`.
Everything else returns what the stack held, and no accessor says so;
`TypeTellsColumns` shows that the `type` in the same row or object is enough to
tell, although it is the handler's and not the payload's.

Every property of a passing run has a *mutant* in `PROJECT.json`: an operator
beside the real one (`Mut...`) with a plausible bug, under which TLC finds the
property violated.

## 5. Proofs

TLAPS checks, for every set of sentences, messages, payloads and reports, every
number of slots, either reading of R2, and with or without a clean stack (the
serial feed and `Ingest` need it clean, `CleanStackAssumption`):

*FragmentBufferProofs.* The invariant is

    FBInv == TypeOK /\ ReceivedCountsParts /\ SlotHoldsItsSeq(parts) /\ NoCompleteMessageWaits

Each conjunct is needed. `ReceivedCountsParts` alone is not inductive: a store
adds one to both sides only when the slot was free and in range (`TypeOK`).
`SlotHoldsItsSeq` (the part in slot `i` has `seq = i + 1`) makes a delivery come
out in sequence. `NoCompleteMessageWaits` needs the counter to be exact: were
`received` too small, `Ready` would be false with all parts there. From it
follow `TypeCorrect`, `CountIsExact`, `NothingCompleteWaits`, `IndicesInBounds`,
`DeliveriesAreInSequence` (with the step that makes a reply), and
`StuckForTheSession`, an action property: a stuck head leaves no call but
`Refuse`, `SlotTaken`, `Hold`, `Undecodable`, of which none touches slot 0, or
`Abort`, which ends the backend. The lemmas below it count the held slots
(`StoringAddsOne`, `CompleteIsCounted`) with the library's facts on finite sets.
Two more theorems are about what the parts carry. `PayloadsAreWholeFields`
needs what `strncpy` and `strtok` make of a sentence: by `TokensAreFields` a
token is a field of the copy, and every token but the last has a non-empty
field behind it, and by `UncutIsWhole` the cut has not touched a field with a
non-empty one behind it. A fragment needs seven tokens
and its payload is the sixth, so a field that is cut was no payload.
`PairsAlwaysJoinWhole` follows by arithmetic: such a payload has at most
`SentenceCap - 2` characters, twice which is below `PayloadCap` (`PairFits`). The
assumptions are `SentencesAssumption` (a sentence is a sequence of fields, what
`atoi` makes of one is an int, and its length and illegal positions are those of
a payload), `NoPartAssumption` (an empty slot is no fragment), and
`CapsAssumption`, `2 * SentenceCap <= PayloadCap`, which is `copy[512]` against
`full_payload[1024]`: 2 * 511 is 1022. TLC evaluates them in every run.

*PgAisParseProofs.* `BackendInv` is `FBInv` with `BackendTypeOK`, `MetricsAddUp`
and `HeldPartsAreAllocated`. The type invariant carries the argument on memory:
every block that lives or belongs to a slot is numbered below `made`, so the
blocks of a new part are no other part's (`StoringAllocates`), a dropped part's
`AISFragment` can be freed without touching a held one, and the blocks that calls
leak do not enter into it. The counters need what one join records
(`JoiningCounts`). `AttemptsAlwaysMatch` is an action property on the same
invariant: that a call which joins parts is one that found a message complete
(`StoringCompletes`) rests on `ReadyIsComplete`, and so on the exactness of
`received`.

*SerialFeedProofs.* `FeedInv` is `FBInv` with `HeldIsOwn`: what is held belongs
to the message being sent. A complete buffer then holds exactly that message
(`ReadyIsWhole`), which decodes (`MessagesAssumption`), so that it is delivered
and the buffer is empty when the feed turns to the next one.
`FeedImplementsAssembler` is the safety part of the refinement: initial states
map to initial states, and a call is a `Collect`, a `Finish`, a `Repeat` or a
stutter of `Assembler`.

*IngestProofs.* `IngestInv` is `FeedInv` with `RowIsOwn`, for any `MaxFaults`: a
failure repeats a call that keeps it, or empties the buffer.
`IngestImplementsDelivery` follows: only `Commit` changes what `Delivery` sees.

*MessageLayoutProofs.* Lemmas for the others. The layout of a supported type is
one of those of the 22 handlers, types with a speed, course or heading have a
position, only coordinates, speed and heading fail softly, and in a payload of
legal characters a field can be read exactly when the payload reaches to its
last bit. `SetInduction` is induction on natural numbers in a form the provers
take: a set that has 0, and `n + 1` with every `n`, contains `Nat`. It follows
from the library's fact that `<` on `Nat` is well founded, by `LeastNatural`.

*MessageDecoderProofs.* `DInv` says that every field before `pc` can be read.
A handler that comes to its end has then seen all of them, and one that fails
has found one that cannot be read: `DecodeIsSound`, for payloads of any length
with any illegal characters, where the run stops at 42 characters and one. It
connects `MessageDecoder` with the operator `Decode` that reassembly uses.
`MInv` adds the memory: members read so far hold what was read
(`ReadIsIntact`), and every byte is the caller's or of a field that was read
(`BytesAreOwn`). `LayoutInOrder` says that no field of a layout is written over
by one read after it, which gives `FieldsAlwaysSurvive`; that one-byte members
get at most eight bits gives `ZeroedAlwaysStaysZero`. `OverrunAlwaysExact` needs
one more invariant, `StoredIsWritten`: what a read field's store touches is no
longer the caller's. `LeastLengthsAreExact` and `TailCoversPosition` compare the
last bit of each of the 22 layouts with `Least` and with the end of the
coordinates; beyond the run's 42 characters nothing changes.

*PositionReportProofs.* `PInv` says what is in `msg` at each stage. A point
depends on `lat` and `lon` only, which a report that carries them has stored,
and normalisation moves a value outside the limits to one that is outside too:
`PointsAreOnGlobe`, `SentinelsAlwaysNull` and `CoursesAlwaysAgree`, for any
reports (`ReportsAssumption`: numbers as wide as their fields) and any content
of the stack. `AnswersAlwaysKnown` is the table of the accessors and goes through
them one by one: an accessor of a stored member answers the same for every
leftover, and for a member that nothing was stored in two leftovers that answer
differently are needed (`LeftoversAssumption`: the stack may hold 0, which is a null pointer, 5, which
passes every test, and -1, which passes none). `TypeAlwaysTells` says that the
types which share a handler fill the same members, and `NaNAlwaysCutOff` that
the other types require a field behind their coordinates.

*BitfieldProofs.* For payloads of any length over any alphabet
(`AlphabetAssumption`: characters are numbers). `Loop` is the recursion of
`parse_uint_safe`. That it has a solution and what the solution is are both
inductions on the bits read: it fails from the first illegal character on
(`UintExact`, from which `BinExact`, `TextExact` and `AbstractionAlwaysExact`
follow), and otherwise holds the bits so far. For their value, `Digits` and
`Prefixes` say that the payload's number without its last `j` characters is its
quotient by `64^j`, `BitOfNumber` that bit `i` of the code is a bit of that
number, and `UintIsSlice` that the loop collects them in order:
`AlwaysSlicesOfTheNumber`, with sign extension and blobs on top. `TrimmedKeeps`
gives both theorems on texts.

*Only model-checked:* liveness, that is `EveryMessageDelivered` and the liveness
halves of `ImplementsAssembler` and `ImplementsDelivery`, which rest on fairness
and are out of the prover's reach. `AisType` has no passing run and no theorem: it
is there for `ClaimRoundTrip`.

*How the inductions are done.* The library's induction theorems take an operator
as a parameter, which the provers cannot instantiate. Where a definition recurses
over data (`Tokens`, `Starts`, `Length`, `Two`, `Number`, the loop of
`parse_uint_safe`) a predicate states its recursion, `SetInduction` gives that it
has a solution for every `n` (the set of the `n` that have one), the `CHOOSE` in
the definition is then such a solution, and a second induction, on the set of the
`n` for which the claim holds, says what it computes.

## 6. Where code and documentation disagree

Shown by a run of their own, with the trace TLC prints:

| Run | Said | Done |
|---|---|---|
| `ClaimOneMessage` | `pg_ais.h:57` a buffer for "fragments of a multipart AIS message" | parts of two messages are joined: `message_id` is never compared |
| `ClaimLoneSentence` | `parse_ais.c:23-26` gives `!AIVDM,1,1,,A,...` | the empty field vanishes in `strtok`, the fill bits become the payload |
| `ClaimNoCrash` | `ais_core.c:470` "Releases memory from dynamic fields" | frees pointers of an uninitialised struct |
| `ClaimArmour` | `bitfield.c:13-14` characters decode "according to the ITU-R M.1371 spec" | characters above `W` are not lowered by 8; `sixbit_to_uint` is never called |
| `ClaimRoundTrip` | `test_pg_ais.sql:12` "Check value and round-trip" | a stored sentence has a one-byte header, and `ais_to_cstring` reads four |

Met while modelling, and visible in the modules, without a run:

* `ais_core.c:316` calls `pg_ais_point_geom` an "Alias for pg_ais_point()". It
  copies eight bytes from each four-byte float (`:341-342`), so an ordinate is
  `lon` and `speed`, or `lat` and `lon`, read as one double, in the machine's
  byte order under a header that says big-endian (`Eight`).
* `ais_core.c:378` "Return the specified integer field from an AIS message":
  `nav_status` of types 4, 11, 18, 19 and 24, which have none, is 0, "under way",
  since the store of `repeat` runs over it (`AnswersAreKnown`).
* `README.md:6` "Full support for all message types (single & multipart)": a
  single-part message that comes while a first part waits is dropped
  (`SlotTaken`), and type 14 never decodes (`Least` in `MessageDecoder`): its
  text starts at bit 40, and the bits that are left are never a multiple of six.
* `pg_ais_regression.sql:11` calls an out-of-order message "discarded"; it is
  kept and delivered when its first part comes.
* `METRICS.md:5-8`: "All messages that were attempted to parse" counts each
  twice, and "Multipart join attempts" counts single-part messages too.
* `parse_ais.c:65` "Joins payloads": three long parts are cut at 1023 characters.
* `shared_ais_utils.c:11` "replaces sentinel values with canonical invalid
  representations": NaN passes the comparisons, is printed as `nan`, and
  `jsonb_in` raises an `ERROR` after the buffer was reset (`Replies`).
* `test_pg_ais.c:95` has `'@'` as 0; by the code it is 16. `test_pg_ais.c:46`
  expects `msg.type` to be the payload's type; the handlers that serve several
  types store one of them. `test_pg_ais.c:137-138` expects NaN from a payload of
  fourteen `@`, whose bits are all there.
* `test_pg_ais.c:151-171` asserts that ten payloads decode. Those of types 1, 6, 8
  and 9 do. `55NBsv02>tNDBL@E` (`:153`) has 16 characters, and `parse_msg_5` reads
  up to bit 232, so that a type 5 decodes from 39 on (`Least`,
  `DecodesFromLeastLength`). `D5...`, `E5...` and `w5...` decode as types 20, 21
  and 7 where the comments there say 12, 14 and 27; `g5...` and `o5...` (`:159-160`,
  "18" and "24") are types 55 and 63, which have no handler.
* `auto_test_payloads.c:15,29,45`, and `ais_test_payloads.txt` as
  `test_pg_ais.c:41-45` reads it, pass the whole sentence where
  `parse_ais_payload` takes a payload, and assert that it decodes. The first
  character of a sentence, `!`, is below `0`, so its type cannot be read and
  nothing decodes (`Decode`). The type 5 among them (`auto_test_payloads.c:29`,
  `ais_test_payloads.txt:6`) would be too short by itself.
* `test/pg_ais_regression.out:56-59` expects 511 from the heading of a message and
  `:76-79` 360.0 from a course (`sql/expected/pg_ais_regression.out:69-72, 89-92`).
  By the code no message that carries the field gets that answer
  (`SentinelsAreNull`): 511 is stored as -1 and a heading above 359 is refused;
  `normalize_position_fields` makes -1 of a course from 360.0 on, and the accessor
  NULL of that. The payload of that test,
  `13aG?P0P00PD;88MD5MTDww@2D0T`, has a heading of 227 and a course of 110.4 as
  `bitfield.c` reads it (511 by ITU-R M.1371, see `ClaimArmour`), and its `mmsi` is
  253087616, not the 366053209 of `:46-54`.
* `test/pg_ais_regression.out:31-34` (`sql/expected/pg_ais_regression.out:49-52`)
  expects `SEAWAY` from `pg_ais_get_text_field(.., 'shipname')`. No handler assigns
  `shipname` (R5): for a message that decodes the answer is what the stack held
  (`AnswersAreKnown`). The payload inserted there is a type 24 of 27 characters,
  one less than its handler needs (`Least`), so the answer is NULL.
* `parse_ais.c:99` "Frees all parts": the `raw` copy that `pg_ais_parse`
  overwrites is lost (`NewPart`), as is what a dropped part points to
  (`SlotTakenCall`) and the call sign of a type 5 that is cut after it
  (`OrphanedStrings`).

## 7. Not modelled

* How `pg_ais_debug`, `pg_ais_fields` and the macros print: of both, which
  members they read is modelled; that `json_bool` prints `val != 0` is not.
  The enumeration names.
* The text of JSON and of numbers; `fill_bits`, `channel` and the checksum,
  which are stored or skipped and never looked at.
* What PostgreSQL makes of an `IMMUTABLE` function beyond evaluating it once too
  often: an answer that is folded into a cached plan and used for several
  executions depends on how statements are prepared, which is not in the
  repository.
* Clients outside `Ingest` (section 3): the code keeps no promise to them that
  could be stated, as `ClaimOneMessage` shows.
* `parse_float_safe`: the value of `parse_int_safe` over a scale; nothing calls
  it.
* Sign extension at `len = 32` (`bitfield.c:103`), which is undefined and which
  no caller asks for.
* `sixbit_ascii`, declared in a header that is not in the repository: a text is
  the sequence of its codes.
* Build files, benchmark, scripts, the SQL declarations.

## 8. Plan

Done, most important behaviour first: reassembly, its feed and abstract
specification, metrics and memory, decoding, values, the type; then the client
that stores answers through failures, the memory under the accessors, all the
accessors, and the proofs of section 5.

Open:

1. *Stored sentences* composed with `FragmentBuffer`: `pg_ais_parse` of a column,
   where a short header takes three characters off every sentence.
2. *Late duplicates*: the weakest condition on a feed that repeats sentences
   after delivery under which `Assembler` is still implemented.
