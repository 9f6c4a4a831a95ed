# Verification of the private personalized ad server

TLA+ models of the program in this repository, TLC configurations that check
them on small instances, and proofs checked by TLAPS that hold for every value
of the constants. File names without a directory are those of `src/src/`.

## 1. The system

A user looks at ads and clicks on some. The client counts the clicks per group
of ads, locally, and asks an ad server for one more ad of the group clicked
most. The request is a private information retrieval (PIR) query: an encrypted
monomial that the server expands into one ciphertext per plaintext of its
database, multiplies into the database and sums up, without learning which ad
was asked for. The ad that arrives is put on display and one ad of the group
clicked least is taken off.

| Part | Code | State | Operations |
|---|---|---|---|
| User's program | `user.cpp`, `user.hpp` | ads on display (`currAds_`), clicks per group (`cnts_`), the last input, the state of `std::cin` | fill the display (from the server or locally), a click, choice of the next ad, eviction |
| Conversation | `user.cpp` `doSocketConnection` … `updateAdSetServer`, `main_server.cpp` `main` | per client: the read it is at, its buffer, the ad asked for; the server: the read it is at, the connection served, the key buffer, `longString`, the Galois key under id 0 | connect, parameters, length and bytes of the key with an ACK each, OBTAIN and the first ads, then for ever: query, size, ACK, reply |
| Layout of the database | `pir.cpp`, `pir_server.cpp` `set_database`, `main_server.cpp` | lines of `ads.csv`, the encoded plaintexts, the dimension `nvec` | `create_ads.py` appends lines, the server loads them once when it starts |
| PIR client | `pir_client.cpp` | the indices of the request | `generate_query`, `generate_serialized_query`, `decode_reply`, `extract_bytes`, `generate_galois_keys` |
| PIR server | `pir_server.cpp` | database, Galois keys by id | `deserialize_query`, `generate_reply`, `expand_query` |
| Codec | `pir.cpp` `bytes_to_coeffs`, `coeffs_to_bytes` | none | bytes of ads to coefficients of a plaintext and back |
| Baseline copy | `server_base.cpp`, `client_base.cpp` | the file, the copy | the whole file sent in blocks, for comparison with PIR |
| Messages of the set-up | `main_server.cpp:77-130, 281-325, 381-394`, `user.cpp:7-26, 321-375, 476-514` | the parameters and the first display of the client | the parameters in one message laid out by hand; the first ads and their numbers as text |

How they interact: the user's program calls the PIR client for a query, writes
it to a TCP stream, and gets the reply's bytes from another. One server process
serves one connection at a time; further clients wait in the kernel's backlog.
There are no threads and no locks: the concurrency is between processes, over
streams that keep the order of bytes and not the bounds of messages. Nothing is
stored but `ads.csv`; a server started again has forgotten every key.

What is hard, and what makes each part correct:

* **User's program.** Duplicates, eviction and counters that wrap, over a long
  sequence of clicks. Correct when no group disappears from the display, a
  click counts for what is displayed, the ad asked for is of the group clicked
  most, and the fresh ad is not the one evicted.
* **Conversation.** Reads that come short or bring two messages, ends of
  streams, a client that leaves, a server that crashes, all in any order.
  Correct when the key buffer is not overrun, a client takes nothing for its ads
  before its key is on the server, an ad is filed under its own number, no client
  is forgotten, nobody waits for ever, and a key is never used for another client.
* **Messages of the set-up.** Offsets, lengths and widths that both sides compute
  separately, from bytes that may not all have come. Correct when the client has
  the server's parameters, reads within its own memory, and shows each first ad
  under its own number.
* **The whole.** The program on one side of the stream remembers what the bytes
  do not say. Correct when, whatever is lost, each number on display has its own
  ad under it, and a click is answered or the program ends.
* **PIR.** Off-by-one bounds where an ad, a plaintext or a ciphertext ends; two
  sides that compute the same sizes separately, one of them from a literal.
  Correct when the ad decoded is the ad asked for.
* **Baseline copy.** Blocks that a receive cuts, and either side failing in the
  middle. Correct when the copy is the file, or the first lines of it.

The hazards are listed one by one, with their lines and the properties that
cover them, in `PROJECT.json`.

## 2. Modules

Each module below names the code its actions stand for; `PROJECT.json` maps each
definition to lines.

**`UserProgram`** is the user's program. `cnts`, `currAds`, `selection` and `cin`
are `cnts_`, the keys of `currAds_`, `userSelection` and the state of `std::cin`;
`requested` is `adRequested` while a request is under way, `clicks` and `typed`
are history variables for the properties, and `mode` tells `runWithServer` from
`runLocal`. `EnterNumber`, `FailInput` and
`RepeatInput` are the three outcomes of `std::cin >> userSelection`, each with
everything up to the next input or request (`Selected`). `ReceiveAd` is the end
of `updateAdSetServer` with `removeLeastPopularAd`. The iteration order of the
`unordered_map` of counts is a constant (`Rank`), so the proofs hold for all
orders; that of the ads on display is a free choice at each step. Counters are
`unsigned int`, modulo `Width`, and compared with `INT_MAX` as in the code.

**`AdSession`** is the conversation. A stream is a sequence of units; each unit
has the kind of message it is part of and the number of units of that message
that follow it. One action is one `read` with the work and the writes up to the
next `read`, the only points where the order of two processes can matter. A
read takes any prefix that `ReadLengths` allows: it may stop at the end of a
message, or anywhere for a kind of message that is not in `Whole`. `Whole`
therefore states the assumption on the network a run makes, and `Size` how finely
a message can be cut. `AllButKey` is what the code is written for (only the key's
loop collects pieces). `NoneWhole` with `CutSize` is TCP: every read of every
message may come short, those of `connect`, of the key's length, of OBTAIN, of a
size and of an ACK included. Of a length that came cut the server has some lower value
(`ServerReadGalLen`), and what is left of it is the beginning of the key. Of an ACK
that came cut the client has some of the bytes, over those of the previous read
(`ReadsAck`). Parameters that came cut are used by the client if `ParamsUsed` units
of them came, or end it; `SetupMessages` has which field does what. Ends of streams follow the code branch by branch: `read`
returns 0, or -1 when bytes were left unread at the closing side. `Dies` is the
end of the server by `exit`, an exception or SIGPIPE. `ServerCrash` may end it at
any moment in every instance; `MaxRestarts` bounds only how often it is started
again. `Loads` is what matters of `deserialize_query`: whether the
bytes begin with a whole query.

**`AdService`** says what the conversation promises, without streams or reads: a
server that is up or down, the client that holds it, the clients whose key it has
stored, how far each client is, and what each has filed. Ads come only after the
key is stored; an ad is filed under the number it was asked by; and the holder
keeps the service until the server fails. `AdSession` implements it
(`ImplementsService`) under the mapping in that module: `holder` is `conn` once
`connect` was read and `NoClient` at `accept` (and at the read of `connect`, from
which the server still goes back), `status` is `cpc` in five words, `request` is
`asked` while the reply is awaited, `filed` is `stored`. Most reads are
stuttering steps of the service. Its safety is implemented; that it also makes
progress is `Answered` and `SetupCompletes` of `AdSession`.

**`SetupMessages`** is what the two messages of the set-up hold. The parameters
are words at byte offsets: a field of the client is the low-order bytes that have
come of it, over a buffer of zeros, at the offset the client computes. Of the struct
`PirParams` there are the fields the client uses. `vecRead` is how many bytes
`deserialize_vector` reads, by the count that has come; the client allocated
`vec_size` for them. The first ads are characters,
each known by its ad and place, and digits. A read brings any part of either
message. A line that `ads.csv` does not have is any text, or ends the server.

**`AdSystem`** composes `UserProgram` and `AdSession`, both unchanged: the client
`Me` is run by the user's program, the others ask for any ad. `FirstAds`,
`Clicks` and `Receives` are at once a step of the program and a step of the
session; all other steps leave one of them as it is. `contents`, the text under
each number on display, is the only variable added. An ad that the query throws for
(`ThrowingAds` of the session) is the ad numbered like the degree. The system takes
`connect`, the parameters and the ACKs to come whole (`SystemAssumption`).

**`PirExpand`** is `expand_query` on the polynomials its ciphertexts encrypt, one
action per round. `ApplyGalois` and the arithmetic are SEAL's, in the ring where
`X^Degree = -1`. Noise is not modelled.

**`PirCodec`** is `bytes_to_coeffs` for each ad of a plaintext and
`coeffs_to_bytes` on all slots, one action per turn of an inner loop. `BitOr` is the
`|` of the code on words of `WordBits` bits, given bit by bit.

**`PirRetrieval`** joins them: from a line of `ads.csv` through `set_database`,
`get_dimensions`, `generate_serialized_query`, `generate_reply` and `decode_reply`
to the ad the user sees. It takes `expand_query` for what `PirExpand` shows of
it (the plaintext selected, times the quotient of the power of 2 the client
divided by and the one the expansion multiplies by), and an ad's bytes for its
line, which `PirCodec` justifies. `lines` and `loaded` are separate: the file
may grow after, or before, the server reads it.

**`BaseCopy`** is `send_file` and `write_file`. A byte is its position. The sender
may fail, or be ended, with a part of a block on its way (`SendFails`), and the
receiver stops at the end of what was sent, wherever that is (`ReceiveEnd`), or at
a `recv` that returns -1 (`ReceiveFails`). `cut` and `failed` are history: whether a
`recv` returned less than a block, and whether something failed on either side.

`MC…` modules hold the definitions that the configurations assign to constants.
Faulty variants (commented as such) are plausible bugs that the properties must
catch; no specification uses them.

## 3. What is checked

Passing runs:

| Run | Instance | Shows |
|---|---|---|
| `user_program` | 3 groups of 2 ads, `INT_MAX` = 1 (counters of 2 bits), 5 clicks per group, both modes, a degree (3) that is an ad number | display, counts, choice and eviction |
| `session_failures` | 2 clients that may leave, `NoneWhole` with every message of 2 units or 3, queries of 3 and 4 with a buffer of 2, an ad that throws, a crash at any moment and one restart | without any assumption on the network: the conversation implements `AdService`, files ads under their own numbers, serves one client at a time, gives no ads before the key, and forgets a client only over a `connect` in pieces |
| `session_live` | 3 clients of which 2 may leave, `AllButKey`, a key of 3 units, queries of 1, 2 and 3 with a buffer of 2, a crash at any moment and one restart | on the network the code is written for: the key's buffer, the only mutual wait, and liveness |
| `setup_messages` | words of 4 bytes of 32 values, vectors whose element takes one and two bytes, 2 groups of 6 ads of 2 characters and 2 digits; files of whole ads, with a short line, with a long line, with too few lines; both messages cut at every length | the hand-made framing, at which lengths the vector is read past its allocation, and the first display |
| `system` | the user's client and another, 2 groups of 2 ads of which one throws, short reads of ads and replies, `connect`, parameters and ACKs whole, a click in each group, one crash and restart | display and connection together |
| `expand` | degree 16, sizes 2 to 16, every index | the expansion selects the plaintext asked for |
| `codec` | 3, 5, 8, 12 and 14 bits in a coefficient, ads of 2 bytes | ads are read back |
| `pir_sizes` | degree 8, files of 10, 20, 30 and 40 ads, two of them in two ciphertexts, one in three | layout, query and decoding fit together |
| `base_copy` | 4 lines of 3 bytes in blocks of 5, a send or a receive that fails at any moment | what the copy holds, under any cut and wherever it ends |

Why the bounds are enough. `user_program`: three groups distinguish the most
popular, the least popular and another; two ads are the least for which one can
stay and one go; with counters of four values and five clicks each count passes
`INT_MAX` and wraps. `session_*`: two clients show the one served and the one
waiting, a third adds a backlog of two; a key of three units can be cut in every
way that differs (first, middle, last read), and a message of two has the one cut
there is between its first bytes and its last (`session_failures` has two clients,
because with so many cuts a third multiplies its million states); queries below, at and above a
multiple of the buffer are there, and a second query finds the buffers as the
first left them. A second crash adds nothing to one crash and restart, since a
server started again has the initial state and the clients of the first run are
all at the end of their streams. A crash needs no bound: a server that is down
stays so. `setup_messages`: of twelve ads some numbers have
one digit and some two, and `MAX_DIGITS_AD_NUMBER` fits the larger, as 5 does for
49999; the sizes are the least at which each field can be cut in the middle.
`system`: two ads in a group are the least for which an ad asked for may be on display or
not, and a second click follows the eviction of the first; how queries and
keys are cut is left to the session runs. `expand` has every size a ciphertext of its degree can have,
powers of 2 and not. `codec` has widths below, at and above a byte, that divide 8
and do not; three contents with set bits at all places; its word has 30 bits, which
TLC's integers hold and twice 14 bits need, where the code has 64. `pir_sizes` has fewer,
as many and more ciphertexts than the client's query, and a dimension that is
a multiple of the degree, where `log2(0)` makes the expansion undefined: the
model then lets the server fail or answer without an ad. `base_copy`: the state
of the receiver depends on its offset in a block and on the line before only, and
four lines give a copy that ends before, in, between and after lines.

The bounds that exist for checking only are `MaxClicks`, `MaxQueries`,
`MaxRestarts` and `MaxRuns`, each a conjunct of one guard.

Liveness is checked under weak fairness of the server's step and of each
client's step: a `read` whose bytes have come returns, and the program goes on
to the next. Nothing else is fair. A user need not click, leave or start a
client, and the server need not crash nor, once crashed, be started again. `Answered` and `SetupCompletes` are about
clients whose user does not end them: a query is answered, or fills the server's buffer
exactly (see below), or the server crashes and the client ends. `ClickAnswered` is the same for the
user's program in `system`: after a click there is another prompt or the program
has ended; its queries do not fill the buffer. `DepartureEndsService` is a statement about the code as it is:
nothing brings the server back to `accept` once a client is served, so when that
client leaves the server goes down or reads for ever.

Deadlock is not checked where the system may stop: programs end, and idle
clients wait for a user.

Runs that show the code doing something other than it says:

| Run | Shows |
|---|---|
| `user_clicks` | after input that is no number, `std::cin` stays failed and nothing clears it: clicks, and requests, go on without the user (`user.cpp:437`) |
| `user_forever` | the "infinite loop" ends when ad 4096 is drawn: `generate_query` gets the ad number for an index, and its bound is off by one (`user.cpp:182`, `pir_client.cpp:95`) |
| `session_setup_done` | the second ACK is looked for in a buffer that still holds the first: when the server ends between the two, the client logs "Setup done" without a key on the server (`user.cpp:403`). One crash and no cut is enough. `NoAdsBeforeKey` says what holds all the same |

Other disagreements met while modelling, all of them behaviours of the models
without a run of their own:

* A query of a multiple of 2048 bytes is complete and never answered: the loop at
  `main_server.cpp:402` ends only at a read shorter than its buffer, while
  `main_server.cpp:396` says that the server is ready to accept the query. Both sides then wait for ever.
  `StallOnlyAtFullBuffer` shows in `session_live` that, as long as
  `connect`, the parameters, the key's length and the ACKs come whole, this is the only
  way in which they can.
* `user.cpp:417` announces an infinite loop; a reply that one read does not bring
  whole (`user.cpp:212`) does not load and ends the client. The check at
  `user.cpp:214` cannot hold, `n` being unsigned. In `AdService` this is `End`.
* `main_server.cpp:324` sends 16 bytes less than `main_server.cpp:294-303` lists.
  What is missing is the element of the vector and the end, which the client
  does not use (`ShortfallHarmless`).
* The dimension that `main_server.cpp:300` lists as a part of the message does not
  reach `pir_param_object`: `deserialize_vector` has its vector by value. This is
  what keeps the assignment at `user.cpp:366` from writing through the server's
  pointer; `pir_client.cpp:39` has the dimension as a literal.
* `deserialize_vector` checks no bound. When the parameters came cut before the first
  byte of the vector's size, the client allocates nothing for it and reads its two
  counts all the same. `VectorOverreadExactlyWhenUncounted` says that this is the
  only length at which it reads too far.
* A `connect` that one read does not bring whole makes the server go back to `accept`
  and leave the connection open (`main_server.cpp:277-280`): the client waits for
  its parameters for ever. `NoClientForgotten` shows that no client is forgotten in
  any other way.
* The `README.md:60` of the repository has `MAX_DIGITS_AD_NUMBER 6`, `user.hpp:29`
  has 5. Both sides are compiled from the latter; 5 is enough for 50000 ads.
* A line of `ads.csv` that is not 32 characters long shifts all that follows it in
  the first ads: a short line makes the client refuse them all, a long one shifts
  a piece of it into the ads that follow. `NoAdUnderAnother` and `FirstAdsShown` have the condition.
* `user.cpp:124` notes a bias toward group 0; a tie goes to the group that comes
  first in the map's iteration, with libstdc++ the last one inserted.
* `user.cpp:519` says that one ad is added for each category; numbers 0 to 300
  are all of group 0. `CountedGroupsShown` is checked in both modes,
  `EveryGroupShown` therefore with the server only.
* `create_ads.py` appends: a second run changes the dimension, and the client's
  literal (`pir_client.cpp:39`) does not follow. `RetrievedWhenFits` has the
  condition, `NeverAnotherAd` says what still holds without it.
* `client_base.cpp:77` prints "Data written in the file successfully." whatever ended
  `write_file` (`client_base.cpp:22`): a sender that failed, a connection that broke,
  or a `recv` that came short, which loses the front of a line. `FirstLinesWhole`,
  `WholeUnlessCut` and `LostAtFrontOnly` say what the copy holds all the same.

## 4. What is proved

All proofs are checked by TLAPS with no unproved leaf. The assumptions on the
constants are the `ASSUME`s of the modules, evaluated by TLC for each instance.

`UserProgramProofs`, for all numbers of groups and ads, widths of a counter and
iteration orders:

* `TypeCorrect`: `TypeOK` is inductive as it stands.
* `EveryGroupStaysShown`: inductive as it stands, from `RemovalKeepsGroups`: of
  the group an ad is erased from, another ad stays.
* `CountedGroupsStayShown`: needs `CountedInv`, which adds that nothing is
  counted before the display is filled.
* `RequestStaysPreferred` and `FreshAdSurvives`: from `PreferenceInv`. The
  counters are the clicks modulo `Width` (`CountOneMore` is the arithmetic), and
  while a request is under way its ad is of the most popular group. The fresh ad
  goes only if its group is the least popular as well, so that all counts are equal.

`AdSessionProofs`, for any number of clients, crashes, restarts and departures.
Without any assumption on the network:

* `SessionTypeCorrect`: `TypeInv` adds to `TypeOK` that the server has a client
  whenever it is at a read.

Two theorems need that some messages come whole. `OpeningIsWhole` is that the
network does not cut `connect`, the parameters and the length of the key, each the
only bytes on the way when they are read; `AckIsWhole` is the same for an ACK. All
other messages may come in pieces.

* `GaloisBufferSafe` assumes `OpeningIsWhole`: the loop at `main_server.cpp:344`
  never writes past its buffer. `OverrunInv` says, for each
  client in each phase of its opening (not accepted, accepted, length sent, key
  sent, acknowledged), what exactly its streams hold, how much of the key the
  server has, and that both add up to the key's length. That sum is what
  makes the bound inductive, and it rests on the client's silence between the
  key and the ACK. Without the assumption the model has counterexamples: a client
  whose first read brought a part of the parameters takes
  the rest of them for its first ACK, is one message ahead from then on, and its
  OBTAIN reaches the loop that collects the key; and a length of which a part was
  read is a smaller buffer, behind the rest of the length.
* `StallOnlyAtFullBufferAlways` assumes both: `TurnInv` follows the client served and
  the server from the key on. What the server has read of the key, or of a query, and
  what is still on the stream are together the whole message, and each answer is on
  its stream whole. So one of the two has something to read, except when the
  server waits for more of a query that has come whole. What is left of an ACK that
  came cut would be read as the beginning of the next query; that may fill the
  buffer as well, and is no query.

The others make no assumption on the network, the crashes or the clients:

* `OneClientServedAlways`: from `HoldInv`, a connection that is open and not held
  by the server has been told nothing, so its client is not past the set-up.
* `NoAdsBeforeKeyAlways`: from `KeyInv`. While the key of a client is not stored, one
  ACK at most is on its way, behind what is left of the parameters (`BeforeKey`). The
  client may take it for the second one, or a part of it, or the one it has read
  before; what it then finds for its ads is at most the rest of that ACK, which is
  shorter than the first ads (`SessionAssumption`).
* `NoClientForgottenAlways`: `NotForgottenInv` adds that a client in the backlog has
  written its `connect`, and that the whole of it is there when the server comes to
  read it. The server goes back to `accept` without closing the
  connection (`main_server.cpp:277-280`) only when its one read brought less; the rest
  is then never read.
* `ReplyCorrectAlways`: from `TalkInv`, which says what may be on the streams of a
  connection for each place of its client. Between a click and its reply there is
  one query at most, of which a part may be with the server, then one size, then
  one reply, and all of them have the number asked for; outside of a request there
  is none of the three. A client that took a part of the size for all of it
  (`Misled`) has the rest of it, or nothing, where the reply should begin, and ends.
* `SessionImplementsService`: initial states map to initial states and every
  step to a step of `AdService` or a stutter. `ServiceInv` (`HoldInv`, `KeyInv`
  and `TalkInv`) supplies what the guards of the service ask.

`AdSystemProofs`, for any number of clients, ads, crashes and restarts:

* `SystemRunsProgram` and `SystemRunsSession`: every behaviour of the system is
  one of `UserProgram` and one of `AdSession`, step by step. What is proved of
  them therefore holds of the system: no group leaves the display although ads are lost, and the
  key's buffer is safe although the clicks are a user's.
  The latter needs `OpeningIsWhole`, as it does in the session.
* `AlwaysInStep`: `InStep` with the types of the clients' places (`StepInv`) is
  inductive. A lemma for each kind of step says where it takes its client and
  that it moves no other.
* `OwnAdAlwaysUnderEachNumber` and `DisplayTypeCorrect`: from `DisplayInv`. The
  number under which the program puts the text is the one of `InStep`, the text
  is that of `ReplyCorrect`, which holds because the system is a conversation: the
  theorems of `AdSessionProofs` and `UserProgramProofs` are cited through the
  INSTANCEs `SP` and `UP`. What these need of their constants is
  `PartsAssumption`, that the assumptions of both parts hold of what the system
  gives them; TLC evaluates it in the run `system`. `SystemAssumption` is moreover that
  `connect`, the parameters and the ACKs come whole: with parts of them a client could
  take something else for its first ads, and the numbers on display would not be those
  the program starts from. The key and its length, sizes, ads and replies may be cut.

`PirRetrievalProofs`, for all degrees, widths, sizes of an ad and files:

* `RetrievalTypeCorrect`: no query that is sent has a coefficient outside the
  polynomial, although the bound of the code is off by one (the case throws).
* `EveryLineKeepsItsPlace`: two lines never share a place.
* `AdsAreNeverSwapped`: from `SwapInv`, a query that is not zero names the
  plaintext of the ad asked for, whatever the literal.
* `FittingAdIsRetrieved`: from `FitInv`, a request that fits keeps its
  ciphertext, its place and its factor until it is decoded. This covers the
  program's own sizes (50000 ads of 32 bytes, degree 4096, dimension 160).

`PirExpandProofs`, for every degree that is a power of 2, every odd plain modulus
(it need not be prime) and every number of plaintexts from 2 to the degree:

* `ExpansionTypeCorrect`, `RoundsAlwaysNarrowDown`, `ExpansionAlwaysSelects`: the
  three properties together are inductive as they stand. `OddCancels` and
  `OddReaches` show that `X -> X^elt` permutes the exponents for an odd `elt`, so
  that the CHOOSE of `ApplyGalois` has one value. `RotatedMonomial`,
  `EvenMonomial` and `OddMonomial` say what a round makes of a monomial at an even and at an
  odd multiple of `2^r`, and `RoundHalves` puts them together. `LastRoundSelects`
  has the corner case, the ciphertexts that have no partner below `m`.
  `InverseFacts` shows that the factor the client divides by has an inverse.
* `2^k` is not known to the provers; `PowersAssumption` says what it is up to the
  degree. The facts about numbers are proved by induction in the form of
  `Induction`: a set of naturals that holds 0 and with each number the next is
  all of them, which follows from `NatLessThanWellFounded` and `WFMin`.

`BaseCopyProofs`, for all files, lengths of a line and sizes of a block, any way the
receives are cut, and wherever either side fails:

* `CopyTypeCorrect`, and `LinesLostAtFrontOnly` from `FrontInv`: only what was
  received is copied, and of a line no byte is missing behind one that is there.
* `FirstLinesAlwaysWhole` and `CopyWholeUnlessCut` from `WholeInv`: without a cut the
  receiver is always at the start of a block, and the copy is the text of the blocks
  received, in order. The receiver is done before all of them have come only when
  something has failed, on either side.

`SetupMessagesProofs`, for all layouts of the parameters, all numbers and sizes of
ads, all files, and all lengths at which either message may be cut:

* `VectorOverreadJustWhenUncounted` and `ShortfallAlwaysHarmless`:
  from `ParamsInv`, the two with the range of what was sent and received. A field
  cut in the middle is not greater than what was sent (`ReceivedFacts`), a
  field of one byte is known once that has come (`VecSizeKnown`), and sizes fit a word
  (`WordAssumption`, `VectorAssumption`). The size of the vector comes before its
  counts, so that a count is there only when the size is.
* `NeverAnAdUnderAnother`, `FirstAdsAlwaysShown`, `MessagesTypeCorrect`: from `AdsInv`.
  It adds `TextInv` to the two: what is on the way is the lines drawn, joined, and
  their numbers, joined. Lines that are not too long are together as long as
  the client asks only when each has its full size (`JoinedShort`), and then the
  i-th begins at a multiple of that (`JoinedEven`, `Layout`). A number that
  `MAX_DIGITS_AD_NUMBER` digits can write (`DigitsAssumption`) is padded to just as
  many (`Padded`) and read back by `atoi` (`AtoiReads`).
* `Joined` and `atoi` are recursive functions; `JoinedSteps` and `AtoiSteps` show that
  there is one, by the induction of `Induction`. `PowersAssumption` says of powers
  only how each follows from the one before.

`PirCodecProofs`, for all widths of a coefficient, sizes and contents of ads,
numbers of slots and of ads in a plaintext:

* `CodecTypeCorrect`, `CoefficientsAlwaysFit`, `AdsAlwaysReadBack`: from `CodecInv`.
  `AdsReadBack` speaks of the end only, and `CodecInv` of every turn of the two
  loops: the bits of the ad that a coefficient or a byte of the output
  holds (`Holds`), those that what is left of `src` starts with (`Starts`), and that the
  places written so far, the room in the last one and the bits still to move add up
  to the bits of the ad.
  Packed, the last coefficient of an ad ends in zeros (`AllPacked`); unpacking takes
  no more of it than what is left of the ad (`UnpackPlace`, `InCoeff`), so that the next
  ad begins at its own offset.
* `PushBits` and `TakeBits` are what a turn does, `target << shift | src >> ...` and
  `src << shift`, said of each bit. They rest on lemmas about the bit of a shift, of
  a remainder and of `|` (`BitShiftLeft`, `BitShiftRight`, `BitRemainder`, `OrBits`), and
  on `BitsDetermine`: two numbers below `2^k` with the same `k` bits are equal.
* `PlaceIsOnly`: two coefficients of two ads are never in the same slot, so that a step
  leaves all the others as they are.
* `CodecAssumption` asks that a word has twice the bits of a coefficient:
  `src << shift` then loses no bit that is still to be taken. In the code the word
  has 64 bits, and a coefficient the 20 of `main_server.cpp:159`. `PowersAssumption` says of powers how
  each follows from the one before, up to a word's bits.

Only model-checked:

* Liveness, and so `Answered`, `SetupCompletes`, `DepartureEndsService` and
  `ClickAnswered`: TLAPS does not do it under fairness.
* The three findings, which are counterexamples.

Every invariant and action property of a passing run is a theorem.

In `PirRetrieval` the value of `Log` is not used by the proofs, only that both sides
take the same function of the same number.

## 5. What is not modelled

* Encryption, noise and key material: SEAL is trusted to act on ciphertexts as
  on plaintexts. A reply spoilt by noise is outside.
* `d = 2` and the composition of ciphertexts it needs: `main_server.cpp:160` sets
  `d = 1`, and both literals of the client have one dimension.
* The sizes of SEAL's serialized objects, other than as constants: whether the
  encryption parameters fit the buffer of `user.cpp:306` depends on them alone.
* `extract_coeffs`, `replace_element`, `get_one`, `simple_set`, `simple_query`,
  `set_one_ct`: called by nothing.
* `ad_server.cpp`, `dummy_user.cpp`, `server_sock.cpp`, `client_sock.cpp`,
  `serialization.cpp`: drafts and samples compiled by no target.
* Logging, printing and the random choice's distribution.
* `custom_serialization.cpp`: its templates are instantiated nowhere outside it;
  `main_server.cpp` and `user.cpp` have copies, which are modelled.

## 6. Plan

Done, in this order because the user's display and the conversation are what a
user depends on: `UserProgram`, `AdSession`, `PirRetrieval`, `PirExpand`,
`PirCodec`, `BaseCopy`; then `AdService` with the refinement, `SetupMessages`
and the composition `AdSystem`.

Then the proofs: of each invariant that a passing run checks, and of the
refinement.

Left open, in case the program comes to use it: a database of two dimensions, with
`decompose_to_plaintexts` and `compose_to_ciphertext`.
