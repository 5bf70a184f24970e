# The Arweave Ledger app in TLA+

TLA+ models of the Arweave app for Ledger devices (`src/app`) and of the
JavaScript package that talks to it (`src/js`), the TLC runs that check them on
small instances, and theorems about them that TLAPS has checked.

The app derives an RSA-4096 key pair from the recovery phrase of the device,
keeps it in flash, shows transactions to the user and signs those the user
approves. What a user relies on is: the key is the one of the recovery phrase;
what is signed is what was shown; what was shown is what the host sent, all of
it; and what the host is given is the signature of what it asked for. Each of
these crosses several parts of the code, and each is a property below.

## The system

| Part | Source | State | Operations | Model |
| --- | --- | --- | --- | --- |
| key store | `crypto_store.c` | flash: two slots of seed, primes, key pair, flag; RAM: `slot_in_use`, `device_initialized` | `crypto_store_init_test`, `crypto_store_init` and all they call | `KeyStore`, abstractly `KeyService` and `KeyEnvironment` |
| boot | `common/main.c` | the screen | `main`, the Initialize entry of the menu | `KeyStore` |
| handlers | `apdu_handler.c`, `common/actions.h` | `tx_initialized`, the review that waits | one per instruction, and the two buttons | `SignApp`, abstractly `SignService`; `AddressApp` |
| transaction buffer | `common/tx.c` (over zxlib `buffering`) | the bytes collected | `tx_initialize`, `tx_reset`, `tx_append`, `tx_parse` | `SignApp`, `TxTransfer` |
| signature | `crypto.c`, `crypto_store.c:48-95` | flash: one signature per slot; RAM: `signature_set` | `crypto_sign`, `crypto_signature_part` | `SignApp`, abstractly `SignService` |
| parser | `parser_impl.c`, `parser_common.h`, `parser_txdef.h` | `ctx_parsed_tx`, `parser_tx_obj` | `parser_parse`, `_read`, the readers | `TxParser` |
| review items, digest | `parser.c`, `common/tx.c` | expert mode | `parser_validate`, `parser_getItem`, `parser_getDigest` | `TxReview`, against `DeepHash` |
| encoder | `js/src/index.js:73-168` | none | `encodeTx`, `prepareChunks` | `TxEncoder` |
| client | `js/src/index.js`, `common.js` | the calls under way | `sign`; `digest`, `getAddress`, `showAddress`, `getVersion`; `appInfo` | `SignClient` (`sign`), `QueryClient` (the others but `appInfo`) |
| address, base64url | `addr.c`, `b64url.c`, `crypto.c:104` | `G_io_apdu_buffer`, `action_addrResponseLen` | `crypto_fillAddress`, `b64url_encode`, `addr_getItem` | `AddressApp`, `Base64Url` |

**How they interact.** The host sends APDUs one at a time. SIGN comes in
chunks: INIT resets the buffer, ADD appends to it, LAST appends, parses,
validates and shows the review; the answer is given by the button the user
presses (`IO_ASYNCH_REPLY`). An approval writes the signature to flash and
answers with the digest. The host then fetches the two halves with GET_SIG; the
second fetch clears the signature. The parser copies nothing: `parser_tx_obj`
points into the buffer the host filled, and is never cleared. The key store runs
before any of this, at boot or from the menu, and leaves `device_initialized`
and `slot_in_use` behind; everything else reads the key pair through them.

**What is hard.** (1) Flash is written field by field over minutes of prime
search, with the power cable in the user's hand, and what an interrupted run
left decides what the next boot does. (2) The state of SIGN outlives a
transaction: `tx_initialized`, the buffer, `parser_tx_obj`, the signature and
`signature_set` each have their own lifetime, some in RAM and some in flash.
(3) The client makes five exchanges for one signature, any of which may be lost,
and does not look at the first answer. (4) The bytes are read in place from a
buffer whose content the host chooses, in 16-bit arithmetic. (5) Encoder,
parser, review and digest each list the same fields, in four places. (6) One
buffer, `G_io_apdu_buffer`, is the command, the text on the screen and the answer.

The hazards, each at its line with the properties that cover it, are listed in
`PROJECT.json`.

## The modules

**`KeyService`** is what the key store promises the rest of the app: while it
serves a private key, it is the key of the recovery phrase, the same one until
the app stops. It knows nothing of slots or flash.

**`KeyStore`** is `crypto_store.c` with every write to flash a step of its own.
`pc` is the next line to run. A field of a slot holds the mnemonic its content
was derived from, `Blank` (zeroes) or `Torn` (a write that was cut short):
derivation is a function, so this is all that can be told apart. `Fail` is any
failing call of the library, `PowerLoss` may happen before any step and leaves
the field under way torn or as it was. `world` says which build runs (the two
behave differently after an error, `AfterInit`) and which of the faults may
happen; `Init` chooses it among `Worlds` and no step changes it, so that one run
and one theorem speak of all of them, and a property can say in which it holds.
`FaultlessInv` is the inductive invariant of the properties that hold only
without faults: the slots fill in order, a flagged slot is whole, and an app that
is not ready has no slot with its phrase. The abstract state is recovered by the refinement mapping `serving`: the key in the slot in use,
when the app is ready and the key is whole.

**`KeyEnvironment`** is the key store as the handlers see it: the app starts,
becomes ready with the keys of a slot, stops, and meets another phrase. `SignApp`
and `AddressApp` are built on its actions. `BootKeys`, what they may rely on, is
not assumed: `KeyStore` implements `KeyEnvironment` (`EnvironmentSpec`), with
`Torn` and `Blank` both read as no key. It is weaker than one would like, since a
power cut may leave a ready app without its private key.

**`SignApp`** is the handlers, the buffer, the review and the signature. A
handler runs to its end on one thread and is one action; the action
`HandleApdu(c)` is the dispatcher with its refusals in the order of the code
(class, length, readiness, instruction, PIN). A transaction is a pair of chunks,
a head with its owner and a tail, and any head with any tail parses: chunks of
two transactions can join into a third, as bytes can. `CutShort` is power lost
while a signature is written or cleared, which leaves the old one, the new one or
one of nothing in flash. Histories: `signed`, the last transaction
approved since the app started; `gap`, whether a payload was refused for lack of
room since INIT; `released`, how often the second half was handed out.

**`SignService`** is what the handlers promise as a signer: a transaction is
proposed, approved or declined as it was proposed, the signature is its owner's,
it is what is handed out and nothing else is, and its second half ends it. There
are no chunks, buffers, flash or status words in it; `SignApp` implements it
(`SignerSpec`) with the review as the proposal, what GET_SIG would answer as the
offer, and an answer with a transaction and a key as a half handed out.

**`SignClient`** extends `SignApp` with calls of `sign()`: each exchange of the
client is `Deliver` (the handler runs), then `Receive`, or `SendFails` or
`AnswerLost`. `NextPlace` is the control flow of `signGetDigest` and `sign`, in
which the answer to INIT is not looked at.

**`Base64Url`** is `b64url_encode`, one byte of input a step, with its carry of
0, 2 or 4 bits; the reference beside it is RFC 4648's, group by group.
**`AddressApp`** is GET_VERSION, GET_PK and GET_ADDR over the cells of
`G_io_apdu_buffer`: a command is written over its front, GET_ADDR reads P1, clears
it and encodes the hash of the public key into it, each page of the review is
drawn from it as it is then, and the answer leaves from it. Commands it does not
know (those of signing are `SignApp`'s) leave their bytes in it. `FillAddress` is
what follows the loop of the encoder. **`QueryClient`** is the calls of the
package that sign nothing, on top of it, with an exchange in three parts as in
`SignClient` and another program that may use the device between the three
commands of `getAddress`. Histories: `confirmed`, the text the user approved;
`steady`, whether the app has run since the call began.

**`Widths`** is the 16 bits of the lengths that the package writes and the app
reads; `ByteSize`, 256, is a parameter, so that a small instance reaches the
length at which they wrap. **`TxParser`** is the parser over bytes, one step per element read. `pc` is the
place in `_read`. `parser_tx_obj` keeps what earlier parses left in it, and an
element that does not fit is left with its new length and its old pointer, as in
`parser_readElement`. `offset` and lengths have 16 bits.

**`TxReview`** extends it with validation, items and digest; `DeepHash` is the
definition of Arweave's deep hash, in which a list is its members' hashes folded
into the hash of its tag, and which `parser_getDigest` unrolls.
A hash is the text that was hashed between brackets, so that two are equal when
the texts are. **`TxEncoder`** is the encoder and the chunks of the package;
**`TxTransfer`** composes it with `process_chunk` and `TxReview`, over a buffer
of a given capacity: a chunk without room is refused and the call given up
(`Overflow`).

`MCKeyStore`, `MCSignApp`, `MCSignClient`, `MCQueryClient`, `MCTxReview` and
`MCTxTransfer` give
the constants their values for TLC. Definitions that begin with "Variant of" are
the code with a plausible mistake; nothing but the mutation of the model uses
them (`PROJECT.json`, "mutants").

## The runs

| Run | Question | Bounds |
| --- | --- | --- |
| `KeyStore` | Is the key served ever another phrase's, or half of one? `NoForeignPrivateKey`, `KeyPairsMatch`, refinement of `KeyService` and `KeyEnvironment`, the inductive invariants. No power cut: a ready app has both halves of its pair (`ReadyHasKeyPairUncut`). No library fault: Ready means ready (`IdleMeansReadyFaultless`), a good key is cleared only for a phrase without one (`KeysAreKept`), an app left on becomes ready (`EventuallyReady`). Neither: the two slots hold two phrases (`SlotsHoldDifferentSeeds`) | 3 phrases, 2 slots, all 8 worlds (Nano or Stax, faults or not, cuts or not), any number of boots |
| `SignApp` | What GET_SIG hands out is the last approval (`SignedIsApproved`), by its owner (`SignatureByOwner`), its second half once (`SecondHalfOnce`); no review has a hole (`NoGapInReview`) or differs from the buffer (`ReviewIsBuffered`); the app implements `SignService` (`SignerSpec`) | 2 phrases, 2 slots, 2 heads, 1 tail, room for 2 chunks, every command, power cuts |
| `SignClient` | A call that resolves has two halves of one signature (`ResolvesWithOneSignature`), of its own argument if INIT succeeded (`ResolvesAfterInit`); every call ends (`CallsEnd`) | 2 messages, room for 4 chunks, lossy transport, repeated calls |
| `SignClientTwo` | Two calls at once: what they resolve with was approved (`HalvesWereApproved`) | 2 calls, 2 messages with one tail |
| `Query` | Every page shows the address of the key in use (`ReviewShowsAddress`), `showAddress` resolves with what was shown (`ShownIsAnswered`), `getAddress` with the address of the key it returns (`AddressIsOfPubkey`), the encoder is RFC 4648's (`EncodingIsBase64`); every call ends (`QueriesEnd`) | 2 phrases, a buffer of 13 cells, addresses of 7 characters on pages of 4, lossy transport, another program |
| `TxReview` | What is accepted lies in the buffer (`ElementsInBuffer`) and is the encoding of what was understood (`ParsedIsEncoded`); whatever an earlier parse left in `parser_tx_obj`, the review has its items in order, in expert mode with every tag (`ReviewIsComplete`; format and owner are checked and not shown), and the digest is the deep hash (`DigestIsDeepHash`) | two parses of 331 buffers each, whole and damaged, both modes |
| `TxTransfer` | The chunks join (`ChunksJoin`) and what is reviewed is the message, whatever the lengths of its fields (`MessageIsReviewed`) | 76 messages, two in a row, lengths of 64 that wrap, room for 45 bytes |

Three phrases are one more than there are slots, which is what it takes to clear
both. In `SignApp` two heads with different owners and one tail already let
chunks of two transactions join; room for two chunks is a whole transaction, and
the third chunk overflows. In `SignClient` four chunks let a whole second
transaction follow a first one in the buffer, which is what a lost INIT leads
to. The owner has one byte instead of 512, two tags are allowed instead of 16,
a chunk has 4 bytes instead of 250: these are parameters, and the theorems hold
for the real ones. Fields of up to three bytes reach past what can be drawn
(`UiBuffer`, `KeyLine`), and the lengths of the messages meet every remainder of
the size of a chunk. In `TxTransfer` a byte of a length has 8 values instead of
256, so that a length wraps at 64, and the buffer has room for 45 bytes: as in the
code, less than the length that wraps (16384 and 65536, `CapacityAssumption`),
which is the only reason why a field of 64 bytes is not taken for an empty one
(mutant `FitsAlways`). In `Query` a hash has five bytes, which like 32 ends inside
a group of three (the loop meets only this length and the empty input there; other
remainders are the theorem's, `Encodes`); two pages let the user turn back; a modulus has two halves of
two bytes, one of which the two keys share; the buffer is longer than an address
with its padding, so that what is left of a long command can be seen.

Five runs show a disagreement between the code and a document or test, with one
property each; `PROJECT.json` quotes the lines.

| Run | What it shows |
| --- | --- |
| `KeyStoreCutKeys` | power lost between the flag and the keys leaves an app that is Ready without its keys, on every later boot too |
| `KeyStoreError` | on Stax an error of the initialization ends on the Ready screen of an app that refuses every command |
| `SignClientStale` | after a lost INIT, `sign()` may resolve with the signature of an earlier transaction |
| `TxTransferEmpty` | a transaction with an empty target is refused as invalid |
| `QueryDigest` | `digest()` sends an undefined instruction, which the app answers as GET_VERSION, and resolves with the version of the app |

Two smaller ones have no run. On a Nano the screen of `KeyStoreError` is reached
too, when the derivation of the test at boot fails and the one behind the
Initialize entry succeeds: `crypto_store_init` returns `zxerr_ok` on its
same-seed paths (`crypto_store.c:350`, `357`) without setting
`device_initialized` (action `SelectSlot`). And `docs/APDUSPEC.md:91` calls P2 of
SIGN unused, where `process_chunk` refuses any but 0 (action `SignBadParameter`).

The facts that hold only without faults are stated as such: a derivation
that fails while the slots are examined makes the code spend a slot, or both, on
a phrase that has one (`KeysAreKept` and `SlotsHoldDifferentSeeds` do not hold
where `world.faulty`, and so are no answer to that hazard). What holds there too
is that the app never serves another phrase's key (`NoForeignPrivateKey`,
`KeyPairsMatch`, `ServiceSpec`). With two calls of `sign()` at once, `ResolvesWithOneSignature`
does not hold either: each may fetch a half of a different signature. Nothing in
the repository promises that it would.

## Fairness

`KeyStore` assumes that the program goes on (`WF(Step)`) and that a user
in front of the Initialize menu chooses it in the end, or quits; power may be
lost, and phrases changed, without end, and then only the disjunct
`[]<>(pc = "off")` holds. The clients assume that the runtime and the transport owe a call that a
command is delivered or refused, that an answer arrives and that a stopped app is
noticed (`Progress`; that something is lost is possible at any step and never
owed), that a locked device is unlocked, and, strongly, that a user who can
choose again and again chooses: the device may be locked and unlocked any number
of times in between, which disables the choice, so that weak fairness would not
do. In `QueryClient` the choice is a button: approving is there behind the last
page only, rejecting is taken to be possible on any page, and turning pages is
not owed. Nothing is assumed of starting, stopping or locking, or of
another program.

## The proofs

Every invariant and action property that a passing run checks is a theorem, for
every value of the constants that satisfies the assumptions, and so is every
refinement. What has none is liveness.

| Module | What is proved |
| --- | --- |
| `KeyStoreProofs` | of `KeyStore`: `IInv`, `TypeOK`, `NoForeignPrivateKey`, `KeyPairsMatch`, `FaultlessInv`, `ReadyHasKeyPairUncut`, `IdleMeansReadyFaultless`, `SlotsHoldDifferentSeeds`, `KeysAreKept`, and that it implements `KeyService` and `KeyEnvironment` |
| `SignProofs` | of `SignApp`: `AppInv`, `TypeOK`, `SignedIsApproved`, `SignatureByOwner`, `NoGapInReview`, `SecondHalfOnce`, `ReviewIsBuffered`, and that it implements `SignService`; of `SignClient`, for any number of calls: `CallsInv`, `ClientTypeOK`, `HalvesWereApproved`, and that it implements `SignApp` and with it `SignService`; for one call: `AloneInv`, `ResolvesWithOneSignature`, `ResolvesAfterInit` |
| `AddressProofs` | of `Base64Url` and `AddressApp`: `B64Inv`, `EncodingIsBase64`, `AddressInv`, `ReviewShowsAddress` |
| `QueryClientProofs` | of `QueryClient`: `QueryInv`, `QueryTypeOK`, `ShownIsAnswered`, `AddressIsOfPubkey`, and there again `AddressInv` and `ReviewShowsAddress` |
| `TxParserProofs` | of `TxParser`: `ParserInv`, `TypeOK`, `ElementsInBuffer` |
| `TxReviewProofs` | of `TxReview`: `ReviewInv`, `ReviewTypeOK`, `ReviewIsComplete`, `DigestIsDeepHash`, `ParsedIsEncoded`, and that it implements `TxParser`; of `TxTransfer`: `ChunksJoin`, `MessageIsReviewed` |
| `TxCodecProofs` | lemmas: a step of the parser keeps `EncodedInv`, and what is written can be read back in one way only |
| `InductionLemmas` | lemmas: induction and recursion over the numbers, and sequences joined from others |

*Key store.* `NoForeignPrivateKey` says nothing of a slot that is not in use, of
one that is half cleared or of the middle of an initialization, so it is not
inductive. `IInv` adds that a slot's seed, primes and keys are those of one
phrase wherever the code has not just begun to replace them, that the slot in
use was matched to the phrase of the device before the app became ready, and
where in the sequence of writes each field has been cleared or written. The
order of `crypto_uninitialized_slot` (private key before seed before flag) is
what it needs; with the private key left in place (mutant `WipePrivForgotten`)
it fails. The refinement follows from it: the served key changes only when
`device_initialized` does. `KeyEnvironment` follows in the same way, its ready app
being one whose slot in use `IInv` has matched to the phrase. The properties of
worlds without faults rest on `FaultlessInv`: that both slots are asked in order
is what makes "not found at boot" mean "this phrase has no slot".

*Handlers.* `AppInv` adds to the properties that a review, a signature and a
count exist only in a ready app, whose keys are those of the phrase
(`ReadyStates`), and that a refused payload has cleared `tx_initialized`. That
the transaction on the screen is the front of the buffer (`ReviewIsBuffered`) is
what makes an approval's signature the owner's: it rests on the assumption that
no command arrives during a review. The refinement of `SignService` is a case for
each action of `Next`; that a half handed out is the offer is `SignedIsApproved`
and `SignatureByOwner`.

*Calls of `sign()`.* First `CallsUseTheApp`: a step of the calls is one of the
app or leaves it alone, so `AppInv` holds. `CallsInv` follows a half from where it
was made to where it is kept: what the app can hand out was approved, what it
answered was, what a call holds was. Nothing in it speaks of order, so it holds
for any number of calls and whatever is lost. One signature for both halves
is another matter, and true only of a call that no other interrupts
(`OneCall`: the caller of an `ArweaveApp` awaits each call before the next).
`AloneInv` says where the app is in the exchange of that call: no review is open
when LAST is sent or a half is asked for (`NoOtherReview`), the digest, the half
held and the half on the way are of the transaction the app last signed
(`OneSignature`), and, since an INIT that succeeded empties the buffer, of the
argument (`OwnMessage`). If INIT was lost the last part has no premise, which is what
`SignClientStale` shows.

*Address.* `B64Inv` says of the loop that the carry is the last byte modulo
`2^carry_count`, `carry_count` twice `i % 3`, and the output the reference's so
far; the reference is not recursive, so that the theorem is about inputs of any
length. `AddressInv` adds to `ReviewShowsAddress` that while an address is being
encoded the buffer is clear, which is what ends the string on the screen; without
any clearing (mutant `Uncleared`) the user would read the rest of an earlier
command behind the address. The code clears three times, in the handler, in
`crypto_fillAddress` and, for the characters alone, in `b64url_encode`; the model
once, since nothing writes to the buffer between them, and the mutant stands for
losing all three. `B64Inv` and `AddressInv` are proved of a step with any bytes as the
command (`AddressStep`), and so serve `QueryClient`, whose hosts send what they like.

*Queries.* Three parts are on top of `AddressInv`. `BufferInv`: while a review
is open the buffer is the address and zeroes, nothing else, and its length is what will be
answered. `ShowInv`: nothing is answered
before the review, and the answer is the text that was confirmed. That text is the
pages as the user read them, the answer is cut from the buffer after the last of
them, and the lemma between the two is about cutting a string into pages of one
size and joining them. `KeysInv`: as long as the app has run since the call began, every
answer so far is about one key, and the one on the way is about the key in use, since a
ready app keeps its keys.

*Parser.* `ElementsInBuffer` speaks of the end of a parse. `ParserInv` says at
each place of `_read` which elements have been read (`Rank`), that they end at or
before `offset`, and that `offset` is within the buffer; `ReadElementBounds` is
the lemma about the one function that moves it. Elements not read yet are those
of earlier transactions and may point anywhere, which is why the order of the
reads is part of the invariant.

*Review and transfer.* The items are counted and found by index in one place of
the code and listed by the specification in another; `ItemsAreReview` shows that
they agree for every number of tags. The digest is a loop over the tags against a
fold, by induction on the tags. `EncodedInv` says that up to its place the parser
has read exactly what the package writes for the fields and tags it has found.
That gives `ParsedIsEncoded`, for anything a host may send. `ChunksInv` says that
the buffer holds the chunks sent so far, for every length and every size of a
chunk. `MessageIsReviewed` joins the two: what was read, written again, is the
buffer, the buffer is the message, written, and no two transactions are written
alike. That last is cancellation, field by field (`TxCodecProofs`), and needs
that a message which has room in the buffer has no length beyond 16 bits.

*Induction.* The induction theorems of the library take an operator and cannot
be used here. `LeastNumber`, that a set of numbers which is not empty has a least
one, is proved from what is known of finite sets, and induction and recursion
over the numbers are lemmas about sets and functions that follow from it. For
their sake no module that is proved about has a `RECURSIVE` operator.

**Assumptions** are those named `...Assumption` in the modules: constants that stand
for "nothing" differ from the others, sizes are natural numbers, buffers and
messages hold bytes, an address with its header fits one command (a buffer of at
most 260 cells) and a chunk its length byte. TLC evaluates them in every run. Two
hypotheses are stated in theorems instead. `OneCall` is that of
`ResolvesWithOneSignature` and `ResolvesAfterInit`, which two calls break.
`ByteSize = 256` is that of `ParsedIsEncoded` and `MessageIsReviewed`: the width in
the code, under which the arithmetic of the lengths is linear, as the solver
needs it. TLC checks `MessageIsReviewed` with a byte of 8 values, so that a
length wraps in reach, and the theorem is about the real one.

**Only model-checked** are `EventuallyReady`, `CallsEnd` and `QueriesEnd`: fairness
is stated with `ENABLED`, which the prover does not handle. The five
disagreements are counterexamples, which TLC finds.

## What is assumed of code outside the repository

The SDK and zxlib are git submodules, empty here. From how the app uses them:
`io_exchange` brings no command while an asynchronous reply is due; a button can
be pressed on an unlocked device only; `buffering_append` takes a payload whole
or not at all and takes nothing before `buffering_init`; the Initialize entry of
the Nano menu goes to the idle screen when its function returned `zxerr_ok` and
back to the menu otherwise; `nvm_write` of one byte is atomic, of more is not;
derivation, prime search and key generation are functions of their input;
`cx_rsa_sign` fails on a key of zeroes; the transport carries one exchange at a
time and rejects a send while one is under way.

`hw-transport` writes an undefined instruction as a byte of zero
(`Buffer.from`); `pageString` cuts a string into pages of one size, and the
button of a review comes behind its last page.

## Not modelled

Drawing and paging of the items of a transaction (a value without a byte, or with a
zero in it, is drawn by zxlib) and the text of errors (layout); the derivation of the primes (one pure computation); `appInfo()` of the
package, whose command BOLOS answers and not the app; what is shown of a public
key whose write was cut short (in `AddressApp`, as in `SignApp`, such a key is
read as zeroes); helpers of `common.js` that nothing calls (`serializePathv1`,
`signSendChunkv1`, `printBIP44Path`); `APP_TESTING` builds, which have no keys;
`deps/sha512` and `crypto_helper.c` (one call of a hash, host builds); tests,
fuzzer, build files, glyphs and snapshots.

## Plan

The order followed was: the key, what is signed, the exchange that fetches it,
the bytes; then the address and the other calls, and the abstract signer and key
environment; then the proofs, of each component and of their compositions. What
is left:

1. `ParsedIsEncoded` and `MessageIsReviewed` for every `ByteSize`: the
   arithmetic of a length is then a product of two unknowns, and needs lemmas of
   its own.
2. An abstract specification of a transfer, which proposes the argument of
   `sign()` or refuses it, and `TxTransfer` shown to implement it; that would say
   of `SignApp`'s chunks what `TxTransfer` says of bytes.
3. The same for `QueryClient`: an answer about one key, without bytes or pages.
