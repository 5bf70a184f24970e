----------------------------- MODULE AddressApp ------------------------------
(***************************************************************************)
(* GET_VERSION, GET_PK and GET_ADDR (apdu_handler.c, crypto.c,             *)
(* crypto_store.c), the review of the address (addr.c, actions.h), and the *)
(* one buffer they have for everything: G_io_apdu_buffer holds the command *)
(* as it comes in, the address while the user reads it, page by page, and  *)
(* the answer.  Nothing but the handlers' MEMZERO removes what an earlier  *)
(* command or answer has left in it.                                       *)
(*                                                                         *)
(* Bytes are numbers, cells are counted from 0 as in C.  A handler is one  *)
(* thread; the loop of b64url_encode (Base64Url) is seen step by step,     *)
(* since power may be lost in it.  What a review may do besides, the       *)
(* device locked in it included, and the commands about signing are in     *)
(* SignApp; here they are commands with an instruction not known.          *)
(***************************************************************************)
EXTENDS KeyEnvironment, Base64Url

CONSTANTS
    Modulus,            \* the modulus of each public key, zeroes for NoKey
    Sha256,             \* the hash of a modulus, and of the empty string
    CX_SHA256_SIZE,
    RSA_MODULUS_HALVE,
    AddressSize,        \* the size of answer_t.addrStr
    BufferSize,         \* IO_APDU_BUFFER_SIZE
    PageSize,           \* the characters of an address a page of the screen holds
    Version,            \* LEDGER_MAJOR_VERSION, MINOR and PATCH
    TARGET_ID           \* the four bytes of the number of the device's kind

ASSUME ModulusAssumption ==
    /\ Modulus \in [Keys \cup {NoKey} -> Seq(Byte)]
    /\ \A key \in Keys \cup {NoKey} : Len(Modulus[key]) = 2 * RSA_MODULUS_HALVE
ASSUME HashAssumption ==
    /\ <<>> \in Inputs
    /\ Sha256 \in [{Modulus[key] : key \in Keys} \cup {<<>>} ->
                      {hash \in Inputs : Len(hash) = CX_SHA256_SIZE}]
\* The sizes for which the checks of crypto.c and b64url.c never fail; a command
\* is a header of five bytes, the last of which is the length of the rest.
ASSUME SizesAssumption ==
    /\ CX_SHA256_SIZE \in Nat \ {0} /\ RSA_MODULUS_HALVE \in Nat
    /\ BufferSize \in Nat /\ BufferSize <= 5 + 255
    /\ PageSize \in Nat \ {0}
    /\ AddressSize = minimumBufferSize(CX_SHA256_SIZE)
    /\ AddressSize + 4 <= BufferSize - 2 /\ RSA_MODULUS_HALVE <= BufferSize - 3
    /\ 11 <= BufferSize
ASSUME VersionAssumption ==
    /\ Version \in Seq(Byte) /\ Len(Version) = 3
    /\ TARGET_ID \in Seq(Byte) /\ Len(TARGET_ID) = 4

CLA == 68
INS_GET_VERSION == 0
INS_GET_ADDR == 1
INS_GET_PK == 32

OFFSET_CLA == 0
OFFSET_INS == 1
OFFSET_P1 == 2
OFFSET_P2 == 3
OFFSET_DATA_LEN == 4

\* Status words, as the two bytes of the answer.
APDU_CODE_OK == <<144, 0>>
APDU_CODE_CONDITIONS_NOT_SATISFIED == <<105, 133>>
APDU_CODE_COMMAND_NOT_ALLOWED == <<105, 134>>
APDU_CODE_TX_NOT_INITIALIZED == <<105, 135>>
APDU_CODE_INS_NOT_SUPPORTED == <<109, 0>>
APDU_CODE_CLA_NOT_SUPPORTED == <<110, 0>>

VARIABLES
    pin,                    \* the device is unlocked
    apdu,                   \* G_io_apdu_buffer
    tx,                     \* the length of the answer in it, 0 for none
    action_addrResponseLen,
    requireConfirmation,    \* the P1 of the GET_ADDR being handled
    stage,                  \* of a GET_ADDR: the address is encoded, is under review
    pages                   \* the pages the user has read in this review

answer == <<apdu, tx, action_addrResponseLen, requireConfirmation, stage, pages>>
addressVars == <<keyVars, pin, b64, answer>>

Cells == 0..(BufferSize - 1)
Zeroes == [cell \in Cells |-> 0]

\* MEMCPY to the front of the buffer.
Put(buffer, bytes) ==
    [cell \in Cells |-> IF cell < Len(bytes) THEN bytes[cell + 1] ELSE buffer[cell]]

\* Variants of Cleared, without any of the three MEMZEROs; of Confirmation, read after it; and
\* of addrLen, with the padding.
Uncleared(buffer) == buffer
ConfirmationTooLate(buffer) == Zeroes[OFFSET_P1]
addrLenPadded == AddressSize + 4

\* handleGetAddress: the buffer is cleared, P1 read before it is; the padding of
\* answer_t is not counted.  Cleared stands for the MEMZERO of the handler and for
\* those of crypto_fillAddress (crypto.c:105) and b64url_encode (b64url.c:35) that
\* follow it and find nothing left to clear.
Cleared(buffer) == Zeroes
Confirmation(buffer) == buffer[OFFSET_P1]
addrLen == AddressSize

AddressTypeOK ==
    /\ mnemonic \in Keys /\ running \in BOOLEAN /\ pin \in BOOLEAN
    /\ device_initialized \in BOOLEAN /\ slot_in_use \in Slots
    /\ rsa_pub \in Keys \cup {NoKey} /\ rsa_priv \in Keys \cup {NoKey}
    /\ apdu \in [Cells -> Byte]
    /\ tx \in 0..BufferSize
    /\ action_addrResponseLen \in {0, AddressSize}
    /\ requireConfirmation \in Byte
    /\ stage \in {"none", "encoding", "review"}
    /\ pages \in Seq(Seq(Byte))

AddressInit ==
    /\ KeyInit /\ pin = TRUE
    /\ EncodeInit /\ in = <<>>
    /\ apdu = Zeroes /\ tx = 0
    /\ action_addrResponseLen = 0 /\ requireConfirmation = 0
    /\ stage = "none" /\ pages = <<>>

-----------------------------------------------------------------------------
(* The handlers.                                                           *)

\* The status word goes behind the first len bytes of the buffer.
Reply(buffer, len, sw) ==
    /\ apdu' = [buffer EXCEPT ![len] = sw[1], ![len + 1] = sw[2]]
    /\ tx' = len + 2

\* Answers at once; nothing else changes.
Say(buffer, len, sw) ==
    /\ Reply(buffer, len, sw)
    /\ UNCHANGED <<b64, action_addrResponseLen, requireConfirmation, stage, pages>>

Known(ins) == ins \in {INS_GET_VERSION, INS_GET_ADDR, INS_GET_PK}

\* The checks of handleApdu before a handler is chosen, in their order.
Refuse(buffer) ==
    LET ins == buffer[OFFSET_INS] IN
    \/ /\ buffer[OFFSET_CLA] # CLA
       /\ Say(buffer, 0, APDU_CODE_CLA_NOT_SUPPORTED)
    \/ /\ buffer[OFFSET_CLA] = CLA
       /\ ~device_initialized /\ ins # INS_GET_VERSION
       /\ Say(buffer, 0, APDU_CODE_TX_NOT_INITIALIZED)
    \/ /\ buffer[OFFSET_CLA] = CLA
       /\ device_initialized /\ ~Known(ins)
       /\ Say(buffer, 0, APDU_CODE_INS_NOT_SUPPORTED)
    \/ /\ buffer[OFFSET_CLA] = CLA
       /\ device_initialized /\ ins \in {INS_GET_ADDR, INS_GET_PK} /\ ~pin
       /\ Say(buffer, 0, APDU_CODE_COMMAND_NOT_ALLOWED)

Admitted(buffer, ins) ==
    /\ buffer[OFFSET_CLA] = CLA /\ buffer[OFFSET_INS] = ins
    /\ ins = INS_GET_VERSION \/ (device_initialized /\ pin)

handle_getversion(buffer) ==
    /\ Admitted(buffer, INS_GET_VERSION)
    /\ Say(Put(buffer, <<0>> \o Version \o <<IF pin THEN 0 ELSE 1>> \o TARGET_ID), 9, APDU_CODE_OK)

\* Variant of Half without the offset.
HalfFromStart(part) == SubSeq(Modulus[rsa_pub], 1, RSA_MODULUS_HALVE)

\* crypto_pubkey_part: one half of the modulus.
Half(part) ==
    SubSeq(Modulus[rsa_pub], part * RSA_MODULUS_HALVE + 1, (part + 1) * RSA_MODULUS_HALVE)

handleGetPubKeyPart(buffer) ==
    /\ Admitted(buffer, INS_GET_PK)
    /\ \/ /\ buffer[OFFSET_DATA_LEN] # 0
          /\ Say(buffer, 0, APDU_CODE_COMMAND_NOT_ALLOWED)
       \/ /\ buffer[OFFSET_DATA_LEN] = 0 /\ buffer[OFFSET_P2] > 1
          /\ Say(Zeroes, 0, APDU_CODE_CONDITIONS_NOT_SATISFIED)
       \/ /\ buffer[OFFSET_DATA_LEN] = 0 /\ buffer[OFFSET_P2] <= 1
          /\ Say(Put(Zeroes, Half(buffer[OFFSET_P2])), RSA_MODULUS_HALVE, APDU_CODE_OK)

\* The hash of the first rsa_pubkey->size bytes of the modulus: the size is 0
\* when the public key is all zeroes.
HashOfPub(pub) == Sha256[IF pub = NoKey THEN <<>> ELSE Modulus[pub]]

\* handleGetAddress up to the loop of b64url_encode.
handleGetAddress(buffer) ==
    /\ Admitted(buffer, INS_GET_ADDR)
    /\ \/ /\ buffer[OFFSET_DATA_LEN] # 0
          /\ Say(buffer, 0, APDU_CODE_COMMAND_NOT_ALLOWED)
       \/ /\ buffer[OFFSET_DATA_LEN] = 0
          /\ requireConfirmation' = Confirmation(buffer)
          /\ apdu' = Cleared(buffer) /\ tx' = 0
          /\ action_addrResponseLen' = 0
          /\ Begin(HashOfPub(rsa_pub))
          /\ stage' = "encoding"
          /\ UNCHANGED pages

\* io_exchange writes a command over the front of the buffer.
HandleApdu(command) ==
    /\ running /\ stage = "none"
    /\ LET buffer == Put(apdu, command) IN
       \/ Refuse(buffer)
       \/ handle_getversion(buffer) \/ handleGetPubKeyPart(buffer) \/ handleGetAddress(buffer)
    /\ UNCHANGED <<keyVars, pin>>

EncodeStep ==
    /\ stage = "encoding"
    /\ EncodeByte
    /\ UNCHANGED <<keyVars, pin, answer>>

\* The rest of crypto_fillAddress and of handleGetAddress: addrStr and four
\* bytes of padding, which are not counted; then the review or the answer.  The
\* locals of the loop are gone.
FillAddress ==
    /\ stage = "encoding" /\ i = Len(in)
    /\ action_addrResponseLen' = addrLen
    /\ \/ /\ requireConfirmation # 0
          /\ apdu' = Put(apdu, Encoded)
          /\ stage' = "review"
          /\ UNCHANGED tx
       \/ /\ requireConfirmation = 0
          /\ Reply(Put(apdu, Encoded), addrLen, APDU_CODE_OK)
          /\ stage' = "none"
    /\ Begin(<<>>)
    /\ UNCHANGED <<keyVars, pin, requireConfirmation, pages>>

-----------------------------------------------------------------------------
(* The review: addr_getItem draws each page from the buffer as it is then. *)

\* The C string at the front of the buffer.
Text(buffer) ==
    LET isText(len) == \A cell \in 0..(len - 1) : buffer[cell] # 0
        len == CHOOSE n \in 0..BufferSize :
                   isText(n) /\ (n = BufferSize \/ buffer[n] = 0)
    IN [k \in 1..len |-> buffer[k - 1]]

pageCount(text) == (Len(text) + PageSize - 1) \div PageSize

\* pageString.
pageString(text, page) ==
    [k \in 1..(IF page < pageCount(text) THEN PageSize ELSE Len(text) - (page - 1) * PageSize) |->
        text[(page - 1) * PageSize + k]]

\* The user turns to the next page, or back to one before it.
ShowPage ==
    /\ stage = "review"
    /\ \E page \in 1..(Len(pages) + 1) :
          /\ page <= pageCount(Text(apdu))
          /\ pages' = [k \in 1..(IF page > Len(pages) THEN page ELSE Len(pages)) |->
                          IF k = page THEN pageString(Text(apdu), page) ELSE pages[k]]
    /\ UNCHANGED <<keyVars, pin, b64, apdu, tx, action_addrResponseLen, requireConfirmation, stage>>

\* app_reply_address; the button comes after the last page.
ApproveAddress ==
    /\ stage = "review" /\ pin
    /\ Len(pages) = pageCount(Text(apdu))
    /\ Reply(apdu, action_addrResponseLen, APDU_CODE_OK)
    /\ stage' = "none" /\ pages' = <<>>
    /\ UNCHANGED <<keyVars, pin, b64, action_addrResponseLen, requireConfirmation>>

\* app_reject.
Reject ==
    /\ stage = "review" /\ pin
    /\ Reply(Zeroes, 0, APDU_CODE_COMMAND_NOT_ALLOWED)
    /\ stage' = "none" /\ pages' = <<>>
    /\ UNCHANGED <<keyVars, pin, b64, action_addrResponseLen, requireConfirmation>>

-----------------------------------------------------------------------------
Start == KeyStart /\ UNCHANGED <<pin, b64, answer>>

Initialize == BecomeReady /\ UNCHANGED <<pin, b64, answer>>

\* The app is quit or power is lost: its memory is gone.
Stop ==
    /\ KeyStop
    /\ apdu' = Zeroes /\ tx' = 0
    /\ action_addrResponseLen' = 0 /\ requireConfirmation' = 0
    /\ stage' = "none" /\ pages' = <<>>
    /\ Begin(<<>>)
    /\ UNCHANGED pin

ChangeMnemonic == KeyChange /\ UNCHANGED <<pin, b64, answer>>

ToggleLock == pin' = ~pin /\ UNCHANGED <<keyVars, b64, answer>>

\* What other hosts send, some of it refused; what is refused leaves its bytes
\* in the buffer.
Send(ins, p1, p2, data) == <<CLA, ins, p1, p2, Len(data)>> \o data

Commands ==
    {Send(INS_GET_ADDR, p1, 0, <<>>) : p1 \in 0..1}
    \cup {Send(INS_GET_PK, 0, part, <<>>) : part \in 1..2}
    \cup {Send(ins, 0, 0, <<88>>) : ins \in {INS_GET_ADDR, INS_GET_PK}}
    \cup {Send(99, 0, 0, [k \in 1..(BufferSize - 5) |-> 88]), <<0, 0, 0, 0, 0>>}

AppStep == EncodeStep \/ FillAddress
UserChoice == ShowPage \/ ApproveAddress \/ Reject
Environment == Start \/ Initialize \/ Stop \/ ChangeMnemonic \/ ToggleLock

AddressNext ==
    \/ \E command \in Commands : HandleApdu(command)
    \/ AppStep \/ UserChoice \/ Environment

AddressSpec == AddressInit /\ [][AddressNext]_addressVars

-----------------------------------------------------------------------------
(* Properties.                                                             *)

\* While the user reads, the buffer holds the address of the public key in use
\* and nothing behind it, whatever commands and answers it held before: every
\* page, and every page turned back to, is a part of that address.
ReviewShowsAddress ==
    stage = "review" =>
        LET address == Base64(HashOfPub(rsa_pub)) IN
        /\ Text(apdu) = address
        /\ pages = [page \in 1..Len(pages) |-> pageString(address, page)]

\* The inductive invariant behind it: a GET_ADDR runs only in an app that is
\* ready, whose keys do not change; the hash being encoded is that of its public
\* key, and the buffer stays clear until the address is in it.
AddressInv ==
    /\ rsa_pub \in Keys \cup {NoKey}
    /\ B64Inv
    /\ stage # "none" => device_initialized
    /\ stage = "encoding" => in = HashOfPub(rsa_pub) /\ apdu = Zeroes
    /\ Len(pages) \in Nat
    /\ stage # "review" => pages = <<>>
    /\ ReviewShowsAddress
=============================================================================
