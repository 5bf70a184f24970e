--------------------------- MODULE KeyEnvironment ---------------------------
(***************************************************************************)
(* The key store as the handlers of the app see it: the app runs or not,   *)
(* is ready or not, and when it is ready there is a slot in use with a key *)
(* pair, or with what an interrupted initialization left of one.           *)
(*                                                                         *)
(* SignApp is built on these actions; KeyStore implements them, so that    *)
(* BootKeys, what the handlers may rely on, is a fact about                *)
(* crypto_store.c and no assumption.  It is weaker than one would like: a  *)
(* power cut may leave a ready app without a private key and with any      *)
(* public key.                                                             *)
(***************************************************************************)
CONSTANTS
    Keys,       \* the mnemonics, and the keys derived from them
    NoKey,      \* a key field of zeroes, or torn
    Slots,      \* the flash slots of keys and signatures
    KEY_SLOT_1  \* the slot in use until another is chosen

ASSUME KeysAssumption == NoKey \notin Keys
ASSUME SlotsAssumption == KEY_SLOT_1 \in Slots

VARIABLES
    mnemonic, running,              \* the device
    device_initialized, slot_in_use, rsa_pub, rsa_priv

store == <<device_initialized, slot_in_use, rsa_pub, rsa_priv>>
keyVars == <<mnemonic, running, store>>

KeyInit ==
    /\ mnemonic \in Keys /\ running = FALSE
    /\ device_initialized = FALSE /\ slot_in_use = KEY_SLOT_1
    /\ rsa_pub = NoKey /\ rsa_priv = NoKey

\* The keys a ready app may find in its slot.
BootKeys(pub, priv) == priv = NoKey \/ (priv = mnemonic /\ pub = mnemonic)

KeyStart ==
    /\ ~running
    /\ running' = TRUE
    /\ UNCHANGED <<mnemonic, store>>

\* crypto_store_init_test or crypto_store_init makes the app ready.
BecomeReady ==
    /\ running /\ ~device_initialized
    /\ device_initialized' = TRUE
    /\ slot_in_use' \in Slots
    /\ rsa_pub' \in Keys \cup {NoKey}
    /\ rsa_priv' \in Keys \cup {NoKey}
    /\ BootKeys(rsa_pub', rsa_priv')
    /\ UNCHANGED <<mnemonic, running>>

\* The app is quit or power is lost.
KeyStop ==
    /\ running
    /\ running' = FALSE
    /\ device_initialized' = FALSE /\ slot_in_use' = KEY_SLOT_1
    /\ rsa_pub' = NoKey /\ rsa_priv' = NoKey
    /\ UNCHANGED mnemonic

KeyChange ==
    /\ ~running
    /\ mnemonic' \in Keys
    /\ UNCHANGED <<running, store>>

KeyNext == KeyStart \/ BecomeReady \/ KeyStop \/ KeyChange

KeySpec == KeyInit /\ [][KeyNext]_keyVars
=============================================================================
