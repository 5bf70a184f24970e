------------------------------ MODULE KeyStore ------------------------------
(***************************************************************************)
(* The key store of the app: app/src/crypto_store.c and the part of        *)
(* app/src/common/main.c that calls it at boot.                            *)
(*                                                                         *)
(* Two slots of flash (N_crypto_store) each hold a master seed, the two    *)
(* RSA primes, the two halves of the key pair and a flag.  Every write to  *)
(* flash is a step of its own, so that power may be lost between any two,  *)
(* and the field being written when power is lost may be left torn.        *)
(*                                                                         *)
(* Data.  The seed that os_derive_bip32 returns, the primes and the key    *)
(* pair are functions of the mnemonic, one of the other, so a field holds  *)
(* the mnemonic it was derived from, Blank (zeroes) or Torn (a write cut   *)
(* short).  The key pair that crypto_init_keys keeps in RAM between its    *)
(* three writes is the one of pq[slot_in_use], which no step changes       *)
(* meanwhile, and is not a variable.  Screens are only the value of pc.    *)
(***************************************************************************)
EXTENDS Naturals

CONSTANTS
    Seeds,      \* the mnemonics a user may load into the device
    Blank,      \* a field of zeroes
    Torn,       \* a field whose write was cut short
    Worlds      \* the worlds the app may run in

ASSUME SeedsAssumption == Blank \notin Seeds /\ Torn \notin Seeds

\* A world says whether the build is for Stax (or for a Nano), whether a call
\* of the cryptographic library may fail, and whether power may be lost at any
\* moment.  The first is TARGET_STAX, the others are not the app's to choose.
ASSUME WorldsAssumption ==
    Worlds \subseteq [stax : BOOLEAN, faulty : BOOLEAN, powerCuts : BOOLEAN]

KEY_SLOT_1 == 0
KEY_SLOT_2 == 1
Slots == {KEY_SLOT_1, KEY_SLOT_2}

VARIABLES
    \* Flash: one value per slot.
    masterSeed, pq, rsa_pub, rsa_priv, initialized,
    \* RAM.
    slot_in_use, device_initialized,
    \* Control: the next line to run, and the slot crypto_uninitialized_slot clears.
    pc, wiping,
    \* The device: the recovery phrase BOLOS derives from, and its world, which
    \* no step changes.
    mnemonic, world

flash == <<masterSeed, pq, rsa_pub, rsa_priv, initialized>>
ram == <<slot_in_use, device_initialized>>
device == <<mnemonic, world>>
vars == <<flash, ram, pc, wiping, device>>

Values == Seeds \cup {Blank, Torn}
Labels == {"off", "main", "menu", "store_init",
           "wipe_pq", "wipe_priv", "wipe_seed", "wipe_flag",
           "derive_seed", "init_primes", "init_keys", "store_pub", "store_priv",
           "idle"}

\* Every variable holds a value of its kind.
TypeOK ==
    /\ masterSeed \in [Slots -> Values]
    /\ pq \in [Slots -> Values]
    /\ rsa_pub \in [Slots -> Values]
    /\ rsa_priv \in [Slots -> Values]
    /\ initialized \in [Slots -> BOOLEAN]
    /\ slot_in_use \in Slots
    /\ device_initialized \in BOOLEAN
    /\ pc \in Labels
    /\ wiping \in Slots
    /\ mnemonic \in Seeds
    /\ world \in Worlds

Erased == [s \in Slots |-> Blank]

\* The app has just been installed.
Init ==
    /\ masterSeed = Erased
    /\ pq = Erased
    /\ rsa_pub = Erased
    /\ rsa_priv = Erased
    /\ initialized = [s \in Slots |-> FALSE]
    /\ slot_in_use = KEY_SLOT_1
    /\ device_initialized = FALSE
    /\ pc = "off"
    /\ wiping = KEY_SLOT_1
    /\ mnemonic \in Seeds
    /\ world \in Worlds

-----------------------------------------------------------------------------
\* The outcomes of a call of the cryptographic library.
Outcomes == IF world.faulty THEN BOOLEAN ELSE {TRUE}

\* Variants of same_masterseed with a mistake: no comparison, a comparison with
\* the first slot whatever the argument, one made after the seed was cleared.
AnyMasterSeed(slot, derived) == derived
FirstMasterSeed(slot, derived) == derived /\ masterSeed[KEY_SLOT_1] = mnemonic
ClearedMasterSeed(slot, derived) == derived /\ masterSeed[slot] = Blank

\* same_masterseed(slot): a derivation that fails answers FALSE, as a
\* different seed does.
SameMasterSeed(slot, derived) == derived /\ masterSeed[slot] = mnemonic

\* The flash slot crypto_store_init_test settles on, if any: slot 2 is not
\* looked at unless slot 1 is initialized.
FoundSlot(d1, d2) ==
    IF ~initialized[KEY_SLOT_1] THEN {}
    ELSE IF SameMasterSeed(KEY_SLOT_1, d1) THEN {KEY_SLOT_1}
    ELSE IF initialized[KEY_SLOT_2] /\ SameMasterSeed(KEY_SLOT_2, d2) THEN {KEY_SLOT_2}
    ELSE {}

\* The return of crypto_store_init to its caller.  main() ignores the result
\* on Stax and shows the idle screen; the menu of the Nano goes to the idle
\* screen only when the result is zxerr_ok.
AfterInit(ok) == IF ok \/ world.stax THEN "idle" ELSE "menu"

-----------------------------------------------------------------------------
(* The user and the device.                                                *)

PowerOn ==
    /\ pc = "off"
    /\ pc' = "main"
    /\ UNCHANGED <<flash, ram, wiping, device>>

\* Another recovery phrase (or passphrase) is loaded; no app is running.
ChangeMnemonic ==
    /\ pc = "off"
    /\ mnemonic' \in Seeds
    /\ UNCHANGED <<flash, ram, pc, wiping, world>>

\* The app is quit from a screen that offers it.
Quit ==
    /\ pc \in {"menu", "idle"}
    /\ pc' = "off"
    /\ slot_in_use' = KEY_SLOT_1
    /\ device_initialized' = FALSE
    /\ UNCHANGED <<flash, wiping, device>>

\* The Initialize entry of the Nano's menu runs crypto_store_init.
PressInitialize ==
    /\ pc = "menu"
    /\ pc' = "store_init"
    /\ UNCHANGED <<flash, ram, wiping, device>>

-----------------------------------------------------------------------------
(* Boot: main() runs crypto_store_init_test.                               *)

Main ==
    /\ pc = "main"
    /\ \E d1, d2 \in Outcomes :
          LET found == FoundSlot(d1, d2) IN
          /\ \/ /\ found = {}
                /\ device_initialized' = FALSE
                /\ pc' = IF world.stax THEN "store_init" ELSE "menu"
                /\ UNCHANGED slot_in_use
             \/ /\ slot_in_use' \in found
                /\ device_initialized' = TRUE
                /\ pc' = "idle"
          /\ UNCHANGED <<flash, wiping, device>>

-----------------------------------------------------------------------------
(* crypto_store_init chooses a slot.                                       *)

\* A slot that is not initialized is taken for a new key.
TakeSlot(slot) ==
    /\ slot_in_use' = slot
    /\ pc' = "derive_seed"
    /\ UNCHANGED <<flash, device_initialized, wiping, device>>

\* Variant of SelectSlot that numbers the slots from 1.
SelectSlotFromOne(slot) ==
    /\ slot_in_use' = slot + 1
    /\ pc' = AfterInit(TRUE)
    /\ UNCHANGED <<flash, device_initialized, wiping, device>>

\* A slot that holds the key of this mnemonic is selected, and the function
\* returns without setting device_initialized.
SelectSlot(slot) ==
    /\ slot_in_use' = slot
    /\ pc' = AfterInit(TRUE)
    /\ UNCHANGED <<flash, device_initialized, wiping, device>>

\* Both slots hold the keys of other mnemonics: both are cleared.
WipeBoth ==
    /\ wiping' = KEY_SLOT_1
    /\ pc' = "wipe_pq"
    /\ UNCHANGED <<flash, ram, device>>

StoreInit ==
    /\ pc = "store_init"
    /\ \E d1, d2 \in Outcomes :
          \/ ~initialized[KEY_SLOT_1] /\ TakeSlot(KEY_SLOT_1)
          \/ /\ initialized[KEY_SLOT_1]
             /\ \/ SameMasterSeed(KEY_SLOT_1, d1) /\ SelectSlot(KEY_SLOT_1)
                \/ /\ ~SameMasterSeed(KEY_SLOT_1, d1)
                   /\ \/ ~initialized[KEY_SLOT_2] /\ TakeSlot(KEY_SLOT_2)
                      \/ /\ initialized[KEY_SLOT_2]
                         /\ \/ SameMasterSeed(KEY_SLOT_2, d2) /\ SelectSlot(KEY_SLOT_2)
                            \/ ~SameMasterSeed(KEY_SLOT_2, d2) /\ WipeBoth

-----------------------------------------------------------------------------
(* crypto_uninitialized_slot(wiping): four writes.                         *)

WipePq ==
    /\ pc = "wipe_pq"
    /\ pq' = [pq EXCEPT ![wiping] = Blank]
    /\ pc' = "wipe_priv"
    /\ UNCHANGED <<masterSeed, rsa_pub, rsa_priv, initialized, ram, wiping, device>>

\* Variant of WipePriv that leaves the private key in the slot.
WipePrivForgotten ==
    /\ pc = "wipe_priv"
    /\ pc' = "wipe_seed"
    /\ UNCHANGED <<flash, ram, wiping, device>>

WipePriv ==
    /\ pc = "wipe_priv"
    /\ rsa_priv' = [rsa_priv EXCEPT ![wiping] = Blank]
    /\ pc' = "wipe_seed"
    /\ UNCHANGED <<masterSeed, pq, rsa_pub, initialized, ram, wiping, device>>

WipeSeed ==
    /\ pc = "wipe_seed"
    /\ masterSeed' = [masterSeed EXCEPT ![wiping] = Blank]
    /\ pc' = "wipe_flag"
    /\ UNCHANGED <<pq, rsa_pub, rsa_priv, initialized, ram, wiping, device>>

\* After slot 1 comes slot 2, after slot 2 a new key in slot 1.
WipeFlag ==
    /\ pc = "wipe_flag"
    /\ initialized' = [initialized EXCEPT ![wiping] = FALSE]
    /\ \/ /\ wiping = KEY_SLOT_1
          /\ wiping' = KEY_SLOT_2
          /\ pc' = "wipe_pq"
          /\ UNCHANGED slot_in_use
       \/ /\ wiping = KEY_SLOT_2
          /\ slot_in_use' = KEY_SLOT_1
          /\ pc' = "derive_seed"
          /\ UNCHANGED wiping
    /\ UNCHANGED <<masterSeed, pq, rsa_pub, rsa_priv, device_initialized, device>>

-----------------------------------------------------------------------------
(* crypto_initialize_slot: derive the seed, find the primes, make the keys *)

\* A call of the library failed: crypto_store_init returns the error.
Fail ==
    /\ world.faulty
    /\ pc \in {"derive_seed", "init_primes", "init_keys"}
    /\ pc' = AfterInit(FALSE)
    /\ UNCHANGED <<flash, ram, wiping, device>>

DeriveMasterSeed ==
    /\ pc = "derive_seed"
    /\ masterSeed' = [masterSeed EXCEPT ![slot_in_use] = mnemonic]
    /\ pc' = "init_primes"
    /\ UNCHANGED <<pq, rsa_pub, rsa_priv, initialized, ram, wiping, device>>

\* Variant of InitPrimes that reads the seed of the first slot.
InitPrimesOfFirstSlot ==
    /\ pc = "init_primes"
    /\ pq' = [pq EXCEPT ![slot_in_use] = masterSeed[KEY_SLOT_1]]
    /\ pc' = "init_keys"
    /\ UNCHANGED <<masterSeed, rsa_pub, rsa_priv, initialized, ram, wiping, device>>

InitPrimes ==
    /\ pc = "init_primes"
    /\ pq' = [pq EXCEPT ![slot_in_use] = masterSeed[slot_in_use]]
    /\ pc' = "init_keys"
    /\ UNCHANGED <<masterSeed, rsa_pub, rsa_priv, initialized, ram, wiping, device>>

\* The flag is the first of the three writes of crypto_init_keys.
InitKeys ==
    /\ pc = "init_keys"
    /\ initialized' = [initialized EXCEPT ![slot_in_use] = TRUE]
    /\ pc' = "store_pub"
    /\ UNCHANGED <<masterSeed, pq, rsa_pub, rsa_priv, ram, wiping, device>>

\* Variant of StorePub that leaves the public key of an earlier mnemonic.
StorePubForgotten ==
    /\ pc = "store_pub"
    /\ pc' = "store_priv"
    /\ UNCHANGED <<flash, ram, wiping, device>>

StorePub ==
    /\ pc = "store_pub"
    /\ rsa_pub' = [rsa_pub EXCEPT ![slot_in_use] = pq[slot_in_use]]
    /\ pc' = "store_priv"
    /\ UNCHANGED <<masterSeed, pq, rsa_priv, initialized, ram, wiping, device>>

\* Variant of StorePriv that does not set device_initialized.
StorePrivSilently ==
    /\ pc = "store_priv"
    /\ rsa_priv' = [rsa_priv EXCEPT ![slot_in_use] = pq[slot_in_use]]
    /\ pc' = AfterInit(TRUE)
    /\ UNCHANGED <<masterSeed, pq, rsa_pub, initialized, ram, wiping, device>>

StorePriv ==
    /\ pc = "store_priv"
    /\ rsa_priv' = [rsa_priv EXCEPT ![slot_in_use] = pq[slot_in_use]]
    /\ device_initialized' = TRUE
    /\ pc' = AfterInit(TRUE)
    /\ UNCHANGED <<masterSeed, pq, rsa_pub, initialized, slot_in_use, wiping, device>>

-----------------------------------------------------------------------------
(* Power loss.                                                             *)

\* The field a write at pc would have changed, cut short: torn or as it was.
\* The flag is one byte and is never torn.
TornAt(field, labels, slot) ==
    IF pc \in labels THEN {field, [field EXCEPT ![slot] = Torn]} ELSE {field}

PowerLoss ==
    /\ world.powerCuts
    /\ pc # "off"
    /\ pc' = "off"
    /\ slot_in_use' = KEY_SLOT_1
    /\ device_initialized' = FALSE
    /\ \/ /\ pc \in {"wipe_pq", "wipe_priv", "wipe_seed"}
          /\ pq' \in TornAt(pq, {"wipe_pq"}, wiping)
          /\ rsa_priv' \in TornAt(rsa_priv, {"wipe_priv"}, wiping)
          /\ masterSeed' \in TornAt(masterSeed, {"wipe_seed"}, wiping)
          /\ UNCHANGED rsa_pub
       \/ /\ pc \notin {"wipe_pq", "wipe_priv", "wipe_seed"}
          /\ masterSeed' \in TornAt(masterSeed, {"derive_seed"}, slot_in_use)
          /\ pq' \in TornAt(pq, {"init_primes"}, slot_in_use)
          /\ rsa_pub' \in TornAt(rsa_pub, {"store_pub"}, slot_in_use)
          /\ rsa_priv' \in TornAt(rsa_priv, {"store_priv"}, slot_in_use)
    /\ UNCHANGED <<initialized, wiping, device>>

-----------------------------------------------------------------------------
\* What the program does on its own, without the user.
Step ==
    \/ Main \/ StoreInit
    \/ WipePq \/ WipePriv \/ WipeSeed \/ WipeFlag
    \/ DeriveMasterSeed \/ InitPrimes \/ InitKeys \/ StorePub \/ StorePriv
    \/ Fail

Next ==
    \/ Step
    \/ PowerOn \/ ChangeMnemonic \/ Quit \/ PressInitialize \/ PowerLoss

Spec == Init /\ [][Next]_vars

\* The program keeps running, and a user in front of the menu ends up
\* choosing Initialize (or quitting).
FairSpec == Spec /\ WF_vars(Step) /\ WF_vars(PressInitialize)

-----------------------------------------------------------------------------
(* Properties.                                                             *)

\* A ready device (device_initialized, the only guard of handleApdu) has in
\* its slot in use the key pair of the mnemonic it holds: both halves, the one
\* GET_PK gets "out" (docs/APDUSPEC.md:175) and the one that signs.
ReadyHasKeyPair ==
    device_initialized =>
        rsa_pub[slot_in_use] = mnemonic /\ rsa_priv[slot_in_use] = mnemonic

\* Where power is never cut it has, failures of the library or not.
ReadyHasKeyPairUncut == ~world.powerCuts => ReadyHasKeyPair

\* A ready device never signs with the private key of another mnemonic,
\* wherever power was lost before: its key is the right one, or no key.
NoForeignPrivateKey ==
    device_initialized => rsa_priv[slot_in_use] \in {mnemonic, Blank, Torn}

\* Wherever power was lost, a slot's private key has its own public key
\* beside it: an app that can sign at all shows the address it signs for.
KeyPairsMatch == \A s \in Slots : rsa_priv[s] \in Seeds => rsa_pub[s] = rsa_priv[s]

\* The idle ("Ready") screen is shown only by an app that accepts commands:
\* tests_zemu/tests/address.test.ts:57 waits for it, to find that "here we have
\* the device initialized" (line 59).
IdleMeansReady == pc = "idle" => device_initialized

\* Where no call of the library fails that screen is right, power cuts or not.
IdleMeansReadyFaultless == ~world.faulty => IdleMeansReady

StoredKey(s) == initialized[s] /\ rsa_priv[s] \in Seeds

\* A complete private key in a slot is never lost to a step taken for a
\* mnemonic that has a key in one of the slots: only a mnemonic that is in
\* neither clears them.  (A comparison that fails counts as a mismatch, so
\* this is said of a world without failures.)
KeysAreKept ==
    [][~world.faulty =>
        \A s \in Slots : StoredKey(s) /\ rsa_priv'[s] # rsa_priv[s]
          => \A t \in Slots : StoredKey(t) => rsa_priv[t] # mnemonic]_vars

\* The two slots are not spent on the same mnemonic, where neither a failed
\* comparison nor a half-made key hides that one of them holds it.
SlotsHoldDifferentSeeds ==
    ~world.faulty /\ ~world.powerCuts
        /\ StoredKey(KEY_SLOT_1) /\ StoredKey(KEY_SLOT_2)
        => rsa_priv[KEY_SLOT_1] # rsa_priv[KEY_SLOT_2]

\* An app that is left on becomes ready and stays ready, if the library works.
EventuallyReady ==
    ~world.faulty => []<>(pc = "off") \/ <>[]device_initialized

-----------------------------------------------------------------------------
(* The inductive invariant behind NoForeignPrivateKey and KeyPairsMatch.   *)

\* A private key is the one of the master seed beside it.
KeyMatchesSeed == \A s \in Slots : rsa_priv[s] \in Seeds => masterSeed[s] = rsa_priv[s]

\* A slot that is free for a new key holds none.
FreeSlotHasNoKey == \A s \in Slots : ~initialized[s] => rsa_priv[s] \notin Seeds

\* How far the making of a key has come.
MakingKey ==
    /\ pc \in {"derive_seed", "init_primes", "init_keys"} => ~initialized[slot_in_use]
    /\ pc \in {"store_pub", "store_priv"} =>
          initialized[slot_in_use] /\ rsa_priv[slot_in_use] \notin Seeds
    /\ pc \in {"init_primes", "init_keys", "store_pub", "store_priv"} =>
          masterSeed[slot_in_use] = mnemonic
    /\ pc \in {"init_keys", "store_pub", "store_priv"} => pq[slot_in_use] = mnemonic
    /\ pc = "store_priv" => rsa_pub[slot_in_use] = mnemonic

\* How far the clearing of the slots has come.
ClearingSlots ==
    /\ pc \in {"wipe_seed", "wipe_flag"} => rsa_priv[wiping] \notin Seeds
    /\ pc \in {"wipe_pq", "wipe_priv", "wipe_seed", "wipe_flag"} /\ wiping = KEY_SLOT_2 =>
          ~initialized[KEY_SLOT_1]

\* The app is ready on its idle screen only, in a slot of this mnemonic.
ReadyInOwnSlot ==
    device_initialized =>
        /\ pc = "idle"
        /\ initialized[slot_in_use]
        /\ masterSeed[slot_in_use] = mnemonic

IInv ==
    /\ TypeOK
    /\ KeyMatchesSeed
    /\ KeyPairsMatch
    /\ FreeSlotHasNoKey
    /\ MakingKey
    /\ ClearingSlots
    /\ ReadyInOwnSlot

-----------------------------------------------------------------------------
(* The inductive invariant behind the properties of worlds without faults  *)
(* or without power cuts.                                                  *)

Wiping == {"wipe_pq", "wipe_priv", "wipe_seed", "wipe_flag"}
Making == {"derive_seed", "init_primes", "init_keys", "store_pub", "store_priv"}

\* Without power cuts a flagged slot has its keys, but while it is made or cleared.
FlaggedSlotsAreWhole ==
    ~world.powerCuts =>
        \A s \in Slots : initialized[s] =>
            \/ masterSeed[s] \in Seeds /\ rsa_priv[s] = masterSeed[s]
            \/ pc \in {"store_pub", "store_priv"} /\ s = slot_in_use
            \/ pc \in {"wipe_seed", "wipe_flag"} /\ s = wiping

\* Without power cuts slot 2 is taken when slot 1 is, but while both are cleared.
SlotsFillInOrder ==
    ~world.powerCuts =>
        /\ initialized[KEY_SLOT_2] =>
              initialized[KEY_SLOT_1] \/ (pc \in Wiping /\ wiping = KEY_SLOT_2)
        /\ pc \in Making =>
              IF slot_in_use = KEY_SLOT_1 THEN ~initialized[KEY_SLOT_2] ELSE initialized[KEY_SLOT_1]

HoldsMnemonic(s) == initialized[s] /\ masterSeed[s] = mnemonic

\* Without faults the app is not ready only for want of a key: a key is made,
\* and slots are cleared for it, for a mnemonic that has none.
NotReadyForWantOfKey ==
    ~world.faulty =>
        /\ pc \in {"menu", "store_init"} =>
              /\ ~HoldsMnemonic(KEY_SLOT_1)
              /\ initialized[KEY_SLOT_1] => ~HoldsMnemonic(KEY_SLOT_2)
        /\ pc \in Making /\ slot_in_use = KEY_SLOT_2 => ~HoldsMnemonic(KEY_SLOT_1)
        /\ pc \in Wiping => \A s \in Slots : ~HoldsMnemonic(s)

FaultlessInv ==
    /\ FlaggedSlotsAreWhole
    /\ SlotsFillInOrder
    /\ NotReadyForWantOfKey
    /\ IdleMeansReadyFaultless
    /\ SlotsHoldDifferentSeeds

-----------------------------------------------------------------------------
(* Refinement.                                                             *)

\* The key that the handlers find in the slot in use.
KeyInUse(keys) ==
    IF device_initialized /\ keys[slot_in_use] \in Seeds THEN keys[slot_in_use] ELSE Blank

\* What SignApp is built on.
Environment == INSTANCE KeyEnvironment WITH
    Keys <- Seeds, NoKey <- Blank, running <- (pc # "off"),
    slot_in_use <- (IF device_initialized THEN slot_in_use ELSE KEY_SLOT_1),
    rsa_pub <- KeyInUse(rsa_pub), rsa_priv <- KeyInUse(rsa_priv)

\* The key store gives the handlers what they rely on, power cuts or not:
\* from the moment the app is ready until it stops one slot and one pair of
\* keys, the mnemonic's own, or no key to sign with.
EnvironmentSpec == Environment!KeySpec

\* The promise of the abstract specification, with the key that crypto_sign
\* would use as the key being served.
Service == INSTANCE KeyService WITH NoKey <- Blank, serving <- KeyInUse(rsa_priv)

ServiceSpec == Service!Spec
=============================================================================
