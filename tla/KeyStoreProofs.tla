--------------------------- MODULE KeyStoreProofs ---------------------------
(***************************************************************************)
(* Theorems about KeyStore for any set of mnemonics and any worlds: Nano   *)
(* and Stax, with or without failures of the library and power cuts.       *)
(* IInv is inductive, a ready app never has the private key of another     *)
(* mnemonic, and KeyStore implements KeyService.                           *)
(***************************************************************************)
EXTENDS KeyStore, TLAPS

\* What a power loss leaves in a field that was torn in one slot, or in none.
LEMMA TornAtCases ==
    ASSUME NEW field \in [Slots -> Values], NEW labels, NEW slot \in Slots,
           NEW f \in TornAt(field, labels, slot)
    PROVE  /\ f \in [Slots -> Values]
           /\ \A s \in Slots : f[s] \in Seeds => f[s] = field[s]
           /\ pc \notin labels => f = field
           /\ \A s \in Slots \ {slot} : f[s] = field[s]
  BY SeedsAssumption DEF TornAt, Values, Slots, KEY_SLOT_1, KEY_SLOT_2

\* The freshly installed app satisfies the invariant.
LEMMA InitInvariant == Init => IInv
  <1> SUFFICES ASSUME Init PROVE IInv
      OBVIOUS
  <1> USE DEF Init, Erased
  <1>1. TypeOK
      BY DEF TypeOK, Values, Labels, Slots, KEY_SLOT_1, KEY_SLOT_2
  <1>2. KeyMatchesSeed /\ KeyPairsMatch /\ FreeSlotHasNoKey
      BY SeedsAssumption DEF KeyMatchesSeed, KeyPairsMatch, FreeSlotHasNoKey
  <1>3. MakingKey /\ ClearingSlots /\ ReadyInOwnSlot
      BY DEF MakingKey, ClearingSlots, ReadyInOwnSlot
  <1> QED
      BY <1>1, <1>2, <1>3 DEF IInv

\* The user's actions and boot keep the invariant.
LEMMA UserStep ==
    ASSUME IInv, PowerOn \/ ChangeMnemonic \/ Quit \/ PressInitialize
    PROVE  IInv'
  <1> USE DEF IInv, TypeOK, KeyMatchesSeed, KeyPairsMatch, FreeSlotHasNoKey, MakingKey, ClearingSlots,
              ReadyInOwnSlot, flash, ram, device, Slots, KEY_SLOT_1, KEY_SLOT_2
  <1>1. CASE PowerOn
      BY <1>1 DEF PowerOn, Labels
  <1>2. CASE ChangeMnemonic
      BY <1>2 DEF ChangeMnemonic, Labels
  <1>3. CASE Quit
      BY <1>3 DEF Quit, Labels
  <1>4. CASE PressInitialize
      BY <1>4 DEF PressInitialize, Labels
  <1> QED
      BY <1>1, <1>2, <1>3, <1>4

\* A slot crypto_store_init_test finds is initialized with this mnemonic.
LEMMA FoundIsOwn ==
    ASSUME NEW d1, NEW d2, NEW s \in FoundSlot(d1, d2)
    PROVE  s \in Slots /\ initialized[s] /\ masterSeed[s] = mnemonic
  BY DEF FoundSlot, SameMasterSeed, Slots, KEY_SLOT_1, KEY_SLOT_2

LEMMA BootStep ==
    ASSUME IInv, Main PROVE IInv'
  <1> USE DEF IInv, TypeOK, KeyMatchesSeed, KeyPairsMatch, FreeSlotHasNoKey, MakingKey, ClearingSlots,
              ReadyInOwnSlot, flash, device
  <1>1. pc = "main" /\ UNCHANGED <<flash, wiping, device>>
      BY DEF Main
  <1>2. PICK d1, d2 \in Outcomes :
            \/ /\ device_initialized' = FALSE
               /\ pc' = IF world.stax THEN "store_init" ELSE "menu"
               /\ UNCHANGED slot_in_use
            \/ /\ slot_in_use' \in FoundSlot(d1, d2)
               /\ device_initialized' = TRUE
               /\ pc' = "idle"
      BY DEF Main
  <1>3. CASE device_initialized' = FALSE /\ UNCHANGED slot_in_use
                 /\ pc' = IF world.stax THEN "store_init" ELSE "menu"
      BY <1>1, <1>3 DEF Labels
  <1>4. CASE slot_in_use' \in FoundSlot(d1, d2) /\ device_initialized' = TRUE /\ pc' = "idle"
      <2>1. slot_in_use' \in Slots /\ initialized[slot_in_use'] /\ masterSeed[slot_in_use'] = mnemonic
          BY <1>4, FoundIsOwn
      <2> QED
          BY <1>1, <1>4, <2>1 DEF Labels
  <1> QED
      BY <1>2, <1>3, <1>4

LEMMA StoreInitStep ==
    ASSUME IInv, StoreInit PROVE IInv'
  <1> USE DEF IInv, TypeOK, KeyMatchesSeed, KeyPairsMatch, FreeSlotHasNoKey, MakingKey, ClearingSlots,
              ReadyInOwnSlot, flash, ram, device, Slots, KEY_SLOT_1, KEY_SLOT_2
  <1>0. pc = "store_init" /\ ~device_initialized
      BY DEF StoreInit
  <1>1. PICK slot \in Slots :
            (~initialized[slot] /\ TakeSlot(slot)) \/ SelectSlot(slot) \/ WipeBoth
      BY DEF StoreInit
  <1>2. CASE ~initialized[slot] /\ TakeSlot(slot)
      BY <1>0, <1>2 DEF TakeSlot, Labels
  <1>3. CASE SelectSlot(slot)
      BY <1>0, <1>3 DEF SelectSlot, AfterInit, Labels
  <1>4. CASE WipeBoth
      BY <1>0, <1>4 DEF WipeBoth, Labels
  <1> QED
      BY <1>1, <1>2, <1>3, <1>4

\* Clearing a slot keeps the invariant: the private key goes before the seed
\* it matches and before the flag that says the slot is taken.
LEMMA WipeStep ==
    ASSUME IInv, WipePq \/ WipePriv \/ WipeSeed \/ WipeFlag
    PROVE  IInv'
  <1> USE SeedsAssumption DEF IInv, TypeOK, KeyMatchesSeed, KeyPairsMatch, FreeSlotHasNoKey, MakingKey,
              ClearingSlots, ReadyInOwnSlot, ram, device, Values, Slots, KEY_SLOT_1, KEY_SLOT_2
  <1>1. CASE WipePq
      BY <1>1 DEF WipePq, Labels
  <1>2. CASE WipePriv
      BY <1>2 DEF WipePriv, Labels
  <1>3. CASE WipeSeed
      BY <1>3 DEF WipeSeed, Labels
  <1>4. CASE WipeFlag
      BY <1>4 DEF WipeFlag, Labels
  <1> QED
      BY <1>1, <1>2, <1>3, <1>4

\* Making a key keeps the invariant: it is made in a slot without one.
LEMMA MakeStep ==
    ASSUME IInv, Fail \/ DeriveMasterSeed \/ InitPrimes \/ InitKeys \/ StorePub \/ StorePriv
    PROVE  IInv'
  <1> USE SeedsAssumption DEF IInv, TypeOK, KeyMatchesSeed, KeyPairsMatch, FreeSlotHasNoKey, MakingKey,
              ClearingSlots, ReadyInOwnSlot, ram, flash, device, AfterInit, Values, Slots, KEY_SLOT_1, KEY_SLOT_2
  <1>1. CASE Fail
      BY <1>1 DEF Fail, Labels
  <1>2. CASE DeriveMasterSeed
      BY <1>2 DEF DeriveMasterSeed, Labels
  <1>3. CASE InitPrimes
      BY <1>3 DEF InitPrimes, Labels
  <1>4. CASE InitKeys
      BY <1>4 DEF InitKeys, Labels
  <1>5. CASE StorePub
      BY <1>5 DEF StorePub, Labels
  <1>6. CASE StorePriv
      BY <1>6 DEF StorePriv, Labels
  <1> QED
      BY <1>1, <1>2, <1>3, <1>4, <1>5, <1>6

\* A torn field holds no seed, so losing power keeps the invariant.
LEMMA PowerLossStep ==
    ASSUME IInv, PowerLoss PROVE IInv'
  <1>1. /\ pc' = "off" /\ slot_in_use' = KEY_SLOT_1 /\ device_initialized' = FALSE
        /\ UNCHANGED <<initialized, wiping, device>>
      BY DEF PowerLoss
  <1>2. /\ masterSeed' \in [Slots -> Values] /\ pq' \in [Slots -> Values]
        /\ rsa_pub' \in [Slots -> Values] /\ rsa_priv' \in [Slots -> Values]
        /\ \A s \in Slots : rsa_priv'[s] \in Seeds =>
              rsa_priv[s] = rsa_priv'[s] /\ masterSeed'[s] = masterSeed[s] /\ rsa_pub'[s] = rsa_pub[s]
      <2> USE DEF IInv, TypeOK
      <2>1. CASE pc \in {"wipe_pq", "wipe_priv", "wipe_seed"}
          <3>1. /\ pq' \in TornAt(pq, {"wipe_pq"}, wiping)
                /\ rsa_priv' \in TornAt(rsa_priv, {"wipe_priv"}, wiping)
                /\ masterSeed' \in TornAt(masterSeed, {"wipe_seed"}, wiping)
                /\ UNCHANGED rsa_pub
              BY <2>1 DEF PowerLoss
          <3>2. pc = "wipe_seed" => rsa_priv[wiping] \notin Seeds
              BY DEF ClearingSlots
          <3> QED
              BY <3>1, <3>2, TornAtCases
      <2>2. CASE pc \notin {"wipe_pq", "wipe_priv", "wipe_seed"}
          <3>1. /\ masterSeed' \in TornAt(masterSeed, {"derive_seed"}, slot_in_use)
                /\ pq' \in TornAt(pq, {"init_primes"}, slot_in_use)
                /\ rsa_pub' \in TornAt(rsa_pub, {"store_pub"}, slot_in_use)
                /\ rsa_priv' \in TornAt(rsa_priv, {"store_priv"}, slot_in_use)
              BY <2>2 DEF PowerLoss
          <3>2. pc \in {"derive_seed", "store_pub"} => rsa_priv[slot_in_use] \notin Seeds
              BY DEF MakingKey, FreeSlotHasNoKey
          <3> QED
              BY <3>1, <3>2, TornAtCases
      <2> QED
          BY <2>1, <2>2
  <1>3. TypeOK'
      BY <1>1, <1>2 DEF IInv, TypeOK, Labels, Slots, device
  <1>4. KeyMatchesSeed' /\ KeyPairsMatch' /\ FreeSlotHasNoKey'
      BY <1>1, <1>2 DEF IInv, KeyMatchesSeed, KeyPairsMatch, FreeSlotHasNoKey, device
  <1>5. MakingKey' /\ ClearingSlots' /\ ReadyInOwnSlot'
      BY <1>1 DEF MakingKey, ClearingSlots, ReadyInOwnSlot
  <1> QED
      BY <1>3, <1>4, <1>5 DEF IInv

\* Every step of Next keeps the invariant.
LEMMA NextInvariant == IInv /\ [Next]_vars => IInv'
  <1> SUFFICES ASSUME IInv, [Next]_vars PROVE IInv'
      OBVIOUS
  <1>1. CASE PowerOn \/ ChangeMnemonic \/ Quit \/ PressInitialize
      BY <1>1, UserStep
  <1>2. CASE Main \/ StoreInit
      BY <1>2, BootStep, StoreInitStep
  <1>3. CASE WipePq \/ WipePriv \/ WipeSeed \/ WipeFlag
      BY <1>3, WipeStep
  <1>4. CASE Fail \/ DeriveMasterSeed \/ InitPrimes \/ InitKeys \/ StorePub \/ StorePriv
      BY <1>4, MakeStep
  <1>5. CASE PowerLoss
      BY <1>5, PowerLossStep
  <1>6. CASE UNCHANGED vars
      BY <1>6 DEF vars, flash, ram, device, IInv, TypeOK, KeyMatchesSeed, KeyPairsMatch, FreeSlotHasNoKey, MakingKey,
                  ClearingSlots, ReadyInOwnSlot
  <1> QED
      BY <1>1, <1>2, <1>3, <1>4, <1>5, <1>6 DEF Next, Step

\* IInv holds in every reachable state of crypto_store.c, power cuts included.
THEOREM Invariance == Spec => []IInv
  <1> QED
      BY InitInvariant, NextInvariant, PTL DEF Spec

\* Type correctness of the key store.
THEOREM TypeCorrect == Spec => []TypeOK
  <1>1. IInv => TypeOK
      BY DEF IInv
  <1> QED
      BY <1>1, Invariance, PTL

\* A ready app has the private key of the device's mnemonic, or none,
\* however often power was cut while crypto_store_init was writing.
THEOREM NoForeignKey == Spec => []NoForeignPrivateKey
  <1>1. IInv => NoForeignPrivateKey
      BY DEF IInv, TypeOK, Values, KeyMatchesSeed, ReadyInOwnSlot, NoForeignPrivateKey
  <1> QED
      BY <1>1, Invariance, PTL

\* A private key in flash always has its own public key beside it, so the
\* address the app shows is the one it signs for.
THEOREM PairsMatch == Spec => []KeyPairsMatch
  <1>1. IInv => KeyPairsMatch
      BY DEF IInv
  <1> QED
      BY <1>1, Invariance, PTL

-----------------------------------------------------------------------------
(* Worlds without faults or without power cuts.                            *)

\* Each step keeps FaultlessInv.
LEMMA FaultlessStep ==
    ASSUME IInv, IInv', FaultlessInv, [Next]_vars
    PROVE  FaultlessInv'
  <1> USE SeedsAssumption DEF IInv, TypeOK, KeyMatchesSeed, FreeSlotHasNoKey, MakingKey, ClearingSlots,
          ReadyInOwnSlot, FaultlessInv, FlaggedSlotsAreWhole, SlotsFillInOrder, NotReadyForWantOfKey,
          HoldsMnemonic, IdleMeansReadyFaultless, IdleMeansReady, SlotsHoldDifferentSeeds, StoredKey,
          Wiping, Making, flash, ram, device, Slots, KEY_SLOT_1, KEY_SLOT_2
  <1>1. CASE PowerOn
      BY <1>1 DEF PowerOn
  <1>2. CASE ChangeMnemonic
      BY <1>2 DEF ChangeMnemonic
  <1>3. CASE Quit
      BY <1>3 DEF Quit
  <1>4. CASE PressInitialize
      BY <1>4 DEF PressInitialize
  <1>5. CASE Main
    <2>1. PICK d1 \in Outcomes, d2 \in Outcomes :
            /\ pc = "main" /\ UNCHANGED <<flash, wiping, device>>
            /\ \/ /\ FoundSlot(d1, d2) = {} /\ device_initialized' = FALSE
                  /\ pc' = (IF world.stax THEN "store_init" ELSE "menu")
                  /\ UNCHANGED slot_in_use
               \/ device_initialized' = TRUE /\ pc' = "idle"
                  /\ slot_in_use' \in FoundSlot(d1, d2)
      BY <1>5 DEF Main
    <2>2. CASE FoundSlot(d1, d2) = {} /\ device_initialized' = FALSE
      BY <2>1, <2>2 DEF FoundSlot, SameMasterSeed, Outcomes
    <2>3. CASE device_initialized' = TRUE /\ slot_in_use' \in FoundSlot(d1, d2)
      BY <2>1, <2>3 DEF FoundSlot, SameMasterSeed, Outcomes
    <2> QED
      BY <2>1, <2>2, <2>3
  <1>6. CASE StoreInit
      BY <1>6 DEF StoreInit, SameMasterSeed, Outcomes, TakeSlot, SelectSlot, WipeBoth, AfterInit
  <1>7. CASE WipePq
      BY <1>7 DEF WipePq
  <1>8. CASE WipePriv
      BY <1>8 DEF WipePriv
  <1>9. CASE WipeSeed
      BY <1>9 DEF WipeSeed
  <1>10. CASE WipeFlag
      BY <1>10 DEF WipeFlag
  <1>11. CASE Fail
      BY <1>11 DEF Fail, AfterInit
  <1>12. CASE DeriveMasterSeed
      BY <1>12 DEF DeriveMasterSeed
  <1>13. CASE InitPrimes
      BY <1>13 DEF InitPrimes
  <1>14. CASE InitKeys
      <2>1. /\ pc = "init_keys" /\ pc' = "store_pub" /\ ~device_initialized
            /\ ~initialized[slot_in_use] /\ rsa_priv[slot_in_use] \notin Seeds
            /\ initialized' = [initialized EXCEPT ![slot_in_use] = TRUE]
            /\ UNCHANGED <<masterSeed, rsa_priv, slot_in_use, device_initialized, wiping, device>>
          BY <1>14 DEF InitKeys
      <2>2. FlaggedSlotsAreWhole' /\ NotReadyForWantOfKey' /\ IdleMeansReadyFaultless'
          BY <2>1
      <2>3. SlotsFillInOrder'
          BY <2>1
      <2>4. \A s \in Slots : StoredKey(s)' => StoredKey(s)
          BY <2>1
      <2>5. SlotsHoldDifferentSeeds'
          BY <2>1, <2>4
      <2> QED
          BY <2>2, <2>3, <2>5
  <1>15. CASE StorePub
      BY <1>15 DEF StorePub
  <1>16. CASE StorePriv
      <2>1. /\ pc = "store_priv" /\ pc' = AfterInit(TRUE) /\ pc' \in {"idle", "menu"}
            /\ initialized[slot_in_use] /\ masterSeed[slot_in_use] = mnemonic
            /\ device_initialized' = TRUE
            /\ rsa_priv' = [rsa_priv EXCEPT ![slot_in_use] = mnemonic]
            /\ UNCHANGED <<masterSeed, initialized, slot_in_use, wiping, device>>
          BY <1>16 DEF StorePriv, AfterInit
      <2>2. pc' = "idle"
          BY <1>16 DEF StorePriv, AfterInit
      <2>3. FlaggedSlotsAreWhole' /\ SlotsFillInOrder' /\ NotReadyForWantOfKey' /\ IdleMeansReadyFaultless'
          BY <2>1, <2>2
      <2>4. SlotsHoldDifferentSeeds'
          BY <2>1, <2>2
      <2> QED
          BY <2>3, <2>4
  <1>17. CASE PowerLoss
      BY <1>17 DEF PowerLoss
  <1>18. CASE UNCHANGED vars
      BY <1>18 DEF vars
  <1> QED
      BY <1>1, <1>2, <1>3, <1>4, <1>5, <1>6, <1>7, <1>8, <1>9, <1>10, <1>11, <1>12, <1>13, <1>14,
         <1>15, <1>16, <1>17, <1>18 DEF Next, Step

\* FaultlessInv holds in every reachable state: what a fault or a power cut
\* may break, nothing else does.
THEOREM FaultlessInvariance == Spec => []FaultlessInv
  <1>1. Init => FaultlessInv
      BY DEF Init, FaultlessInv, FlaggedSlotsAreWhole, SlotsFillInOrder, NotReadyForWantOfKey,
             HoldsMnemonic, IdleMeansReadyFaultless, IdleMeansReady, SlotsHoldDifferentSeeds, StoredKey,
             Wiping, Making, Slots, KEY_SLOT_1, KEY_SLOT_2
  <1> QED
      BY <1>1, FaultlessStep, Invariance, PTL DEF Spec

\* Where power is never cut a ready app has both halves of its mnemonic's key.
THEOREM ReadyHasKeys == Spec => []ReadyHasKeyPairUncut
  <1>1. IInv /\ FaultlessInv => ReadyHasKeyPairUncut
      BY DEF IInv, TypeOK, KeyPairsMatch, ReadyInOwnSlot, FaultlessInv, FlaggedSlotsAreWhole,
             ReadyHasKeyPairUncut, ReadyHasKeyPair
  <1> QED
      BY <1>1, Invariance, FaultlessInvariance, PTL

\* Where no call of the library fails, the idle screen means a ready app.
THEOREM IdleIsReady == Spec => []IdleMeansReadyFaultless
  <1>1. FaultlessInv => IdleMeansReadyFaultless
      BY DEF FaultlessInv
  <1> QED
      BY <1>1, FaultlessInvariance, PTL

\* Where neither happens the two slots hold the keys of two mnemonics.
THEOREM DifferentSeeds == Spec => []SlotsHoldDifferentSeeds
  <1>1. FaultlessInv => SlotsHoldDifferentSeeds
      BY DEF FaultlessInv
  <1> QED
      BY <1>1, FaultlessInvariance, PTL

\* Where no call of the library fails, a key is given up only for a mnemonic
\* that has none.
THEOREM StoredKeysAreKept == Spec => KeysAreKept
  <1>1. ASSUME IInv, FaultlessInv, [Next]_vars
        PROVE  [~world.faulty =>
                  \A s \in Slots : StoredKey(s) /\ rsa_priv'[s] # rsa_priv[s]
                    => \A t \in Slots : StoredKey(t) => rsa_priv[t] # mnemonic]_vars
      <2> SUFFICES ASSUME Next, ~world.faulty, NEW s \in Slots,
                          StoredKey(s), rsa_priv'[s] # rsa_priv[s], NEW t \in Slots, StoredKey(t)
                   PROVE  rsa_priv[t] # mnemonic
          BY <1>1
      <2>1. pc \in {"wipe_priv", "store_priv"} /\ (pc = "store_priv" => s = slot_in_use)
          <3>1. CASE PowerLoss
              <4>1. rsa_priv' \in TornAt(rsa_priv, {"wipe_priv"}, wiping)
                      \/ rsa_priv' \in TornAt(rsa_priv, {"store_priv"}, slot_in_use)
                  BY <3>1 DEF PowerLoss
              <4> QED
                  BY <1>1, <4>1 DEF TornAt, IInv, TypeOK
          <3>2. CASE WipePriv
              BY <3>2 DEF WipePriv
          <3>3. CASE StorePriv
              BY <1>1, <3>3 DEF StorePriv, IInv, TypeOK
          <3>4. CASE UNCHANGED rsa_priv
              BY <3>4
          <3> QED
              BY <3>1, <3>2, <3>3, <3>4 DEF Next, Step, PowerOn, ChangeMnemonic, Quit, PressInitialize,
                 Main, StoreInit, TakeSlot, SelectSlot, WipeBoth, WipePq, WipeSeed, WipeFlag, Fail,
                 DeriveMasterSeed, InitPrimes, InitKeys, StorePub, flash
      <2>2. pc # "store_priv"
          BY <1>1, <2>1 DEF StoredKey, IInv, MakingKey
      <2>3. ~HoldsMnemonic(t)
          BY <1>1, <2>1, <2>2 DEF FaultlessInv, NotReadyForWantOfKey, Wiping
      <2> QED
          BY <1>1, <2>3 DEF HoldsMnemonic, StoredKey, IInv, KeyMatchesSeed
  <1> QED
      BY <1>1, Invariance, FaultlessInvariance, PTL DEF Spec, KeysAreKept

-----------------------------------------------------------------------------
(* KeyStore implements KeyService.                                         *)

\* The step that sets device_initialized with a complete key is a Start, the
\* one that resets it a Stop; the others are seen by the service as nothing.
LEMMA StepSimulation ==
    ASSUME IInv, IInv', [Next]_vars
    PROVE  [Service!Next]_Service!serviceVars
  <1> USE DEF Service!Next, Service!Start, Service!Stop, Service!ChangeMnemonic, Service!serviceVars
  <1>1. device_initialized => pc = "idle" /\ masterSeed[slot_in_use] = mnemonic
      BY DEF IInv, ReadyInOwnSlot
  <1>2. (device_initialized => masterSeed[slot_in_use] = mnemonic)'
      BY DEF IInv, ReadyInOwnSlot
  <1> DEFINE serving == KeyInUse(rsa_priv)
  <1>3. serving \in {mnemonic, Blank} /\ (~device_initialized => serving = Blank)
      BY <1>1 DEF KeyInUse, IInv, TypeOK, KeyMatchesSeed
  <1>4. serving' \in {mnemonic', Blank} /\ (~device_initialized' => serving' = Blank)
      BY <1>2 DEF KeyInUse, IInv, TypeOK, KeyMatchesSeed
  <1>5. CASE ~device_initialized' /\ UNCHANGED mnemonic
      BY <1>3, <1>4, <1>5
  <1>6. CASE ChangeMnemonic
      <2>1. ~device_initialized /\ ~device_initialized' /\ mnemonic' \in Seeds
          BY <1>1, <1>6 DEF ChangeMnemonic, ram, device
      <2> QED
          BY <1>3, <1>4, <2>1
  <1>7. CASE ~device_initialized /\ UNCHANGED mnemonic
      BY <1>3, <1>4, <1>7
  <1>8. CASE UNCHANGED vars
      BY <1>8 DEF vars, flash, ram, device, KeyInUse
  <1>9. CASE Next /\ ~ChangeMnemonic
      <2>1. UNCHANGED mnemonic
          BY <1>9 DEF device, Next, Step, PowerOn, Quit, PressInitialize, PowerLoss, Main, StoreInit,
                      TakeSlot, SelectSlot, WipeBoth, WipePq, WipePriv, WipeSeed, WipeFlag, Fail,
                      DeriveMasterSeed, InitPrimes, InitKeys, StorePub, StorePriv
      <2>2. ~device_initialized \/ ~device_initialized'
          BY <1>1, <1>9 DEF Next, Step, PowerOn, Quit, PressInitialize, PowerLoss, Main, StoreInit,
                      WipePq, WipePriv, WipeSeed, WipeFlag, Fail,
                      DeriveMasterSeed, InitPrimes, InitKeys, StorePub, StorePriv
      <2> QED
          BY <1>5, <1>7, <2>1, <2>2
  <1> QED
      BY <1>6, <1>8, <1>9

\* The key store keeps the promise of the key service: what crypto_sign would
\* sign with is the key of the mnemonic, the same one from the moment the app
\* is ready until it stops.
THEOREM ImplementsKeyService == Spec => ServiceSpec
  <1>1. Init => Service!Init
      BY DEF Init, Service!Init, KeyInUse
  <1> QED
      BY <1>1, StepSimulation, Invariance, PTL DEF Spec, ServiceSpec, Service!Spec

-----------------------------------------------------------------------------
(* KeyStore implements KeyEnvironment.                                     *)

\* What a ready app finds in its slot is what BootKeys says.
LEMMA BootKeysHold ==
    ASSUME IInv
    PROVE  Environment!BootKeys(KeyInUse(rsa_pub), KeyInUse(rsa_priv))
  BY DEF IInv, TypeOK, KeyMatchesSeed, KeyPairsMatch, ReadyInOwnSlot, Environment!BootKeys, KeyInUse

\* Turning the app on is a start, the step that sets device_initialized makes
\* it ready, and whatever ends at "off" is a stop.
LEMMA StepEnvironment ==
    ASSUME IInv, IInv', [Next]_vars
    PROVE  [Environment!KeyNext]_Environment!keyVars
  <1> USE DEF Environment!KeyNext, Environment!keyVars, Environment!store
  <1>1. device_initialized => pc = "idle"
      BY DEF IInv, ReadyInOwnSlot
  <1>2. CASE UNCHANGED <<device_initialized, mnemonic>> /\ ~device_initialized
             /\ (pc # "off" <=> pc' # "off")
      BY <1>2 DEF KeyInUse
  <1>3. CASE PowerOn
      BY <1>1, <1>3 DEF PowerOn, ram, flash, device, KeyInUse, Environment!KeyStart
  <1>4. CASE ChangeMnemonic
      BY <1>1, <1>4 DEF ChangeMnemonic, ram, flash, KeyInUse, Environment!KeyChange
  <1>5. CASE Quit \/ PowerLoss
      BY <1>1, <1>5 DEF Quit, PowerLoss, device, KeyInUse, Environment!KeyStop
  <1>6. CASE ~device_initialized /\ device_initialized' /\ pc # "off" /\ pc' # "off" /\ UNCHANGED mnemonic
      <2>1. Environment!BootKeys(KeyInUse(rsa_pub), KeyInUse(rsa_priv))'
          BY <1>6, BootKeysHold, PTL
      <2> QED
          BY <1>6, <2>1 DEF Environment!BecomeReady, Environment!BootKeys, KeyInUse, IInv, TypeOK
  <1>7. CASE Step \/ PressInitialize
      <2>1. ~device_initialized /\ UNCHANGED mnemonic /\ pc # "off" /\ pc' # "off"
          BY <1>1, <1>7 DEF Step, PressInitialize, Main, StoreInit, TakeSlot, SelectSlot, WipeBoth, WipePq,
                WipePriv, WipeSeed, WipeFlag, Fail, DeriveMasterSeed, InitPrimes, InitKeys, StorePub,
                StorePriv, AfterInit, device
      <2> QED
          BY <1>2, <1>6, <2>1 DEF IInv, TypeOK
  <1>8. CASE UNCHANGED vars
      BY <1>8 DEF vars, flash, ram, device, KeyInUse
  <1> QED
      BY <1>3, <1>4, <1>5, <1>7, <1>8 DEF Next

\* The key store gives the handlers what SignApp is built on.
THEOREM ImplementsEnvironment == Spec => EnvironmentSpec
  <1>1. Init => Environment!KeyInit
      BY DEF Init, Environment!KeyInit, KeyInUse
  <1> QED
      BY <1>1, StepEnvironment, Invariance, PTL DEF Spec, EnvironmentSpec, Environment!KeySpec
=============================================================================
