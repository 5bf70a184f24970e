----------------------------- MODULE KeyService -----------------------------
(***************************************************************************)
(* What the key store of the Arweave app promises to the rest of the app:  *)
(* while the app serves a private key, that key is the one derived from    *)
(* the mnemonic the device holds, and it stays the same key until the app  *)
(* stops.  It says nothing of flash slots, of derivation or of crashes:    *)
(* KeyStore is the detailed specification and implements this one.         *)
(***************************************************************************)
CONSTANTS
    Seeds,      \* the mnemonics a user may load into the device
    NoKey       \* what is served when no key is (not a seed)

VARIABLES
    mnemonic,   \* the recovery phrase of the device (held by BOLOS)
    serving     \* whose private key the app would sign with, or NoKey

serviceVars == <<mnemonic, serving>>

Init == mnemonic \in Seeds /\ serving = NoKey

\* The app becomes able to sign, and only with the device's own key.
Start ==
    /\ serving = NoKey
    /\ serving' = mnemonic
    /\ UNCHANGED mnemonic

\* The app stops: it is quit, or the device loses power.
Stop ==
    /\ serving' = NoKey
    /\ UNCHANGED mnemonic

\* The user restores another recovery phrase, which no running app survives.
ChangeMnemonic ==
    /\ serving = NoKey
    /\ mnemonic' \in Seeds
    /\ UNCHANGED serving

Next == Start \/ Stop \/ ChangeMnemonic

Spec == Init /\ [][Next]_serviceVars
=============================================================================
