----------------------------- MODULE MCKeyStore -----------------------------
(***************************************************************************)
(* KeyStore for TLC: the worlds of each run.  Mnemonics are                *)
(* interchangeable, so a run that checks no temporal property may use      *)
(* their symmetry.                                                         *)
(***************************************************************************)
EXTENDS KeyStore, TLC

SeedSymmetry == Permutations(Seeds)

World(stax, faulty, powerCuts) ==
    [stax |-> stax, faulty |-> faulty, powerCuts |-> powerCuts]

\* Everything may go wrong on either build, one thing at a time, nothing.
MCWorlds ==
    {World(FALSE, TRUE, TRUE), World(TRUE, TRUE, TRUE),
     World(FALSE, FALSE, TRUE), World(TRUE, FALSE, TRUE),
     World(FALSE, TRUE, FALSE), World(TRUE, TRUE, FALSE),
     World(FALSE, FALSE, FALSE), World(TRUE, FALSE, FALSE)}

NanoWithCuts == {World(FALSE, FALSE, TRUE)}
StaxWithFailures == {World(TRUE, TRUE, FALSE)}
=============================================================================
