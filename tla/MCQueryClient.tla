---------------------------- MODULE MCQueryClient ----------------------------
(***************************************************************************)
(* QueryClient for TLC: two mnemonics and moduli of four bytes that share  *)
(* a half; hashes of five bytes, which end inside a group of three as the  *)
(* real 32 do, so that an address has seven characters; pages of four.     *)
(***************************************************************************)
EXTENDS QueryClient, TLC

CONSTANTS A, B

MCModulus == (A :> <<17, 34, 51, 68>>) @@ (B :> <<17, 34, 85, 102>>) @@ (NoKey :> <<0, 0, 0, 0>>)
MCHash(key) ==
    CASE key = A -> <<251, 255, 191, 62, 201>>
      [] key = B -> <<0, 16, 131, 16, 81>>
      [] key = NoKey -> <<227, 176, 196, 66, 152>>
MCInputs == {<<>>} \cup {MCHash(key) : key \in {A, B, NoKey}}
MCSha256 ==
    (MCModulus[A] :> MCHash(A)) @@ (MCModulus[B] :> MCHash(B)) @@ (<<>> :> MCHash(NoKey))

MCVersion == <<1, 2, 3>>
MCTarget == <<51, 16, 0, 4>>
MCMessage == <<<<20>>, <<7, 7, 7>>>>
MCDeepHash == [k \in 1..12 |-> 200 + k]
=============================================================================
