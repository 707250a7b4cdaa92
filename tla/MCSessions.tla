----------------------------- MODULE MCSessions -----------------------------
(***************************************************************************)
(* Small instances of Sessions for TLC.                                    *)
(***************************************************************************)
EXTENDS Sessions, TLC

CONSTANTS c1, c2

OneClient == {c1}
TwoClients == {c1, c2}

TwoVertices == 0..1
ThreeVertices == 0..2
Light == {1}
LightOrHeavy == {1, 2}
UpToTwo == 1..2
UpToThree == {1, 3}
NegativeToThree == {-1, 1, 3}

\* Clients are interchangeable in every safety property.
Symmetry == Permutations(Clients)
=============================================================================
