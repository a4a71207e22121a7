----------------------- MODULE MCTransformationCache -----------------------
(* TransformationCache for TLC: requests with two arguments.                 *)
EXTENDS TransformationCache, TLC

CONSTANTS o1, o2, k1, k2

(* Requests with two arguments, of which the first may occur twice.          *)
MCRequests == {(k1 :> <<o1>>) @@ (k2 :> <<o2>>), (k1 :> <<o1, o2>>) @@ (k2 :> <<o1>>)}

Symmetry == Permutations(Rules)
=============================================================================
