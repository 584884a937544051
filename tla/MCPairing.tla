----------------------------- MODULE MCPairing -----------------------------
(* Two windows, and two phones that make one call each.                    *)
EXTENDS PairingInvariant, TLC

CONSTANTS w1, w2, c1, c2, p1, p2

OneCallEach == c1 :> p1 @@ c2 :> p2

\* The windows, and the phones together with their calls, are alike.
Swaps == {[x \in Call \cup Phone |-> x],
          (c1 :> c2) @@ (c2 :> c1) @@ (p1 :> p2) @@ (p2 :> p1)}
Renaming == {f @@ g : f \in Permutations(Window), g \in Swaps}
=============================================================================
