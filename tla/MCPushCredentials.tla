------------------------- MODULE MCPushCredentials -------------------------
(* Finite instances of PushCredentials.                                    *)
EXTENDS PushCredentials, TLC

Symmetry == Permutations(Workers) \cup Permutations(Keys) \cup Permutations(Relays)
=============================================================================
