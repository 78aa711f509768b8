--------------------------- MODULE MCPushBinding ---------------------------
(* Finite instances of PushBinding.                                        *)
EXTENDS PushBinding, TLC

Symmetry == Permutations(Workers) \cup Permutations(Owners) \cup Permutations(NativeInst)
            \cup Permutations(Codes) \cup Permutations(Namespaces) \cup Permutations(Tokens)
=============================================================================
