------------------------------ MODULE MCSdkTrace ------------------------------
(* SdkTrace for TLC: handles, spans and configurations are interchangeable,  *)
(* no definition singles one out and every property is an invariant.         *)
EXTENDS SdkTrace, TLC

Symmetry == Permutations(Handles) \cup Permutations(SpanIds) \cup Permutations(Configs)
=============================================================================
