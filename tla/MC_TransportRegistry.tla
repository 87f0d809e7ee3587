------------------------ MODULE MC_TransportRegistry ------------------------
(***************************************************************************)
(* Instances of TransportRegistry.                                          *)
(***************************************************************************)
EXTENDS TransportRegistry, TLC

CONSTANTS r1, a1, a2, a3, s1, t1, t2, f1

\* One request id for all.
OneRequest == [x \in {a1, a2, a3, s1} |-> r1]

Alike == Permutations({a1, a2, a3}) \cup Permutations({t1, t2})

=============================================================================
