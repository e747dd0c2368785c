----------------------------- MODULE MCHandover -----------------------------
(* Two pods and the regions they own, checked on small instances. *)
EXTENDS Handover, TLC

MCDimsOf  == [p \in Pods |-> Dims]

\* One pod runs every dimension, the other ones only the overworld.
MCDimsApart == [p \in Pods |-> IF p \in LoginPods THEN Dims ELSE {Overworld}]

Symmetric == Permutations(Players) \cup Permutations(Sessions)
=============================================================================
