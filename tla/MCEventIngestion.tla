-------------------------- MODULE MCEventIngestion --------------------------
(* Two streams, two batches of two events: a batch may be delivered again    *)
(* while or after it is processed.  The streams, and the batches, are        *)
(* interchangeable.                                                          *)
EXTENDS EventIngestion, TLC

Symmetry == Permutations(Workers) \cup Permutations(Batches)
=============================================================================
