---------------------------- MODULE MCClientRequests ----------------------------
(* Calls for model-checking ClientRequests: some commands declare one response  *)
(* frame, others two.                                                           *)
EXTENDS ClientRequests, TLC

CONSTANTS Singles, Doubles

MCCalls == Singles \union Doubles
MCResponseFrames == [c \in MCCalls |-> IF c \in Singles THEN 1 ELSE 2]
MCSymmetry == Permutations(Singles) \union Permutations(Doubles)
=============================================================================
