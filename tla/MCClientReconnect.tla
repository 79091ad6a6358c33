---------------------------- MODULE MCClientReconnect ----------------------------
(* Bounds for model-checking ClientReconnect.  The cfg files choose among them. *)
EXTENDS ClientReconnect, TLC

MCLimit(losses, refusals, connects, disconnects, schemas) ==
    [b \in Budgets |-> CASE b = "loss" -> losses [] b = "refusal" -> refusals
                         [] b = "connect" -> connects [] b = "disconnect" -> disconnects
                         [] b = "schema" -> schemas]
\* A connection is lost, an attempt to connect is refused, a schema request fails, the
\* user disconnects and connects.
MCDisconnects == MCLimit(1, 1, 1, 1, 1)
\* Nobody disconnects; two connections can end while the callbacks of one run.
MCLosses == MCLimit(2, 1, 0, 0, 1)
MCOneLoss == MCLimit(1, 0, 0, 0, 0)
\* The user disconnects once.
MCDisconnectOnce == MCLimit(0, 0, 1, 1, 0)
MCSymmetry == Permutations(Calls)
=============================================================================
