--------------------------- MODULE MCServerConnection ---------------------------
(* Traffic and handler sets for model-checking ServerConnection.  The cfg     *)
(* files choose among them.                                                   *)
EXTENDS ServerConnection

\* Clients whose frame type has no session ids, and no built-in schema command.
MCSessionless == [sessioned : {FALSE}, command : {"ping", "count", "unknown"}]
\* A client that uses session ids on some of its requests only.
MCMixed == [sessioned : BOOLEAN, command : {"ping"}]
\* The same with the requests for the schema that a JsonFrame client starts with.
MCShared == MCMixed \union [sessioned : {TRUE}, command : {"schema"}]

\* Clients without session ids that ask for the schema as well.
MCSessionlessSchema == [sessioned : {FALSE}, command : {"ping", "schema"}]

MCCommands == {"ping", "count"}
MCResponseFrames == [c \in MCCommands |-> IF c = "ping" THEN 1 ELSE 2]
MCNone == {}
MCFirstHangs == {1}
\* The exceptions of request 2 are always answered.
MCAllButSecond == Tasks \ {2}
=============================================================================
