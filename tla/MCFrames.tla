--------------------------------- MODULE MCFrames ---------------------------------
(***************************************************************************)
(* Four things that happen to a frame, explored in one run: it is read     *)
(* from the stream (JsonFraming), its payload is cut into arguments        *)
(* (BinaryArguments), the client gives it to a call (ClientRequests) or to *)
(* next_push (PushQueue).  A behaviour is about the one that "part" names; *)
(* the state of the others stays as it is.                                 *)
(***************************************************************************)
EXTENDS MCClientRequests, PushQueue, JsonFraming, BinaryArguments

VARIABLE part

framesVars == <<part, vars, pushVars, framingVars, binaryVars>>

FramesInit ==
    /\ part \in {"responses", "pushes", "framing", "binary"}
    /\ Init /\ PushInit /\ FramingInit /\ BinaryInit
    /\ part # "responses" => ~sessioned
    /\ part # "pushes" => schema

FramesNext ==
    \/ /\ part = "responses" /\ Next
       /\ UNCHANGED <<part, pushVars, framingVars, binaryVars>>
    \/ /\ part = "pushes" /\ PushNext
       /\ UNCHANGED <<part, vars, framingVars, binaryVars>>
    \/ /\ part = "framing" /\ FramingNext
       /\ UNCHANGED <<part, vars, pushVars, binaryVars>>
    \/ /\ part = "binary" /\ BinaryNext
       /\ UNCHANGED <<part, vars, pushVars, framingVars>>

FramesSpec ==
    /\ FramesInit /\ [][FramesNext]_framesVars
    /\ Fairness /\ PushFairness /\ FramingFairness

\* The types of the four parts.
FramesTypeOK == TypeOK /\ PushTypeOK /\ FramingTypeOK /\ BinaryTypeOK
=============================================================================
