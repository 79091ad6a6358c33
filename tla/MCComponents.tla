------------------------------ MODULE MCComponents ------------------------------
(***************************************************************************)
(* Three components that do not interact, explored in one run: "component" *)
(* says which of them a behaviour is about, the others stay as they are.   *)
(***************************************************************************)
EXTENDS ServerLifecycle, Commands, SubmitLoop

VARIABLE component

componentVars == <<component, vars, commandVars, submitVars>>

ComponentsInit ==
    /\ component \in {"lifecycle", "commands", "submitting"}
    /\ Init /\ CommandsInit /\ SubmitInit
    /\ component # "lifecycle" => ~overlapping
    /\ component # "commands" => client_strict /\ server_strict
    /\ component # "submitting" => sync /\ first_use_alone

ComponentsNext ==
    \/ /\ component = "lifecycle" /\ Next
       /\ UNCHANGED <<component, commandVars, submitVars>>
    \/ /\ component = "commands" /\ CommandsNext
       /\ UNCHANGED <<component, vars, submitVars>>
    \/ /\ component = "submitting" /\ SubmitNext
       /\ UNCHANGED <<component, vars, commandVars>>

ComponentsSpec ==
    /\ ComponentsInit /\ [][ComponentsNext]_componentVars
    /\ Fairness /\ SubmitFairness

\* A string, an array, and a handler that is unsupported because its first parameter is
\* binary (one with *args would be so in the same way).
MCParams == [e \in Endpoints |->
               CASE e = "greets" -> <<"str">> [] e = "lists" -> <<"list">>
                 [] e = "blob" -> <<"bytes", "str">>]
MCRequired == [e \in Endpoints |-> IF e = "lists" THEN 0 ELSE Len(MCParams[e])]

\* The types of the three components.
ComponentsTypeOK == TypeOK /\ CommandsTypeOK /\ SubmitTypeOK
=============================================================================
