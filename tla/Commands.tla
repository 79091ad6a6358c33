-------------------------------- MODULE Commands --------------------------------
(***************************************************************************)
(* Registering commands, the schema a client takes of them, and how a call *)
(* is checked on both sides (src/fasttcpapi/server.py 61-72, 126-206,      *)
(* 423-523, router.py, _client_core.py 148-181, 321-333, 415-448).         *)
(*                                                                         *)
(* Each registration and each check runs without an await.  They interleave*)
(* with one another: routes can be added while the server runs and clients *)
(* are connected.  Values are told apart by their types.                   *)
(***************************************************************************)
EXTENDS Naturals, Sequences, SequencesExt

CONSTANTS
    Names,          \* command names, those that are no strings included
    NonStrings,     \* names a JsonFrame client cannot use
    ReservedName,   \* SCHEMA_COMMAND
    Endpoints,      \* handler functions
    Params,         \* the annotated types of their parameters
    Required,       \* how many of these have no default
    Variadic,       \* handlers with *args or **kwargs
    Routers,
    Invocations,    \* calls
    Values,         \* types of the values callers pass
    MaxRoutes       \* bound: entries of all registries together

ValueTypes == {"int", "str", "list", "tuple", "bytes"}
\* Annotations: "Any" stands for all that are not classes.
Types == ValueTypes \union {"Any"}
\* _runtime_type knows these; the server checks every class.
ClientChecked == {"int", "str", "bytes"}
ServerChecked == ValueTypes

ASSUME CommandsAssumption ==
    /\ NonStrings \subseteq Names /\ ReservedName \notin NonStrings
    /\ Params \in [Endpoints -> Seq(Types)]
    /\ Required \in [Endpoints -> Nat] /\ Variadic \subseteq Endpoints
    /\ \A e \in Endpoints : Required[e] <= Len(Params[e])
    /\ Values \subseteq ValueTypes
    /\ "server" \notin Routers /\ MaxRoutes \in Nat

Registries == Routers \union {"server"}

\* The handlers _params_for raises for: those with *args or **kwargs, and those with a
\* bytes parameter that is not the last.
Unsupported ==
    Variadic \union
    {e \in Endpoints : \E i \in 1..Len(Params[e]) - 1 : Params[e][i] = "bytes"}

VARIABLES
    routes,         \* _routes of the server and of the routers, in order
    push_routes,    \* _push_routes: their names
    client_strict, server_strict,      \* strict_type_check of each side
    definitions,    \* the client's _schema: <<>> before connect(), then <<snapshot>>
    invocation      \* each call: where it is, what it asks for and what came of it

commandVars == <<routes, push_routes, client_strict, server_strict, definitions,
                 invocation>>

NoCall == [at |-> "idle", command |-> ReservedName, args |-> <<>>]

CommandsInit ==
    /\ routes = [g \in Registries |-> <<>>] /\ push_routes = [g \in Registries |-> <<>>]
    /\ client_strict \in BOOLEAN /\ server_strict \in BOOLEAN
    /\ definitions = <<>>
    /\ invocation = [c \in Invocations |-> NoCall]

-----------------------------------------------------------------------------
(* Registration.  A conflict raises and changes nothing, except in          *)
(* include_router, which has registered what came before it.                *)

CommandsOf(rs) == {rs[i].command : i \in 1..Len(rs)}

Registered(g, rs, ps) ==
    /\ routes' = [routes EXCEPT ![g] = rs]
    /\ push_routes' = [push_routes EXCEPT ![g] = ps]
    /\ SumFunction([f \in Registries |-> Len(routes'[f]) + Len(push_routes'[f])]) <= MaxRoutes
    /\ UNCHANGED <<client_strict, server_strict, definitions, invocation>>

\* Mutant: a command that is known is replaced.
CommandReplaces(g, n, e) ==
    /\ n # ReservedName
    /\ LET others == SelectSeq(routes[g], LAMBDA r : r.command # n)
       IN  Registered(g, Append(others, [command |-> n, endpoint |-> e]), push_routes[g])

\* command() looks at the commands, not at the push routes.
Command(g, n, e) ==
    /\ n # ReservedName
    /\ n \notin CommandsOf(routes[g])
    /\ Registered(g, Append(routes[g], [command |-> n, endpoint |-> e]), push_routes[g])

\* Mutant: the name of the schema command is not reserved.
PushUnreserved(g, n) ==
    /\ n \notin CommandsOf(routes[g]) \union ToSet(push_routes[g])
    /\ Registered(g, routes[g], Append(push_routes[g], n))

Push(g, n) ==
    /\ n # ReservedName
    /\ n \notin CommandsOf(routes[g]) \union ToSet(push_routes[g])
    /\ Registered(g, routes[g], Append(push_routes[g], n))

\* The longest prefix of s without a member of "taken".
Accepted(s, taken) ==
    LET bad == {i \in 1..Len(s) : s[i] \in taken}
    IN  IF bad = {} THEN s ELSE SubSeq(s, 1, (CHOOSE i \in bad : \A j \in bad : i <= j) - 1)

\* A conflict among the commands stops include_router before the push routes.
IncludeRouter(g, r) ==
    LET names == [i \in 1..Len(routes[r]) |-> routes[r][i].command]
        kept == Accepted(names, CommandsOf(routes[g]) \union ToSet(push_routes[g]))
        rs == routes[g] \o SubSeq(routes[r], 1, Len(kept))
        ps == Accepted(push_routes[r], CommandsOf(rs) \union ToSet(push_routes[g]))
    IN  /\ g # r
        /\ Registered(g, rs, IF kept = names THEN push_routes[g] \o ps ELSE push_routes[g])

-----------------------------------------------------------------------------
(* The schema.                                                             *)

\* command_schema: the commands and pushes whose name is a string.
CommandSchema ==
    {[command |-> r.command, push |-> FALSE,
      params |-> Params[r.endpoint], required |-> Required[r.endpoint]] :
        r \in {r \in ToSet(routes["server"]) : r.command \notin NonStrings}}
    \union {[command |-> n, push |-> TRUE, params |-> <<>>, required |-> 0] :
               n \in ToSet(push_routes["server"]) \ NonStrings}

\* connect() asks once.  While one handler is unsupported the answer is an exception, and
\* the client has no schema.
TakeSchema ==
    /\ definitions = <<>>
    /\ \A i \in 1..Len(routes["server"]) :
           routes["server"][i].command \in NonStrings
             \/ routes["server"][i].endpoint \notin Unsupported
    /\ definitions' = <<CommandSchema>>
    /\ UNCHANGED <<routes, push_routes, client_strict, server_strict, invocation>>

-----------------------------------------------------------------------------
(* Checking arguments.                                                     *)

\* Mutant: a value that cannot be converted is passed on.
OutcomesLenient(strict, checked, type, value) ==
    IF type \notin checked \/ value = type THEN {value}
    ELSE IF strict THEN {} ELSE {type, value}

\* What can become of an argument; nothing if it raises TypeError.  Conversion may fail.
Outcomes(strict, checked, type, value) ==
    IF type \notin checked \/ value = type THEN {value}
    ELSE IF strict THEN {} ELSE {type}

\* The argument lists a check may pass on.
Passed(strict, checked, types, args) ==
    {as \in [1..Len(args) -> ValueTypes] :
        \A i \in 1..Len(args) : as[i] \in Outcomes(strict, checked, types[i], args[i])}
Refusable(checked, types, args) ==
    \E i \in DOMAIN types \intersect DOMAIN args : types[i] \in checked /\ args[i] # types[i]

Binds(required, types, args) == required <= Len(args) /\ Len(args) <= Len(types)

\* JSON has one kind of array, and no bytes.
OverTheWire(args) == [i \in 1..Len(args) |-> IF args[i] = "tuple" THEN "list" ELSE args[i]]
Encodable(args) == "bytes" \notin ToSet(args)

Arguments == {<<>>} \union {<<v>> : v \in Values}

Becomes(c, at, n, args) ==
    invocation' = [invocation EXCEPT ![c] = [at |-> at, command |-> n, args |-> args]]

-----------------------------------------------------------------------------
(* A call.                                                                 *)

\* "next((item for item in self._schema ...": commands come before pushes.
FirstDefinition(n) ==
    LET matching == {d \in definitions[1] : d.command = n}
    IN  {d \in matching : d.push => \A other \in matching : other.push}

\* _validate_call against the snapshot.
Call(c, n, args) ==
    /\ definitions # <<>> /\ invocation[c].at = "idle" /\ n \notin NonStrings
    /\ \/ FirstDefinition(n) = {} /\ Becomes(c, "AttributeError", n, args)
       \/ \E d \in FirstDefinition(n) :
              \/ /\ ~Binds(d.required, d.params, args) \/ Refusable(ClientChecked, d.params, args)
                 /\ Becomes(c, "TypeError", n, args)
              \/ /\ Binds(d.required, d.params, args)
                 /\ \E as \in Passed(client_strict, ClientChecked, d.params, args) :
                        \/ d.push /\ Becomes(c, "KeyError", n, as)
                        \/ ~d.push /\ ~Encodable(as) /\ Becomes(c, "EncodeError", n, as)
                        \/ ~d.push /\ Encodable(as) /\ Becomes(c, "sent", n, OverTheWire(as))
    /\ UNCHANGED <<routes, push_routes, client_strict, server_strict, definitions>>

\* Any other client, which need not have checked anything.
RawCall(c, n, args) ==
    /\ invocation[c].at = "idle" /\ n \notin NonStrings /\ Encodable(args)
    /\ Becomes(c, "raw", n, OverTheWire(args))
    /\ UNCHANGED <<routes, push_routes, client_strict, server_strict, definitions>>

\* Mutant: the server relies on the client's check of the types.
ArgumentsUnchecked(e, args) ==
    IF e \in Unsupported \/ ~Binds(Required[e], Params[e], args) THEN {} ELSE {args}

\* _params_for, bind and _coerce_bound_arguments: the arguments the handler may get.
HandlerArguments(e, args) ==
    IF e \in Unsupported \/ ~Binds(Required[e], Params[e], args) THEN {}
    ELSE Passed(server_strict, ServerChecked, Params[e], args)
InvalidArguments(e, args) ==
    \/ e \in Unsupported \/ ~Binds(Required[e], Params[e], args)
    \/ Refusable(ServerChecked, Params[e], args)

\* _handle_request and dispatch.
Serve(c) ==
    /\ invocation[c].at \in {"sent", "raw"}
    /\ LET n == invocation[c].command
           args == invocation[c].args
           found == {r \in ToSet(routes["server"]) : r.command = n}
           Fails(error) ==
               Becomes(c, IF invocation[c].at = "raw" THEN "rejected" ELSE error, n, args)
       IN  \/ found = {} /\ Fails("not_found")
           \/ \E r \in found : \/ InvalidArguments(r.endpoint, args) /\ Fails("invalid_arguments")
                              \/ \E as \in HandlerArguments(r.endpoint, args) : Becomes(c, "ran", n, as)
    /\ UNCHANGED <<routes, push_routes, client_strict, server_strict, definitions>>

CommandsNext ==
    \/ \E g \in Registries : \/ \E n \in Names : \/ \E e \in Endpoints : Command(g, n, e)
                                                 \/ Push(g, n)
                             \/ \E r \in Routers : IncludeRouter(g, r)
    \/ TakeSchema
    \/ \E c \in Invocations :
           \/ \E n \in Names, args \in Arguments : Call(c, n, args) \/ RawCall(c, n, args)
           \/ Serve(c)
CommandsSpec == CommandsInit /\ [][CommandsNext]_commandVars

-----------------------------------------------------------------------------
UserNames == Names \ {ReservedName}
Definition == [command : UserNames, push : BOOLEAN, params : Seq(Types), required : Nat]

CommandsTypeOK ==
    /\ routes \in [Registries -> Seq([command : UserNames, endpoint : Endpoints])]
    /\ push_routes \in [Registries -> Seq(UserNames)]
    /\ client_strict \in BOOLEAN /\ server_strict \in BOOLEAN
    /\ definitions \in Seq(SUBSET Definition)
    /\ invocation \in [Invocations ->
                          [at : {"idle", "sent", "raw", "ran", "rejected", "not_found",
                                 "invalid_arguments", "AttributeError", "TypeError", "KeyError",
                                 "EncodeError"},
                           command : Names \union {ReservedName}, args : Seq(ValueTypes)]]

\* A client never asks for the schema again: all it was told stays true, whatever is
\* registered later.
SnapshotServed ==
    definitions # <<>> =>
        \A d \in definitions[1] :
            IF d.push THEN d.command \in ToSet(push_routes["server"])
            ELSE \E r \in ToSet(routes["server"]) :
                     /\ r.command = d.command /\ r.endpoint \notin Unsupported
                     /\ d.params = Params[r.endpoint] /\ d.required = Required[r.endpoint]

\* "validates arguments from the server definition before sending a request": whatever
\* the strict_type_check of the two sides, the server refuses a call that the client let
\* through only for an argument of a class the client does not know.
CheckedCallsAccepted ==
    \A c \in Invocations :
        /\ invocation[c].at # "not_found"
        /\ invocation[c].at = "invalid_arguments" =>
               \E r \in ToSet(routes["server"]) :
                   /\ r.command = invocation[c].command
                   /\ \E i \in 1..Len(invocation[c].args) :
                          Params[r.endpoint][i] \in ServerChecked \ ClientChecked

\* A handler runs with arguments of the types it declares, whoever calls it and whatever
\* that client checked or converted.
HandlerTypes ==
    \A c \in Invocations :
        invocation[c].at = "ran" =>
            \E r \in ToSet(routes["server"]) :
                /\ r.command = invocation[c].command
                /\ Binds(Required[r.endpoint], Params[r.endpoint], invocation[c].args)
                /\ \A i \in 1..Len(invocation[c].args) :
                       Params[r.endpoint][i] \in {invocation[c].args[i], "Any"}
=============================================================================
