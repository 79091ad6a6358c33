----------------------------- MODULE ResponseStream -----------------------------
(***************************************************************************)
(* What a server promises a client that uses no session ids                *)
(* (_handle_request of src/fasttcpapi/server.py): the requests of one      *)
(* connection are answered one at a time, in the order they arrived, each  *)
(* with at most the frames its command declares, and an exception is the   *)
(* last of them.  Such a client has nothing but the order to tell whose    *)
(* response a frame is.  Push frames may come at any time.  Once no more   *)
(* requests can arrive, those that are left may be abandoned.              *)
(***************************************************************************)
EXTENDS Naturals, Sequences

CONSTANTS
    Counts,    \* numbers of response frames a command may declare, 0 for no command
    PushRoutes

VARIABLES
    open,     \* may requests still arrive?
    declared, \* response frames of each request that has arrived, in that order
    sent,     \* frames sent for each of them
    served,   \* those that will get no further frame
    out       \* frames sent that the client has not read

vars == <<open, declared, sent, served, out>>

Init == open = TRUE /\ declared = <<>> /\ sent = <<>> /\ served = {} /\ out = <<>>

Arrive ==
    /\ open
    /\ \E n \in Counts : declared' = Append(declared, n)
    /\ sent' = Append(sent, 0)
    /\ UNCHANGED <<open, served, out>>

\* The oldest request that is not served yet.
Turn(r) == r \in (1..Len(declared)) \ served /\ 1..(r - 1) \subseteq served

Send(r, kind) ==
    /\ sent' = [sent EXCEPT ![r] = @ + 1]
    /\ out' = Append(out, [task |-> r, kind |-> kind, seq |-> sent[r] + 1])

Value(r) ==
    /\ Turn(r) /\ sent[r] < declared[r]
    /\ Send(r, "value")
    /\ UNCHANGED <<open, declared, served>>

Error(r) ==
    /\ Turn(r)
    /\ Send(r, "error")
    /\ served' = served \union {r}
    /\ UNCHANGED <<open, declared>>

Serve(r) == Turn(r) /\ served' = served \union {r} /\ UNCHANGED <<open, declared, sent, out>>

Push(p) ==
    /\ out' = Append(out, [task |-> p, kind |-> "push", seq |-> 0])
    /\ UNCHANGED <<open, declared, sent, served>>

\* The client reads a frame.
Read == out # <<>> /\ out' = Tail(out) /\ UNCHANGED <<open, declared, sent, served>>

Close == open /\ open' = FALSE /\ UNCHANGED <<declared, sent, served, out>>
Abandon == ~open /\ served' = 1..Len(declared) /\ UNCHANGED <<open, declared, sent, out>>

Next ==
    \/ Arrive \/ Read \/ Close \/ Abandon
    \/ \E r \in 1..Len(declared) : Value(r) \/ Error(r) \/ Serve(r)
    \/ \E p \in PushRoutes : Push(p)

Spec == Init /\ [][Next]_vars
=============================================================================
