------------------------------- MODULE SubmitLoop -------------------------------
(***************************************************************************)
(* The background event loop of a Client (src/fasttcpapi/client.py 65-146),*)
(* started by the first thread that uses the client.                       *)
(*                                                                         *)
(* A step is what a thread does between two points at which another can    *)
(* see or change an attribute of the client.  A runner thread and its loop *)
(* are named after the user thread that created them.                      *)
(***************************************************************************)
EXTENDS Naturals, FiniteSets

CONSTANTS
    Users,          \* threads that call a command
    NoThread

ASSUME UsersAssumption == NoThread \notin Users

VARIABLES
    sync,           \* Client(sync=...)
    first_use_alone,\* does nobody else come in while the first user starts the loop?
    submit_loop, submit_thread, submit_ready,
    user,           \* where each user thread is
    runner,         \* the runner thread created by each user thread
    call_loop,      \* the loop each call was submitted to
    waits_for       \* the loop a blocked runner thread waits for

submitVars == <<sync, first_use_alone, submit_loop, submit_thread, submit_ready,
                user, runner, call_loop, waits_for>>

Move(u, to) == user' = [user EXCEPT ![u] = to]

SubmitInit ==
    /\ sync \in BOOLEAN /\ first_use_alone \in BOOLEAN
    /\ submit_loop = NoThread /\ submit_thread = NoThread /\ submit_ready = FALSE
    /\ user = [u \in Users |-> "out"]
    /\ runner = [u \in Users |-> "none"]
    /\ call_loop = [u \in Users |-> NoThread]
    /\ waits_for = [u \in Users |-> NoThread]

-----------------------------------------------------------------------------
(* _ensure_submit_loop, in a user thread.                                  *)

\* Mutant: the attributes are not looked at.
NeverKnown == FALSE

Known == submit_loop # NoThread /\ submit_thread # NoThread

Starting == {u \in Users : user[u] \in {"creating", "starting", "waiting"}}

EnsureLoop(u) ==
    /\ user[u] = "out"
    /\ first_use_alone => Starting = {}
    /\ Move(u, IF Known THEN "ensured" ELSE "creating")
    /\ UNCHANGED <<sync, first_use_alone, submit_loop, submit_thread, submit_ready, runner,
                   call_loop, waits_for>>

CreateThread(u) ==
    /\ user[u] = "creating"
    /\ submit_thread' = u
    /\ Move(u, "starting")
    /\ UNCHANGED <<sync, first_use_alone, submit_loop, submit_ready, runner, call_loop,
                   waits_for>>

\* "self._submit_thread.start()": by now it may be the thread of another user, and a
\* thread can be started once.
StartThread(u) ==
    /\ user[u] = "starting"
    /\ IF runner[submit_thread] = "none"
       THEN runner' = [runner EXCEPT ![submit_thread] = "started"] /\ Move(u, "waiting")
       ELSE Move(u, "failed") /\ UNCHANGED runner
    /\ UNCHANGED <<sync, first_use_alone, submit_loop, submit_thread, submit_ready, call_loop,
                   waits_for>>

LoopReady(u) ==
    /\ user[u] = "waiting" /\ submit_ready
    /\ Move(u, "ensured")
    /\ UNCHANGED <<sync, first_use_alone, submit_loop, submit_thread, submit_ready, runner,
                   call_loop, waits_for>>

-----------------------------------------------------------------------------
(* The runner threads.                                                     *)

StoreLoop(r) ==
    /\ runner[r] = "started"
    /\ submit_loop' = r
    /\ runner' = [runner EXCEPT ![r] = "stored"]
    /\ UNCHANGED <<sync, first_use_alone, submit_thread, submit_ready, user, call_loop,
                   waits_for>>

SetReady(r) ==
    /\ runner[r] = "stored"
    /\ submit_ready' = TRUE
    /\ runner' = [runner EXCEPT ![r] = "running"]
    /\ UNCHANGED <<sync, first_use_alone, submit_loop, submit_thread, user, call_loop, waits_for>>

-----------------------------------------------------------------------------
(* A call: submitted by the user thread, run by a loop, where              *)
(* _connect_for_call waits for the connection.                             *)

\* "assert self._submit_loop is not None"
Submit(u) ==
    /\ user[u] = "ensured"
    /\ IF submit_loop = NoThread
       THEN Move(u, "failed") /\ UNCHANGED call_loop
       ELSE Move(u, "submitted") /\ call_loop' = [call_loop EXCEPT ![u] = submit_loop]
    /\ UNCHANGED <<sync, first_use_alone, submit_loop, submit_thread, submit_ready, runner,
                   waits_for>>

Free(r) == runner[r] = "running" /\ waits_for[r] = NoThread

\* Mutant: the wait blocks the loop's own thread whenever the client is synchronous.
RunCallBlocks(u) ==
    /\ user[u] = "submitted" /\ Free(call_loop[u])
    /\ IF sync
       THEN /\ Move(u, "blocking")
            /\ waits_for' = [waits_for EXCEPT ![call_loop[u]] = submit_loop]
       ELSE Move(u, "done") /\ UNCHANGED waits_for
    /\ UNCHANGED <<sync, first_use_alone, submit_loop, submit_thread, submit_ready, runner,
                   call_loop>>

\* wait_for_connected awaits the connection if it finds itself in _submit_thread.  If
\* not, it submits the wait to _submit_loop, and with sync=True blocks its own thread
\* for the result.
RunCall(u) ==
    /\ user[u] = "submitted" /\ Free(call_loop[u])
    /\ IF sync /\ submit_thread # call_loop[u]
       THEN /\ Move(u, "blocking")
            /\ waits_for' = [waits_for EXCEPT ![call_loop[u]] = submit_loop]
       ELSE Move(u, "done") /\ UNCHANGED waits_for
    /\ UNCHANGED <<sync, first_use_alone, submit_loop, submit_thread, submit_ready, runner,
                   call_loop>>

WaitEnds(u) ==
    /\ user[u] = "blocking" /\ Free(waits_for[call_loop[u]])
    /\ Move(u, "done")
    /\ waits_for' = [waits_for EXCEPT ![call_loop[u]] = NoThread]
    /\ UNCHANGED <<sync, first_use_alone, submit_loop, submit_thread, submit_ready, runner,
                   call_loop>>

UserStep(u) ==
    \/ CreateThread(u) \/ StartThread(u) \/ LoopReady(u)
    \/ Submit(u) \/ RunCall(u) \/ WaitEnds(u)
RunnerStep(r) == StoreLoop(r) \/ SetReady(r)
SubmitNext == \E u \in Users : EnsureLoop(u) \/ UserStep(u) \/ RunnerStep(u)

SubmitSpec == SubmitInit /\ [][SubmitNext]_submitVars
\* Threads and loops that are not blocked run.
SubmitFairness ==
    \A u \in Users : WF_submitVars(UserStep(u)) /\ WF_submitVars(RunnerStep(u))
SubmitFairSpec == SubmitSpec /\ SubmitFairness

-----------------------------------------------------------------------------
SubmitTypeOK ==
    /\ sync \in BOOLEAN /\ first_use_alone \in BOOLEAN /\ submit_ready \in BOOLEAN
    /\ submit_loop \in Users \union {NoThread}
    /\ submit_thread \in Users \union {NoThread}
    /\ user \in [Users -> {"out", "creating", "starting", "waiting", "ensured", "submitted",
                           "blocking", "done", "failed"}]
    /\ runner \in [Users -> {"none", "started", "stored", "running"}]
    /\ call_loop \in [Users -> Users \union {NoThread}]
    /\ waits_for \in [Users -> Users \union {NoThread}]
    /\ submit_ready => submit_loop # NoThread

\* The locks and queues of the client belong to one event loop: if its first use does not
\* overlap with another, all calls run on one loop, in the thread _submit_thread names,
\* and none of them blocks it.
OneLoop ==
    first_use_alone =>
        \A u \in Users :
            call_loop[u] # NoThread =>
                /\ call_loop[u] = submit_loop /\ submit_loop = submit_thread
                /\ waits_for[call_loop[u]] = NoThread

\* "One Client instance can be used from multiple threads and event loops": a call that
\* was submitted is not blocked for ever.
SubmittedCallsEnd == \A u \in Users : user[u] = "submitted" ~> user[u] = "done"

\* The same for every call, whichever thread makes it and whenever, if the first use does
\* not overlap with another: no call blocks the only loop there is.
SubmittedCallsEndAlone ==
    \A u \in Users : first_use_alone /\ user[u] = "submitted" ~> user[u] = "done"
=============================================================================
