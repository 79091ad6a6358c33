-------------------------- MODULE ClientReconnectProofs --------------------------
(* Theorems about ClientReconnect, for any calls, any bounds and every kind of *)
(* callbacks.                                                                  *)
EXTENDS ClientReconnect, QueueLemmas, FiniteSetTheorems, TLAPS

-----------------------------------------------------------------------------
(* TypeOK in parts: most actions touch one or two of them.                 *)

FlagTypes ==
    /\ stop_reconnect \in BOOLEAN /\ started \in BOOLEAN
    /\ connected \in BOOLEAN /\ disconnected \in BOOLEAN
    /\ schema \in BOOLEAN /\ frozen \in BOOLEAN
ConnectionTypes ==
    /\ opened \in 0..MaxConnections /\ current \in 0..opened
    /\ link \in [Connections -> {"unused", "up", "eof", "closing"}]
ReaderTypes ==
    /\ readerPc \in [Connections -> {"none", "created", "reading", "dispatching", "adrift",
                                     "ending", "done"}]
    /\ readerCancelled \subseteq Connections
PcTypes ==
    /\ pc \in [Openers -> CallStates \union LoopStates]
    /\ pc[ReconnectTask] \in LoopStates /\ \A c \in Calls : pc[c] \in CallStates
QueueTypes ==
    /\ connection_lock \in Seq(Openers)
    /\ submitted \in Seq(Calls \union {"start", "close"})
UserTypes ==
    user \in {"idle", "connecting", "disconnecting", "closing", "closed", "waiting", "stranded"}
SentTypes == sentOn \in [Openers -> 0..MaxConnections]
SpentTypes == spent \in [Budgets -> Nat]

LEMMA TypeParts ==
    TypeOK <=> /\ FlagTypes /\ ConnectionTypes /\ ReaderTypes /\ PcTypes
               /\ QueueTypes /\ UserTypes /\ SentTypes /\ SpentTypes
BY Zenon DEF TypeOK, FlagTypes, ConnectionTypes, ReaderTypes, PcTypes, QueueTypes, UserTypes,
             SentTypes, SpentTypes

LEMMA TypeInit == Init => TypeOK
<1> SUFFICES ASSUME Init
             PROVE  /\ FlagTypes /\ ConnectionTypes /\ ReaderTypes /\ PcTypes
                    /\ QueueTypes /\ UserTypes /\ SentTypes /\ SpentTypes
  BY TypeParts, Zenon
<1> USE DEF Init
<1>1. FlagTypes /\ UserTypes
  BY DEF FlagTypes, UserTypes
<1>2. ConnectionTypes /\ ReaderTypes
  BY ClientBoundsAssumption DEF ConnectionTypes, ReaderTypes
<1>3. PcTypes
  BY ReconnectTaskAssumption DEF PcTypes, Openers, LoopStates, CallStates
<1>4. QueueTypes
  BY DEF QueueTypes
<1>5. SentTypes /\ SpentTypes
  BY ClientBoundsAssumption DEF SentTypes, SpentTypes
<1>6. QED
  BY <1>1, <1>2, <1>3, <1>4, <1>5

-----------------------------------------------------------------------------
(* What the shared parts of the actions do to the types.                   *)

LEMMA GotoTypes ==
    ASSUME PcTypes, NEW o \in Openers, NEW to, Goto(o, to),
           o = ReconnectTask => to \in LoopStates, o \in Calls => to \in CallStates
    PROVE  PcTypes'
<1>1. pc' = [pc EXCEPT ![o] = to]
  BY DEF Goto
<1>2. pc' \in [Openers -> CallStates \union LoopStates]
  BY <1>1 DEF PcTypes, Openers
<1>3. QED
  BY <1>1, <1>2, ReconnectTaskAssumption DEF PcTypes, Openers

LEMMA FailPendingTypes ==
    ASSUME PcTypes, FailPending
    PROVE  PcTypes' /\ SentTypes'
<1>1. SentTypes'
  BY ClientBoundsAssumption DEF FailPending, SentTypes
<1>2. \A o \in Openers : pc'[o] \in {pc[o], "asleep", "failed"}
  BY DEF FailPending
<1>3. \A c \in Calls : pc'[c] \in {pc[c], "failed"}
  BY ReconnectTaskAssumption DEF FailPending, Openers
<1>4. pc'[ReconnectTask] \in {pc[ReconnectTask], "asleep"}
  BY DEF FailPending, Openers
<1>5. DOMAIN pc' = Openers /\ pc' = [o \in Openers |-> pc'[o]]
  BY DEF FailPending
<1>6. PcTypes'
  BY <1>2, <1>3, <1>4, <1>5 DEF PcTypes, LoopStates, CallStates
<1>7. QED
  BY <1>1, <1>6

LEMMA SetConnectedTypes ==
    ASSUME PcTypes, FlagTypes, SetConnected
    PROVE  PcTypes' /\ connected' \in BOOLEAN /\ disconnected' \in BOOLEAN /\ started' \in BOOLEAN
<1>1. \A c \in Calls : pc'[c] \in {pc[c], "woken"}
  BY ReconnectTaskAssumption DEF SetConnected, Openers
<1>2. pc'[ReconnectTask] = "asleep"
  BY DEF SetConnected, Openers
<1>3. pc' = [o \in Openers |-> pc'[o]]
  BY DEF SetConnected
<1>4. PcTypes'
  BY <1>1, <1>2, <1>3 DEF PcTypes, LoopStates, CallStates, Openers
<1>5. QED
  BY <1>4 DEF SetConnected, FlagTypes

LEMMA NewLoopTypes ==
    ASSUME PcTypes, UserTypes, NewLoop
    PROVE  /\ connected' \in BOOLEAN /\ disconnected' \in BOOLEAN /\ started' \in BOOLEAN
           /\ UserTypes'
           /\ NewLoopPc \in [Openers -> CallStates \union LoopStates]
           /\ NewLoopPc[ReconnectTask] \in LoopStates
           /\ \A c \in Calls : NewLoopPc[c] \in CallStates
<1>1. \A c \in Calls : NewLoopPc[c] \in {pc[c], "stranded"}
  BY ReconnectTaskAssumption DEF NewLoopPc, Openers
<1>2. NewLoopPc[ReconnectTask] = "asleep"
  BY DEF NewLoopPc, Openers
<1>3. NewLoopPc = [o \in Openers |-> NewLoopPc[o]]
  BY DEF NewLoopPc
<1>4. QED
  BY <1>1, <1>2, <1>3 DEF PcTypes, LoopStates, CallStates, Openers, NewLoop, UserTypes

LEMMA ProceedTypes ==
    ASSUME PcTypes, FlagTypes, SentTypes, NEW o \in Openers, Proceed(o), ConnectionTypes'
    PROVE  /\ PcTypes' /\ SentTypes'
           /\ connected' \in BOOLEAN /\ disconnected' \in BOOLEAN /\ started' \in BOOLEAN
<1>1. CASE SetConnected /\ UNCHANGED sentOn
  BY <1>1, SetConnectedTypes DEF SentTypes
<1>2. CASE /\ Goto(o, IF o = ReconnectTask THEN "schemaWait" ELSE "pending")
           /\ sentOn' = [sentOn EXCEPT ![o] = current']
           /\ UNCHANGED events
  <2>1. PcTypes'
    BY <1>2, GotoTypes, ReconnectTaskAssumption DEF LoopStates, CallStates
  <2>2. current' \in 0..MaxConnections
    BY ClientBoundsAssumption DEF ConnectionTypes
  <2>3. SentTypes'
    BY <1>2, <2>2 DEF SentTypes
  <2>4. QED
    BY <1>2, <2>1, <2>3 DEF events, FlagTypes
<1>3. CASE /\ Goto(o, IF o = ReconnectTask THEN "asleep" ELSE "failed")
           /\ connected' = (connected /\ o # ReconnectTask)
           /\ UNCHANGED <<started, disconnected, sentOn>>
  <2>1. PcTypes'
    BY <1>3, GotoTypes, ReconnectTaskAssumption DEF LoopStates, CallStates
  <2>2. QED
    BY <1>3, <2>1 DEF SentTypes, FlagTypes
<1>4. QED
  BY <1>1, <1>2, <1>3 DEF Proceed

\* Entering _ensure_connection, or being granted its lock.
LEMMA CheckedTypes ==
    ASSUME PcTypes, FlagTypes, SentTypes, NEW o \in Openers, ConnectionTypes,
           NEW queue \in Seq(Openers), Checked(o, queue), UNCHANGED connection
    PROVE  /\ PcTypes' /\ SentTypes' /\ connection_lock' \in Seq(Openers)
           /\ connected' \in BOOLEAN /\ disconnected' \in BOOLEAN /\ started' \in BOOLEAN
<1>1. ConnectionTypes'
  BY DEF ConnectionTypes, connection
<1>2. CASE connection_lock' = queue /\ Proceed(o)
  BY <1>1, <1>2, ProceedTypes
<1>3. CASE connection_lock' = <<o>> \o queue /\ Goto(o, "opening") /\ UNCHANGED <<events, sentOn>>
  <2>1. PcTypes'
    BY <1>3, GotoTypes DEF LoopStates, CallStates, OpeningStates
  <2>2. connection_lock' \in Seq(Openers)
    BY <1>3
  <2>3. QED
    BY <1>3, <2>1, <2>2 DEF SentTypes, FlagTypes, events
<1>4. QED
  BY <1>2, <1>3 DEF Checked

LEMMA EnsureTypes ==
    ASSUME PcTypes, FlagTypes, SentTypes, QueueTypes, NEW o \in Openers, ConnectionTypes,
           Ensure(o), UNCHANGED connection
    PROVE  /\ PcTypes' /\ SentTypes' /\ connection_lock' \in Seq(Openers)
           /\ connected' \in BOOLEAN /\ disconnected' \in BOOLEAN /\ started' \in BOOLEAN
<1>1. CASE Checked(o, <<>>)
  <2>1. <<>> \in Seq(Openers)
    OBVIOUS
  <2>2. QED
    BY <1>1, <2>1, CheckedTypes, Zenon
<1>2. CASE /\ connection_lock' = Append(connection_lock, o)
           /\ Goto(o, "ensuring")
           /\ UNCHANGED <<events, sentOn>>
  <2>1. PcTypes'
    BY <1>2, GotoTypes DEF LoopStates, CallStates, OpeningStates
  <2>2. QED
    BY <1>2, <2>1 DEF SentTypes, FlagTypes, events, QueueTypes
<1>3. QED
  BY <1>1, <1>2 DEF Ensure

-----------------------------------------------------------------------------
(* Every step keeps the types.  A task that opens a connection, or runs the    *)
(* on_connected callbacks, is the holder of connection_lock.                   *)

HolderOpens ==
    \A o \in Openers : pc[o] \in {"opening", "announcing"} =>
        connection_lock # <<>> /\ Head(connection_lock) = o

AllTypes ==
    /\ FlagTypes /\ ConnectionTypes /\ ReaderTypes /\ PcTypes
    /\ QueueTypes /\ UserTypes /\ SentTypes /\ SpentTypes

LEMMA NotSentType ==
    ASSUME SentTypes, NEW o \in Openers, sentOn' = [sentOn EXCEPT ![o] = 0]
    PROVE  SentTypes'
<1>1. 0 \in 0..MaxConnections
  BY ClientBoundsAssumption
<1>2. QED
  BY <1>1 DEF SentTypes

LEMMA TailType ==
    ASSUME NEW S, NEW s \in Seq(S), s # <<>>
    PROVE  Tail(s) \in Seq(S)
OBVIOUS

\* The steps of a task that opens a connection.
LEMMA OpenerTypes ==
    ASSUME AllTypes, HolderOpens, NEW o \in Openers, OpenerStep(o)
    PROVE  AllTypes'
<1> USE DEF AllTypes
<1>1. CASE LockGranted(o)
  <2>1. UNCHANGED <<connection, readers, schema, thread, frozen, spent>>
    BY <1>1 DEF LockGranted
  <2>2. Tail(connection_lock) \in Seq(Openers)
    BY <1>1, TailType DEF QueueTypes, LockGranted
  <2>3. /\ PcTypes' /\ SentTypes' /\ connection_lock' \in Seq(Openers)
        /\ connected' \in BOOLEAN /\ disconnected' \in BOOLEAN /\ started' \in BOOLEAN
    BY <1>1, <2>1, <2>2, CheckedTypes DEF LockGranted
  <2>4. QED
    BY <2>1, <2>3 DEF connection, readers, thread, FlagTypes, ConnectionTypes,
                      ReaderTypes, QueueTypes, UserTypes, SpentTypes
<1>2. CASE OpenSucceeds(o)
  <2>1. UNCHANGED <<readerCancelled, schema, thread, frozen, spent>>
    BY <1>2 DEF OpenSucceeds
  <2>2. opened + 1 \in 1..MaxConnections
    BY <1>2, ClientBoundsAssumption DEF OpenSucceeds, ConnectionTypes
  <2>3. ConnectionTypes'
    <3>1. opened' = opened + 1 /\ current' = opened + 1
          /\ link' = [link EXCEPT ![opened + 1] = "up"]
      BY <1>2 DEF OpenSucceeds
    <3>2. QED
      BY <2>2, <3>1 DEF ConnectionTypes, Connections
  <2>4. ReaderTypes'
    <3>1. readerPc' = [readerPc EXCEPT ![opened + 1] = "created"]
      BY <1>2 DEF OpenSucceeds
    <3>2. QED
      BY <2>1, <2>2, <3>1 DEF ReaderTypes, Connections
  <2>5. CASE Goto(o, "announcing") /\ UNCHANGED <<events, sentOn, connection_lock>>
    <3>1. PcTypes'
      BY <2>5, GotoTypes DEF LoopStates, CallStates, OpeningStates
    <3>2. QED
      BY <2>1, <2>3, <2>4, <2>5, <3>1 DEF thread, events, FlagTypes, QueueTypes, UserTypes,
                                          SentTypes, SpentTypes
  <2>6. CASE connection_lock' = Tail(connection_lock) /\ Proceed(o)
    <3>1. connection_lock' \in Seq(Openers)
      BY <1>2, <2>6, TailType DEF QueueTypes, HolderOpens, OpenSucceeds
    <3>2. /\ PcTypes' /\ SentTypes'
          /\ connected' \in BOOLEAN /\ disconnected' \in BOOLEAN /\ started' \in BOOLEAN
      BY <2>3, <2>6, ProceedTypes
    <3>3. QED
      BY <2>1, <2>3, <2>4, <3>1, <3>2 DEF thread, FlagTypes, QueueTypes, UserTypes, SpentTypes
  <2>7. QED
    BY <1>2, <2>5, <2>6 DEF OpenSucceeds
<1>3. CASE OpenFails(o)
  <2>1. PcTypes'
    <3>1. Goto(o, IF o = ReconnectTask THEN "asleep" ELSE "failed")
      BY <1>3 DEF OpenFails
    <3>2. QED
      BY <3>1, GotoTypes, ReconnectTaskAssumption DEF LoopStates, CallStates
  <2>2. connection_lock' \in Seq(Openers)
    BY <1>3, TailType DEF QueueTypes, HolderOpens, OpenFails
  <2>3. SpentTypes'
    BY <1>3 DEF OpenFails, Spend, SpentTypes, Budgets
  <2>4. UNCHANGED <<started, disconnected, connection, readers, sentOn, schema, thread, frozen>>
        /\ connected' \in BOOLEAN
    BY <1>3 DEF OpenFails
  <2>5. QED
    BY <2>1, <2>2, <2>3, <2>4 DEF connection, readers, thread, FlagTypes, ConnectionTypes,
                                  ReaderTypes, QueueTypes, UserTypes, SentTypes
<1>4. CASE Announced(o)
  <2>1. UNCHANGED <<connection, readers, schema, thread, frozen, spent>>
    BY <1>4 DEF Announced
  <2>2. connection_lock' \in Seq(Openers)
    BY <1>4, TailType DEF QueueTypes, HolderOpens, Announced
  <2>3. ConnectionTypes'
    BY <2>1 DEF ConnectionTypes, connection
  <2>4. /\ PcTypes' /\ SentTypes'
        /\ connected' \in BOOLEAN /\ disconnected' \in BOOLEAN /\ started' \in BOOLEAN
    BY <1>4, <2>3, ProceedTypes DEF Announced
  <2>5. QED
    BY <2>1, <2>2, <2>3, <2>4 DEF readers, thread, FlagTypes, ReaderTypes, QueueTypes,
                                  UserTypes, SpentTypes
<1>5. QED
  BY <1>1, <1>2, <1>3, <1>4 DEF OpenerStep

\* The reconnect loop's own steps.
LEMMA LoopTypes ==
    ASSUME AllTypes, LoopStep \/ SchemaFails
    PROVE  AllTypes'
<1> USE DEF AllTypes
<1>0. ReconnectTask \in Openers /\ ReconnectTask \notin Calls
  BY ReconnectTaskAssumption DEF Openers
<1>1. ASSUME UNCHANGED <<connection, readers, schema, thread, frozen, spent>>,
             Ensure(ReconnectTask)
      PROVE  AllTypes'
  <2>1. /\ PcTypes' /\ SentTypes' /\ connection_lock' \in Seq(Openers)
        /\ connected' \in BOOLEAN /\ disconnected' \in BOOLEAN /\ started' \in BOOLEAN
    BY <1>0, <1>1, EnsureTypes
  <2>2. QED
    BY <1>1, <2>1 DEF connection, readers, thread, FlagTypes, ConnectionTypes, ReaderTypes,
                      QueueTypes, UserTypes, SpentTypes
<1>2. ASSUME NEW to \in LoopStates, Goto(ReconnectTask, to),
             UNCHANGED <<connection, readers, schema, thread, frozen, spent>>,
             UNCHANGED <<events, sentOn, connection_lock>>
      PROVE  AllTypes'
  <2>1. PcTypes'
    BY <1>0, <1>2, GotoTypes
  <2>2. QED
    BY <1>2, <2>1 DEF connection, readers, thread, events, FlagTypes, ConnectionTypes,
                      ReaderTypes, QueueTypes, UserTypes, SentTypes, SpentTypes
<1>3. CASE LoopChecks \/ LoopRetries
  <2>1. "done" \in LoopStates /\ "retrying" \in LoopStates
    BY DEF LoopStates
  <2>2. QED
    BY <1>1, <1>2, <1>3, <2>1 DEF LoopChecks, LoopRetries
<1>4. CASE LoopLearns
  <2>1. UNCHANGED <<connection, readers, sentOn, connection_lock, thread, frozen, spent>>
        /\ schema' \in BOOLEAN
    BY <1>4 DEF LoopLearns
  <2>2. /\ PcTypes'
        /\ connected' \in BOOLEAN /\ disconnected' \in BOOLEAN /\ started' \in BOOLEAN
    <3>1. SetConnected
      BY <1>4 DEF LoopLearns
    <3>2. QED
      BY <3>1, SetConnectedTypes
  <2>3. QED
    BY <2>1, <2>2 DEF connection, readers, thread, FlagTypes, ConnectionTypes, ReaderTypes,
                      QueueTypes, UserTypes, SentTypes, SpentTypes
<1>5. CASE SchemaFails
  <2>1. Goto(ReconnectTask, "asleep")
    BY <1>5 DEF SchemaFails
  <2>2. PcTypes'
    BY <1>0, <2>1, GotoTypes DEF LoopStates
  <2>3. SentTypes' /\ SpentTypes'
    <3>1. sentOn' = [sentOn EXCEPT ![ReconnectTask] = 0]
      BY <1>5 DEF SchemaFails
    <3>2. spent' = [spent EXCEPT !["schema"] = @ + 1]
      BY <1>5 DEF SchemaFails, Spend
    <3>3. SentTypes'
      BY <1>0, <3>1, NotSentType
    <3>4. QED
      BY <3>2, <3>3 DEF SpentTypes, Budgets
  <2>4. /\ UNCHANGED <<started, disconnected, connection, readers, connection_lock, thread, frozen>>
        /\ connected' = FALSE /\ schema' \in BOOLEAN
    BY <1>5 DEF SchemaFails, FlagTypes
  <2>5. QED
    BY <2>2, <2>3, <2>4 DEF connection, readers, thread, FlagTypes, ConnectionTypes,
                            ReaderTypes, QueueTypes, UserTypes
<1>6. QED
  BY <1>3, <1>4, <1>5 DEF LoopStep

\* The steps of a call.
LEMMA CallTypes ==
    ASSUME AllTypes, NEW c \in Calls, Submit(c) \/ CallStep(c) \/ CallTimesOut(c)
    PROVE  AllTypes'
<1> USE DEF AllTypes
<1>0. c \in Openers /\ c # ReconnectTask
  BY ReconnectTaskAssumption DEF Openers
<1>1. ASSUME UNCHANGED <<connection, readers, schema, stop_reconnect, submitted, frozen, spent>>,
             Ensure(c), UNCHANGED user
      PROVE  AllTypes'
  <2>1. /\ PcTypes' /\ SentTypes' /\ connection_lock' \in Seq(Openers)
        /\ connected' \in BOOLEAN /\ disconnected' \in BOOLEAN /\ started' \in BOOLEAN
    BY <1>0, <1>1, EnsureTypes
  <2>2. QED
    BY <1>1, <2>1 DEF connection, readers, FlagTypes, ConnectionTypes, ReaderTypes,
                      QueueTypes, UserTypes, SpentTypes
<1>2. ASSUME NEW to \in CallStates, Goto(c, to), submitted' \in Seq(Calls \union {"start", "close"}),
             UNCHANGED <<events, connection, readers, connection_lock, schema, user, frozen, spent>>,
             stop_reconnect' \in BOOLEAN, SentTypes'
      PROVE  AllTypes'
  <2>1. PcTypes'
    BY <1>0, <1>2, GotoTypes
  <2>2. QED
    BY <1>2, <2>1 DEF connection, readers, events, FlagTypes, ConnectionTypes, ReaderTypes,
                      QueueTypes, UserTypes, SpentTypes
<1>3. "submitted" \in CallStates /\ "failed" \in CallStates /\ "checked" \in CallStates
      /\ "connecting" \in CallStates /\ "waiting" \in CallStates
  BY DEF CallStates
<1>4. CASE Submit(c)
  <2>1. submitted' \in Seq(Calls \union {"start", "close"})
    BY <1>4 DEF Submit, QueueTypes
  <2>2. QED
    BY <1>2, <1>3, <1>4, <2>1 DEF Submit, FlagTypes, SentTypes
<1>5. CASE CallBegins(c)
  <2>1. submitted' \in Seq(Calls \union {"start", "close"})
    BY <1>5, TailType DEF CallBegins, QueueTypes
  <2>2. QED
    BY <1>2, <1>3, <1>5, <2>1 DEF CallBegins, FlagTypes, SentTypes
<1>6. CASE CallConnects(c)
  <2>1. submitted' \in Seq(Calls \union {"start", "close"})
    BY <1>6 DEF CallConnects, QueueTypes
  <2>2. QED
    BY <1>2, <1>3, <1>6, <2>1 DEF CallConnects, SentTypes
<1>7. CASE CallWaits(c)
  <2>1. UNCHANGED <<connection, readers, schema, stop_reconnect, submitted, frozen, spent>>
    BY <1>7 DEF CallWaits
  <2>2. CASE Goto(c, "failed") /\ UNCHANGED <<events, sentOn, connection_lock, user>>
    BY <1>2, <1>3, <2>1, <2>2 DEF FlagTypes, QueueTypes, SentTypes
  <2>3. CASE NewLoop /\ pc' = [NewLoopPc EXCEPT ![c] = "waiting"]
             /\ UNCHANGED <<sentOn, connection_lock>>
    <3>1. /\ connected' \in BOOLEAN /\ disconnected' \in BOOLEAN /\ started' \in BOOLEAN
          /\ UserTypes'
      BY <2>3, NewLoopTypes
    <3>2. PcTypes'
      BY <1>0, <1>3, <2>3, NewLoopTypes DEF PcTypes, Openers
    <3>3. QED
      BY <2>1, <2>3, <3>1, <3>2 DEF connection, readers, FlagTypes, ConnectionTypes,
                                    ReaderTypes, QueueTypes, SentTypes, SpentTypes
  <2>4. CASE Goto(c, "waiting") /\ UNCHANGED <<events, sentOn, connection_lock, user>>
    BY <1>2, <1>3, <2>1, <2>4 DEF FlagTypes, QueueTypes, SentTypes
  <2>5. CASE Ensure(c) /\ UNCHANGED user
    BY <1>1, <2>1, <2>5
  <2>6. QED
    BY <1>7, <2>2, <2>3, <2>4, <2>5 DEF CallWaits
<1>8. CASE CallWakes(c)
  BY <1>1, <1>8 DEF CallWakes, thread
<1>9. CASE CallTimesOut(c)
  <2>1. SentTypes'
    <3>1. sentOn' = [sentOn EXCEPT ![c] = 0]
      BY <1>9 DEF CallTimesOut
    <3>2. QED
      BY <1>0, <3>1, NotSentType
  <2>2. QED
    BY <1>2, <1>3, <1>9, <2>1 DEF CallTimesOut, thread, FlagTypes, QueueTypes
<1>10. QED
  BY <1>4, <1>5, <1>6, <1>7, <1>8, <1>9 DEF CallStep

\* The steps of a connection's reader task.
LEMMA FinallyTypes ==
    ASSUME AllTypes, NEW g \in Connections, ReaderFinally(g), UNCHANGED <<opened, link>>,
           readerCancelled' \subseteq Connections
    PROVE  /\ connected' \in BOOLEAN /\ disconnected' \in BOOLEAN /\ started' \in BOOLEAN
           /\ UserTypes' /\ ConnectionTypes' /\ ReaderTypes'
<1> USE DEF AllTypes
<1>1. /\ connected' \in BOOLEAN /\ disconnected' \in BOOLEAN /\ started' \in BOOLEAN
      /\ UserTypes'
  BY DEF ReaderFinally, SetDisconnected, FlagTypes, UserTypes
<1>2. ConnectionTypes'
  <2>1. current' = 0 /\ 0 \in 0..opened
    BY ClientBoundsAssumption DEF ReaderFinally, ConnectionTypes
  <2>2. QED
    BY <2>1 DEF ConnectionTypes
<1>3. ReaderTypes'
  <2>1. readerPc' = [readerPc EXCEPT ![g] = "done"]
    BY DEF ReaderFinally
  <2>2. QED
    BY <2>1 DEF ReaderTypes
<1>4. QED
  BY <1>1, <1>2, <1>3

LEMMA ReaderEndTypes ==
    ASSUME AllTypes, NEW g \in Connections, ReaderEnd(g)
    PROVE  AllTypes'
<1> USE DEF AllTypes
<1>1. PcTypes' /\ SentTypes'
  BY FailPendingTypes DEF ReaderEnd
<1>2. UNCHANGED <<opened, link, connection_lock, schema, stop_reconnect, submitted,
                  frozen, spent>> /\ readerCancelled' \subseteq Connections
  BY DEF ReaderEnd, ReaderTypes
<1>3. CASE readerPc' = [readerPc EXCEPT ![g] = "ending"] /\ UNCHANGED <<events, current, user>>
  BY <1>1, <1>2, <1>3 DEF events, FlagTypes, ConnectionTypes, ReaderTypes, QueueTypes,
                          UserTypes, SpentTypes
<1>4. CASE ReaderFinally(g)
  BY <1>1, <1>2, <1>4, FinallyTypes DEF FlagTypes, QueueTypes, SpentTypes
<1>5. QED
  BY <1>3, <1>4 DEF ReaderEnd

LEMMA RespondTypes ==
    ASSUME AllTypes, NEW g, Respond(g)
    PROVE  PcTypes' /\ SentTypes'
<1>1. PICK o \in Openers : /\ Goto(o, IF o = ReconnectTask THEN "schemaReady" ELSE "answered")
                           /\ sentOn' = [sentOn EXCEPT ![o] = 0]
  BY DEF Respond
<1>2. PcTypes'
  BY <1>1, GotoTypes, ReconnectTaskAssumption DEF AllTypes, LoopStates, CallStates
<1>3. QED
  BY <1>1, <1>2, NotSentType DEF AllTypes

LEMMA ReaderStepTypes ==
    ASSUME AllTypes, NEW g \in Connections, ReaderStep(g) \/ FrameArrives(g) \/ LinkLost(g)
    PROVE  AllTypes'
<1> USE DEF AllTypes
<1>1. ASSUME UNCHANGED <<events, connection, tasks, thread, frozen, spent>>,
             ReaderTypes'
      PROVE  AllTypes'
  BY <1>1 DEF events, connection, tasks, thread, FlagTypes, ConnectionTypes, PcTypes, QueueTypes,
              UserTypes, SentTypes, SpentTypes
<1>2. CASE ReaderStarts(g)
  <2>1. CASE ReaderEnd(g)
    BY <2>1, ReaderEndTypes
  <2>2. CASE /\ readerPc' \in {[readerPc EXCEPT ![g] = "done"], [readerPc EXCEPT ![g] = "reading"]}
             /\ readerCancelled' \in {readerCancelled, readerCancelled \ {g}}
             /\ UNCHANGED <<events, connection, tasks, thread, frozen, spent>>
    <3>1. ReaderTypes'
      BY <2>2 DEF ReaderTypes
    <3>2. QED
      BY <1>1, <2>2, <3>1
  <2>3. QED
    BY <1>2, <2>1, <2>2 DEF ReaderStarts
<1>3. CASE ReaderEnds(g)
  BY <1>3, ReaderEndTypes DEF ReaderEnds
<1>4. CASE ReaderEnded(g)
  <2>1. UNCHANGED <<opened, link, tasks, stop_reconnect, submitted, frozen, spent>>
        /\ readerCancelled' \subseteq Connections
    BY <1>4 DEF ReaderEnded, ReaderTypes
  <2>2. CASE readerPc' = [readerPc EXCEPT ![g] = "done"] /\ UNCHANGED <<events, current, user>>
    BY <2>1, <2>2 DEF events, tasks, FlagTypes, ConnectionTypes, ReaderTypes, PcTypes, QueueTypes,
                      UserTypes, SentTypes, SpentTypes
  <2>3. CASE ReaderFinally(g)
    BY <2>1, <2>3, FinallyTypes DEF tasks, FlagTypes, PcTypes, QueueTypes, SentTypes, SpentTypes
  <2>4. QED
    BY <1>4, <2>2, <2>3 DEF ReaderEnded
<1>5. CASE FrameHandled(g) \/ LateRead(g)
  <2>1. PcTypes' /\ SentTypes'
    BY <1>5, RespondTypes DEF FrameHandled, LateRead
  <2>2. QED
    BY <1>5, <2>1 DEF FrameHandled, LateRead, events, connection, readers, thread, FlagTypes,
                      ConnectionTypes, ReaderTypes, QueueTypes, UserTypes, SpentTypes
<1>6. CASE FrameDispatched(g)
  <2>1. PcTypes' /\ SentTypes'
    <3>1. CASE Respond(g)
      BY <3>1, RespondTypes
    <3>2. CASE UNCHANGED <<pc, sentOn>>
      BY <3>2 DEF PcTypes, SentTypes
    <3>3. QED
      BY <1>6, <3>1, <3>2 DEF FrameDispatched
  <2>2. /\ readerPc' \in {readerPc, [readerPc EXCEPT ![g] = "reading"],
                         [readerPc EXCEPT ![g] = "adrift"]}
        /\ frozen' \in {frozen, TRUE}
        /\ UNCHANGED <<events, connection, readerCancelled, connection_lock, schema, thread, spent>>
    BY <1>6 DEF FrameDispatched
  <2>3. ReaderTypes'
    BY <2>2 DEF ReaderTypes
  <2>4. QED
    BY <2>1, <2>2, <2>3 DEF events, connection, thread, FlagTypes, ConnectionTypes, QueueTypes,
                            UserTypes, SpentTypes
<1>7. CASE FrameArrives(g)
  <2>1. ReaderTypes'
    BY <1>7 DEF FrameArrives, ReaderTypes
  <2>2. QED
    BY <1>1, <1>7, <2>1 DEF FrameArrives
<1>8. CASE LinkLost(g)
  <2>1. link' \in {[link EXCEPT ![g] = "eof"], [link EXCEPT ![g] = "closing"]}
    BY <1>8 DEF LinkLost
  <2>2. spent' = [spent EXCEPT !["loss"] = @ + 1]
    BY <1>8 DEF LinkLost, Spend
  <2>3. ConnectionTypes' /\ SpentTypes'
    BY <1>8, <2>1, <2>2 DEF LinkLost, ConnectionTypes, SpentTypes, Budgets
  <2>4. QED
    BY <1>8, <2>3 DEF LinkLost, events, readers, tasks, thread, FlagTypes, ReaderTypes, PcTypes,
                      QueueTypes, UserTypes, SentTypes
<1>9. QED
  BY <1>2, <1>3, <1>4, <1>5, <1>6, <1>7, <1>8 DEF ReaderStep

\* The user's thread and what it hands to the submit loop.
LEMMA ThreadTypes ==
    ASSUME AllTypes, StartRuns \/ CloseRuns \/ UserConnects \/ UserDisconnects
    PROVE  AllTypes'
<1> USE DEF AllTypes
<1>1. CASE StartRuns
  <2>1. submitted' \in Seq(Calls \union {"start", "close"})
    BY <1>1, TailType DEF StartRuns, QueueTypes
  <2>2. UNCHANGED <<connection, readers, sentOn, connection_lock, schema, stop_reconnect,
                    frozen, spent>>
    BY <1>1 DEF StartRuns
  <2>3. /\ connected' \in BOOLEAN /\ disconnected' \in BOOLEAN /\ started' \in BOOLEAN
        /\ UserTypes' /\ PcTypes'
    <3>1. CASE NewLoop /\ pc' = NewLoopPc
      BY <3>1, NewLoopTypes DEF PcTypes
    <3>2. CASE UNCHANGED <<events, pc, user>>
      BY <3>2 DEF events, FlagTypes, UserTypes, PcTypes
    <3>3. QED
      BY <1>1, <3>1, <3>2 DEF StartRuns
  <2>4. QED
    BY <2>1, <2>2, <2>3 DEF connection, readers, FlagTypes, ConnectionTypes, ReaderTypes,
                            QueueTypes, SentTypes, SpentTypes
<1>2. CASE CloseRuns
  <2>1. submitted' \in Seq(Calls \union {"start", "close"})
    BY <1>2, TailType DEF CloseRuns, QueueTypes
  <2>2. PcTypes' /\ SentTypes'
    BY <1>2, FailPendingTypes DEF CloseRuns
  <2>3. UNCHANGED <<events, opened, readerPc, connection_lock, schema, stop_reconnect,
                    frozen, spent>>
    BY <1>2 DEF CloseRuns
  <2>4. {opened} \ {0} \subseteq Connections
    BY ClientBoundsAssumption DEF ConnectionTypes, Connections
  <2>5. readerCancelled' \subseteq Connections
    BY <1>2, <2>4 DEF CloseRuns, ReaderTypes
  <2>6. link' \in [Connections -> {"unused", "up", "eof", "closing"}] /\ current' = 0
    BY <1>2 DEF CloseRuns, ConnectionTypes
  <2>7. UserTypes'
    BY <1>2 DEF CloseRuns, UserTypes
  <2>8. QED
    BY <2>1, <2>2, <2>3, <2>5, <2>6, <2>7, ClientBoundsAssumption
    DEF events, FlagTypes, ConnectionTypes, ReaderTypes, QueueTypes, SpentTypes
<1>3. ASSUME UNCHANGED <<events, connection, readers, tasks, frozen>>, UserTypes', SpentTypes',
             submitted' \in Seq(Calls \union {"start", "close"}), stop_reconnect' \in BOOLEAN
      PROVE  AllTypes'
  BY <1>3 DEF events, connection, readers, tasks, FlagTypes, ConnectionTypes, ReaderTypes, PcTypes,
              QueueTypes, SentTypes
<1>4. ASSUME NEW b \in Budgets, Spend(b)
      PROVE  SpentTypes'
  <2>1. spent' = [spent EXCEPT ![b] = @ + 1]
    BY <1>4 DEF Spend
  <2>2. QED
    BY <2>1 DEF SpentTypes
<1>5. \A e \in {"start", "close"} :
          Append(submitted, e) \in Seq(Calls \union {"start", "close"})
  BY DEF QueueTypes
<1>6. CASE UserConnects
  <2>1. CASE /\ Spend("connect") /\ stop_reconnect' = FALSE /\ user' = "connecting"
             /\ UNCHANGED <<events, connection, readers, tasks, submitted, frozen>>
    BY <1>3, <1>4, <2>1 DEF UserTypes, QueueTypes, Budgets
  <2>2. CASE /\ user' = "idle" /\ submitted' = Append(submitted, "start")
             /\ UNCHANGED <<events, connection, readers, tasks, stop_reconnect, frozen, spent>>
    BY <1>3, <1>5, <2>2 DEF UserTypes, SpentTypes, FlagTypes
  <2>3. QED
    BY <1>6, <2>1, <2>2 DEF UserConnects
<1>7. CASE UserDisconnects
  <2>1. CASE /\ Spend("disconnect") /\ stop_reconnect' = TRUE /\ user' = "disconnecting"
             /\ UNCHANGED <<events, connection, readers, tasks, submitted, frozen>>
    BY <1>3, <1>4, <2>1 DEF UserTypes, QueueTypes, Budgets
  <2>2. CASE /\ submitted' = Append(submitted, "close") /\ user' \in {"closing", "idle"}
             /\ UNCHANGED <<events, connection, readers, tasks, stop_reconnect, frozen, spent>>
    BY <1>3, <1>5, <2>2 DEF UserTypes, SpentTypes, FlagTypes
  <2>3. CASE /\ user' \in {"waiting", "idle"}
             /\ UNCHANGED <<events, connection, readers, tasks, stop_reconnect, submitted,
                            frozen, spent>>
    BY <1>3, <2>3 DEF UserTypes, SpentTypes, FlagTypes, QueueTypes
  <2>4. QED
    BY <1>7, <2>1, <2>2, <2>3 DEF UserDisconnects
<1>8. QED
  BY <1>1, <1>2, <1>6, <1>7

LEMMA TypeNext ==
    ASSUME TypeOK, HolderOpens, [Next]_vars
    PROVE  TypeOK'
<1>1. AllTypes
  BY TypeParts DEF AllTypes
<1>2. CASE Next
  <2>1. AllTypes'
    BY <1>1, <1>2, OpenerTypes, LoopTypes, CallTypes, ReaderStepTypes, ThreadTypes, Zenon DEF Next
  <2>2. QED
    BY <2>1, TypeParts, PTL DEF AllTypes
<1>3. CASE UNCHANGED vars
  BY <1>3 DEF vars, events, connection, readers, tasks, thread, TypeOK
<1>4. QED
  BY <1>2, <1>3

-----------------------------------------------------------------------------
(* Who opens a connection, and when.                                       *)

Busy(p) == pc[p] \in {"opening", "announcing"}

\* A task that is opening a connection found none that works, and since it holds
\* the lock there still is none.
OpensNeeded == \A o \in Openers : pc[o] = "opening" => ~Writable

\* Steps that neither start nor finish opening.
LEMMA OthersOpen ==
    ASSUME HolderOpens, OpensNeeded,
           \A p \in Openers : Busy(p)' => pc'[p] = pc[p],
           connection_lock # <<>> =>
               connection_lock' # <<>> /\ Head(connection_lock') = Head(connection_lock),
           Writable' => Writable
    PROVE  HolderOpens' /\ OpensNeeded'
BY DEF HolderOpens, OpensNeeded, Busy

\* Steps after which at most one task is opening.
LEMMA OnlyHolder ==
    ASSUME HolderOpens, NEW o \in Openers, Busy(o)
    PROVE  \A p \in Openers \ {o} : ~Busy(p)
BY DEF HolderOpens, Busy

LEMMA GotoOpens ==
    ASSUME PcTypes, NEW o \in Openers, NEW to, Goto(o, to), to \notin {"opening", "announcing"}
    PROVE  \A p \in Openers : Busy(p)' => p # o /\ pc'[p] = pc[p]
BY DEF PcTypes, Goto, Busy

LEMMA FailPendingOpens ==
    ASSUME FailPending
    PROVE  \A p \in Openers : Busy(p)' => pc'[p] = pc[p]
BY DEF FailPending, Busy

LEMMA ProceedOpens ==
    ASSUME PcTypes, NEW o \in Openers, Proceed(o)
    PROVE  \A p \in Openers : Busy(p)' => p # o /\ pc'[p] = pc[p]
<1>1. CASE o = ReconnectTask /\ SetConnected
  BY <1>1 DEF SetConnected, Busy
<1>2. CASE Goto(o, IF o = ReconnectTask THEN "schemaWait" ELSE "pending")
  BY <1>2, GotoOpens
<1>3. CASE Goto(o, IF o = ReconnectTask THEN "asleep" ELSE "failed")
  BY <1>3, GotoOpens
<1>4. QED
  BY <1>1, <1>2, <1>3 DEF Proceed

\* When nobody else is opening: the task goes on, or becomes the holder and opens.
LEMMA CheckedOpens ==
    ASSUME PcTypes, NEW o \in Openers, NEW queue \in Seq(Openers), Checked(o, queue),
           \A p \in Openers \ {o} : ~Busy(p), UNCHANGED connection
    PROVE  HolderOpens' /\ OpensNeeded'
<1>1. CASE Proceed(o)
  BY <1>1, ProceedOpens DEF HolderOpens, OpensNeeded, Busy
<1>2. CASE ~Writable /\ connection_lock' = <<o>> \o queue /\ Goto(o, "opening")
  <2>1. connection_lock' # <<>> /\ Head(connection_lock') = o
    BY <1>2
  <2>2. \A p \in Openers \ {o} : pc'[p] = pc[p]
    BY <1>2 DEF PcTypes, Goto
  <2>3. ~Writable'
    BY <1>2 DEF Writable, connection
  <2>4. QED
    BY <2>1, <2>2, <2>3 DEF HolderOpens, OpensNeeded, Busy
<1>3. QED
  BY <1>1, <1>2 DEF Checked

LEMMA EnsureOpens ==
    ASSUME PcTypes, QueueTypes, HolderOpens, OpensNeeded, NEW o \in Openers, ~Busy(o),
           Ensure(o), UNCHANGED connection
    PROVE  HolderOpens' /\ OpensNeeded'
<1>1. CASE connection_lock = <<>> /\ Checked(o, <<>>)
  <2>1. \A p \in Openers \ {o} : ~Busy(p)
    BY <1>1 DEF HolderOpens, Busy
  <2>2. <<>> \in Seq(Openers)
    OBVIOUS
  <2>3. QED
    BY <1>1, <2>1, <2>2, CheckedOpens, Zenon
<1>2. CASE /\ connection_lock # <<>> /\ connection_lock' = Append(connection_lock, o)
           /\ Goto(o, "ensuring")
  <2>1. connection_lock' # <<>> /\ Head(connection_lock') = Head(connection_lock)
    BY <1>2 DEF QueueTypes
  <2>2. \A p \in Openers : Busy(p)' => pc'[p] = pc[p]
    BY <1>2, GotoOpens
  <2>3. Writable' => Writable
    BY DEF Writable, connection
  <2>4. QED
    BY <2>1, <2>2, <2>3, OthersOpen
<1>3. QED
  BY <1>1, <1>2 DEF Ensure

LEMMA OpenerOpens ==
    ASSUME AllTypes, HolderOpens, OpensNeeded, NEW o \in Openers, OpenerStep(o)
    PROVE  HolderOpens' /\ OpensNeeded'
<1> USE DEF AllTypes
<1>1. CASE LockGranted(o)
  <2>1. \A p \in Openers \ {o} : ~Busy(p)
    BY <1>1 DEF LockGranted, HolderOpens, Busy
  <2>2. Tail(connection_lock) \in Seq(Openers)
    BY <1>1, TailType DEF QueueTypes, LockGranted
  <2>3. QED
    BY <1>1, <2>1, <2>2, CheckedOpens DEF LockGranted
<1>2. CASE ~LockGranted(o)
  <2>1. Busy(o)
    BY <1>2 DEF OpenerStep, OpenSucceeds, OpenFails, Announced, Busy
  <2>2. \A p \in Openers \ {o} : ~Busy(p)
    BY <2>1, OnlyHolder
  <2>3. CASE Goto(o, "announcing") /\ UNCHANGED connection_lock
    <3>1. pc' = [pc EXCEPT ![o] = "announcing"]
      BY <2>3 DEF Goto
    <3>2. QED
      BY <2>1, <2>2, <2>3, <3>1 DEF PcTypes, HolderOpens, OpensNeeded, Busy
  <2>4. CASE \A p \in Openers : Busy(p)' => p # o /\ pc'[p] = pc[p]
    BY <2>2, <2>4 DEF HolderOpens, OpensNeeded, Busy
  <2>5. CASE OpenFails(o)
    BY <2>4, <2>5, GotoOpens DEF OpenFails
  <2>6. QED
    BY <1>2, <2>3, <2>4, <2>5, ProceedOpens DEF OpenerStep, OpenSucceeds, Announced
<1>3. QED
  BY <1>1, <1>2

LEMMA LoopOpens ==
    ASSUME AllTypes, HolderOpens, OpensNeeded, LoopStep \/ SchemaFails
    PROVE  HolderOpens' /\ OpensNeeded'
<1> USE DEF AllTypes
<1>0. ReconnectTask \in Openers
  BY DEF Openers
<1>1. ASSUME UNCHANGED <<connection, connection_lock>>,
             \A p \in Openers : Busy(p)' => pc'[p] = pc[p]
      PROVE  HolderOpens' /\ OpensNeeded'
  BY <1>1, OthersOpen DEF Writable, connection
<1>2. CASE LoopChecks \/ LoopRetries
  <2>1. UNCHANGED connection /\ ~Busy(ReconnectTask)
    BY <1>2 DEF LoopChecks, LoopRetries, Busy
  <2>2. CASE Ensure(ReconnectTask)
    BY <1>0, <2>1, <2>2, EnsureOpens
  <2>3. CASE UNCHANGED connection_lock /\ Goto(ReconnectTask, "done")
    BY <1>0, <1>1, <2>1, <2>3, GotoOpens
  <2>4. CASE UNCHANGED connection_lock /\ Goto(ReconnectTask, "retrying")
    BY <1>0, <1>1, <2>1, <2>4, GotoOpens
  <2>5. QED
    BY <1>2, <2>2, <2>3, <2>4 DEF LoopChecks, LoopRetries
<1>3. CASE LoopLearns
  BY <1>1, <1>3 DEF LoopLearns, SetConnected, Busy
<1>4. CASE SchemaFails
  BY <1>0, <1>1, <1>4, GotoOpens DEF SchemaFails
<1>5. QED
  BY <1>2, <1>3, <1>4 DEF LoopStep

LEMMA CallOpens ==
    ASSUME AllTypes, HolderOpens, OpensNeeded, NEW c \in Calls,
           Submit(c) \/ CallStep(c) \/ CallTimesOut(c)
    PROVE  HolderOpens' /\ OpensNeeded'
<1> USE DEF AllTypes
<1>0. c \in Openers /\ c # ReconnectTask
  BY ReconnectTaskAssumption DEF Openers
<1>1. ASSUME NEW to \in {"submitted", "failed", "checked", "connecting", "waiting"}, Goto(c, to),
             UNCHANGED <<connection, connection_lock>>
      PROVE  HolderOpens' /\ OpensNeeded'
  <2>1. \A p \in Openers : Busy(p)' => pc'[p] = pc[p]
    BY <1>0, <1>1, GotoOpens
  <2>2. QED
    BY <1>1, <2>1, OthersOpen DEF Writable, connection
<1>2. CASE Submit(c) \/ CallBegins(c) \/ CallConnects(c) \/ CallTimesOut(c)
  BY <1>1, <1>2 DEF Submit, CallBegins, CallConnects, CallTimesOut
<1>3. CASE CallWaits(c)
  <2>1. UNCHANGED connection /\ ~Busy(c)
    BY <1>3 DEF CallWaits, Busy
  <2>2. CASE Ensure(c)
    BY <1>0, <2>1, <2>2, EnsureOpens
  <2>3. CASE pc' = [NewLoopPc EXCEPT ![c] = "waiting"] /\ UNCHANGED connection_lock
    <3>1. \A p \in Openers : Busy(p)' => pc'[p] = pc[p]
      BY <1>0, <2>3 DEF NewLoopPc, Busy
    <3>2. QED
      BY <2>1, <2>3, <3>1, OthersOpen DEF Writable, connection
  <2>4. QED
    BY <1>1, <1>3, <2>2, <2>3 DEF CallWaits
<1>4. CASE CallWakes(c)
  BY <1>0, <1>4, EnsureOpens DEF CallWakes, Busy
<1>5. QED
  BY <1>2, <1>3, <1>4 DEF CallStep

\* A reader's end and close() only take the connection away.
LEMMA ReaderOpens ==
    ASSUME AllTypes, HolderOpens, OpensNeeded, NEW g \in Connections,
           ReaderStep(g) \/ FrameArrives(g) \/ LinkLost(g)
    PROVE  HolderOpens' /\ OpensNeeded'
<1> USE DEF AllTypes
<1>1. UNCHANGED connection_lock
  BY DEF ReaderStep, ReaderStarts, ReaderEnds, ReaderEnd, ReaderEnded, FrameHandled,
         FrameDispatched, LateRead, FrameArrives, LinkLost, tasks
<1>2. ASSUME NEW o \in Openers, NEW to \in {"schemaReady", "answered"}, Goto(o, to)
      PROVE  \A p \in Openers : Busy(p)' => pc'[p] = pc[p]
  BY <1>2, GotoOpens
<1>3. \A h : Respond(h) => \A p \in Openers : Busy(p)' => pc'[p] = pc[p]
  BY <1>2 DEF Respond
<1>4. UNCHANGED pc => \A p \in Openers : Busy(p)' => pc'[p] = pc[p]
  BY DEF Busy
<1>5. \A p \in Openers : Busy(p)' => pc'[p] = pc[p]
  BY <1>3, <1>4, FailPendingOpens
  DEF ReaderStep, ReaderStarts, ReaderEnds, ReaderEnd, ReaderEnded, FrameHandled,
      FrameDispatched, LateRead, FrameArrives, LinkLost, tasks
<1>6. Writable' => Writable
  <2>1. CASE LinkLost(g)
    <3>1. current' = current /\ \A h \in Connections : link'[h] \in {link[h], "eof", "closing"}
      BY <2>1 DEF LinkLost, ConnectionTypes
    <3>2. link[g] = "up" /\ \A h \in Connections : h # g => link'[h] = link[h]
      BY <2>1 DEF LinkLost, ConnectionTypes
    <3>3. current # 0 => current \in Connections
      BY ClientBoundsAssumption DEF ConnectionTypes, Connections
    <3>4. QED
      BY <3>1, <3>2, <3>3 DEF Writable
  <2>2. CASE ~LinkLost(g)
    <3>1. link' = link /\ current' \in {0, current}
      BY <2>2 DEF ReaderStep, ReaderStarts, ReaderEnds, ReaderEnd, ReaderEnded, ReaderFinally,
                  FrameHandled, FrameDispatched, LateRead, FrameArrives, connection
    <3>2. QED
      BY <3>1 DEF Writable
  <2>3. QED
    BY <2>1, <2>2
<1>7. QED
  BY <1>1, <1>5, <1>6, OthersOpen

LEMMA ThreadOpens ==
    ASSUME AllTypes, HolderOpens, OpensNeeded,
           StartRuns \/ CloseRuns \/ UserConnects \/ UserDisconnects
    PROVE  HolderOpens' /\ OpensNeeded'
<1>1. UNCHANGED connection_lock
  BY DEF StartRuns, CloseRuns, UserConnects, UserDisconnects, tasks
<1>2. Writable' => Writable
  BY DEF StartRuns, CloseRuns, UserConnects, UserDisconnects, connection, Writable
<1>3. \A p \in Openers : Busy(p)' => pc'[p] = pc[p]
  <2>1. UNCHANGED pc => \A p \in Openers : Busy(p)' => pc'[p] = pc[p]
    BY DEF Busy
  <2>2. pc' = NewLoopPc => \A p \in Openers : Busy(p)' => pc'[p] = pc[p]
    BY DEF NewLoopPc, Busy
  <2>3. QED
    BY <2>1, <2>2, FailPendingOpens DEF StartRuns, CloseRuns, UserConnects, UserDisconnects, tasks
<1>4. QED
  BY <1>1, <1>2, <1>3, OthersOpen

-----------------------------------------------------------------------------
(* The theorems.                                                           *)

OpenInv == TypeOK /\ HolderOpens /\ OpensNeeded

LEMMA OpenInit == Init => OpenInv
<1>1. Init => HolderOpens /\ OpensNeeded
  BY DEF Init, HolderOpens, OpensNeeded
<1>2. QED
  BY <1>1, TypeInit DEF OpenInv

LEMMA OpenNext == OpenInv /\ [Next]_vars => OpenInv'
<1> SUFFICES ASSUME OpenInv, [Next]_vars
             PROVE  OpenInv'
  OBVIOUS
<1>1. AllTypes
  BY TypeParts DEF AllTypes, OpenInv
<1>2. TypeOK'
  BY TypeNext DEF OpenInv
<1>3. CASE Next
  <2>1. HolderOpens' /\ OpensNeeded'
    BY <1>1, <1>3, OpenerOpens, LoopOpens, CallOpens, ReaderOpens, ThreadOpens, Zenon
    DEF Next, OpenInv
  <2>2. QED
    BY <1>2, <2>1 DEF OpenInv
<1>4. CASE UNCHANGED vars
  BY <1>2, <1>4 DEF vars, connection, tasks, OpenInv, HolderOpens, OpensNeeded, Writable
<1>5. QED
  BY <1>3, <1>4

\* The client's connection state is well typed in every reachable state: neither
\* generations nor events nor queues ever hold anything else.
THEOREM ClientTypeCorrect == Spec => []TypeOK
<1>1. OpenInv => TypeOK
  BY DEF OpenInv
<1>2. QED
  BY <1>1, OpenInit, OpenNext, PTL DEF Spec

\* Only a task that holds connection_lock sets a new connection, and it found none
\* that works: whatever calls, losses, disconnects and callbacks interleave, a
\* connection that works is never replaced (_ensure_connection).
THEOREM WorkingConnectionKept == Spec => NeverReplacesWorking
<1>1. ASSUME OpenInv, [Next]_vars
      PROVE  [current' \notin {0, current} => ~Writable]_vars
  <2>1. ASSUME NEW o \in Openers, OpenSucceeds(o)
        PROVE  ~Writable
    BY <1>1, <2>1 DEF OpenInv, OpensNeeded, OpenSucceeds
  <2>2. CASE Next
    <3>1. CASE \E o \in Openers : OpenSucceeds(o)
      BY <2>1, <3>1
    <3>2. CASE ~ \E o \in Openers : OpenSucceeds(o)
      <4>1. current' \in {0, current}
        BY <2>2, <3>2
        DEF Next, OpenerStep, LockGranted, OpenFails, Announced, LoopStep, LoopChecks, LoopRetries,
            LoopLearns, SchemaFails, Submit, CallStep, CallBegins, CallConnects, CallWaits,
            CallWakes, CallTimesOut, ReaderStep, ReaderStarts, ReaderEnds, ReaderEnd, ReaderEnded,
            ReaderFinally, FrameHandled, FrameDispatched, LateRead, FrameArrives, LinkLost, StartRuns,
            CloseRuns, UserConnects, UserDisconnects, connection
      <4>2. QED
        BY <4>1
    <3>3. QED
      BY <3>1, <3>2
  <2>3. QED
    BY <1>1, <2>2
<1>2. QED
  BY <1>1, OpenInit, OpenNext, PTL DEF Spec, NeverReplacesWorking

-----------------------------------------------------------------------------
(* connection_lock: who is in its queue, and where.                        *)

Opening(o) == pc[o] \in OpeningStates
Inside == {o \in Openers : Opening(o)}
Waiting == {o \in Openers : pc[o] = "ensuring"}
LockQueue == Queue(connection_lock, Inside, Waiting)

\* Nobody but o, if anybody, starts or stops being inside "async with".
OthersStay(o) == \A p \in Openers \ {o} : Opening(p) \/ Opening(p)' => pc'[p] = pc[p]

LEMMA OthersStaySets ==
    ASSUME NEW o \in Openers, OthersStay(o)
    PROVE  /\ Inside' = IF Opening(o)' THEN Inside \union {o} ELSE Inside \ {o}
           /\ Waiting \ {o} \subseteq Waiting'
<1>1. \A p \in Openers \ {o} : Opening(p)' <=> Opening(p)
  BY DEF OthersStay, Opening
<1>2. \A p \in Openers \ {o} : pc[p] = "ensuring" => pc'[p] = "ensuring"
  BY DEF OthersStay, Opening, OpeningStates
<1> QED BY <1>1, <1>2 DEF Inside, Waiting

\* Steps that neither take, nor wait for, nor release the lock.
LEMMA LockUnmoved ==
    ASSUME LockQueue, UNCHANGED connection_lock,
           \A p \in Openers : Opening(p) \/ Opening(p)' => pc'[p] = pc[p]
    PROVE  LockQueue'
<1>1. Inside' = Inside /\ Waiting' = Waiting
  BY DEF Inside, Waiting, Opening, OpeningStates
<1> QED BY <1>1 DEF LockQueue

LEMMA GotoStays ==
    ASSUME PcTypes, NEW o \in Openers, NEW to, Goto(o, to)
    PROVE  OthersStay(o) /\ (Opening(o)' <=> to \in OpeningStates) /\ pc'[o] = to
BY DEF PcTypes, Goto, OthersStay, Opening

LEMMA ProceedStays ==
    ASSUME PcTypes, NEW o \in Openers, Proceed(o)
    PROVE  OthersStay(o) /\ ~Opening(o)'
<1>1. CASE o = ReconnectTask /\ SetConnected
  <2>1. /\ pc'[o] = "asleep"
        /\ \A p \in Openers \ {o} : pc'[p] = IF pc[p] = "waiting" THEN "woken" ELSE pc[p]
    BY <1>1 DEF SetConnected
  <2> QED BY <2>1 DEF OthersStay, Opening, OpeningStates
<1>2. CASE Goto(o, IF o = ReconnectTask THEN "schemaWait" ELSE "pending")
  BY <1>2, GotoStays DEF OpeningStates
<1>3. CASE Goto(o, IF o = ReconnectTask THEN "asleep" ELSE "failed")
  BY <1>3, GotoStays DEF OpeningStates
<1> QED BY <1>1, <1>2, <1>3 DEF Proceed

\* The holder leaves "async with": the next waiter becomes the head.
LEMMA LockReleased ==
    ASSUME QueueTypes, LockQueue, NEW o \in Openers, connection_lock # <<>>,
           Head(connection_lock) = o, connection_lock' = Tail(connection_lock),
           OthersStay(o), ~Opening(o)'
    PROVE  LockQueue'
<1>1. Inside' = Inside \ {o} /\ Waiting \ {o} \subseteq Waiting'
  BY OthersStaySets
<1>2. connection_lock \in Seq(Openers)
  BY DEF QueueTypes
<1>3. Queue(Tail(connection_lock), Inside \ {o}, Waiting')
  BY <1>1, <1>2, QueueNext, Zenon DEF LockQueue
<1> QED BY <1>1, <1>3 DEF LockQueue

\* The holder goes on inside "async with".
LEMMA LockHeld ==
    ASSUME QueueTypes, LockQueue, NEW o \in Openers, connection_lock # <<>>,
           Head(connection_lock) = o, UNCHANGED connection_lock,
           OthersStay(o), Opening(o)'
    PROVE  LockQueue'
<1>1. Inside' = Inside \union {o} /\ Waiting \ {o} \subseteq Waiting'
  BY OthersStaySets
<1>2. connection_lock \in Seq(Openers)
  BY DEF QueueTypes
<1>3. o \in Inside
  <2>1. 1 \in 1..Len(connection_lock) /\ connection_lock[1] = o
    BY <1>2
  <2> QED BY <2>1 DEF LockQueue, Queue
<1>4. Inside' = Inside
  BY <1>1, <1>3
<1>5. Queue(connection_lock, Inside, Waiting')
  BY <1>1, <1>2, QueueStays, Zenon DEF LockQueue
<1> QED BY <1>4, <1>5 DEF LockQueue

\* A task reaches "async with".
LEMMA EnsureQueues ==
    ASSUME PcTypes, QueueTypes, LockQueue, NEW o \in Openers, ~Opening(o), Ensure(o)
    PROVE  LockQueue'
<1>1. connection_lock \in Seq(Openers) /\ o \notin Inside
  BY DEF QueueTypes, Inside
<1>2. CASE connection_lock = <<>> /\ connection_lock' = <<>> /\ Proceed(o)
  <2>1. OthersStay(o) /\ ~Opening(o)'
    BY <1>2, ProceedStays
  <2>2. Inside' = Inside
    BY <1>1, <2>1, OthersStaySets
  <2> QED BY <1>2, <2>2 DEF LockQueue, Queue
<1>3. CASE connection_lock = <<>> /\ connection_lock' = <<o>> /\ Goto(o, "opening")
  <2>1. OthersStay(o) /\ Opening(o)'
    BY <1>3, GotoStays DEF OpeningStates
  <2>2. Inside' = Inside \union {o} /\ Inside = {}
    <3>1. Inside = {}
      BY <1>3 DEF LockQueue, Queue
    <3> QED BY <2>1, <3>1, OthersStaySets
  <2>3. Queue(<<o>>, {o}, Waiting')
    BY DEF Queue
  <2> QED BY <1>3, <2>2, <2>3 DEF LockQueue
<1>4. CASE connection_lock' = Append(connection_lock, o) /\ Goto(o, "ensuring")
  <2>1. OthersStay(o) /\ Opening(o)' /\ pc'[o] = "ensuring"
    BY <1>4, GotoStays DEF OpeningStates
  <2>2. Inside' = Inside \union {o} /\ Waiting \ {o} \subseteq Waiting' /\ o \in Waiting'
    BY <2>1, OthersStaySets DEF Waiting
  <2>3. Queue(Append(connection_lock, o), Inside \union {o}, Waiting')
    BY <1>1, <2>2, QueueJoin, Zenon DEF LockQueue
  <2> QED BY <1>4, <2>2, <2>3 DEF LockQueue
<1>5. <<o>> \o <<>> = <<o>>
  OBVIOUS
<1> QED BY <1>2, <1>3, <1>4, <1>5 DEF Ensure, Checked

\* The reconnect loop exists only once connect() made its events.
LoopNeedsStart == ~started => pc[ReconnectTask] = "none"

LEMMA ProceedStart ==
    ASSUME PcTypes, LoopNeedsStart, NEW o \in Openers, Proceed(o), pc[o] # "none"
    PROVE  LoopNeedsStart'
<1>0. ReconnectTask \in Openers
  BY DEF Openers
<1>1. CASE started
  BY <1>1 DEF Proceed, SetConnected, events, LoopNeedsStart
<1>2. CASE ~started
  <2>1. o # ReconnectTask
    BY <1>2 DEF LoopNeedsStart
  <2>2. pc'[ReconnectTask] = pc[ReconnectTask]
    BY <1>0, <2>1 DEF Proceed, Goto, PcTypes
  <2> QED BY <1>2, <2>2 DEF LoopNeedsStart
<1> QED BY <1>1, <1>2

LEMMA GotoStart ==
    ASSUME PcTypes, LoopNeedsStart, NEW o \in Openers, NEW to, Goto(o, to), pc[o] # "none",
           UNCHANGED started
    PROVE  LoopNeedsStart'
BY DEF PcTypes, Goto, LoopNeedsStart, Openers

LEMMA EnsureStart ==
    ASSUME PcTypes, LoopNeedsStart, NEW o \in Openers, NEW queue, pc[o] # "none",
           Ensure(o) \/ Checked(o, queue)
    PROVE  LoopNeedsStart'
BY ProceedStart, GotoStart DEF Ensure, Checked, events

LEMMA FailPendingStart ==
    ASSUME LoopNeedsStart, FailPending, UNCHANGED started
    PROVE  LoopNeedsStart'
BY DEF LoopNeedsStart, FailPending, Pending, Openers

LEMMA StartNext ==
    ASSUME AllTypes, LoopNeedsStart, Next
    PROVE  LoopNeedsStart'
<1> USE DEF AllTypes
<1>0. ReconnectTask \in Openers /\ Calls \subseteq Openers /\ ReconnectTask \notin Calls
  BY ReconnectTaskAssumption DEF Openers
<1>1. ASSUME NEW o \in Openers, OpenerStep(o)
      PROVE  LoopNeedsStart'
  <2>1. pc[o] # "none"
    BY <1>1 DEF OpenerStep, LockGranted, OpenSucceeds, OpenFails, Announced
  <2> QED BY <1>1, <2>1, EnsureStart, ProceedStart, GotoStart
          DEF OpenerStep, LockGranted, OpenSucceeds, OpenFails, Announced, events
<1>2. CASE LoopStep \/ SchemaFails
  <2>1. pc[ReconnectTask] # "none"
    BY <1>2 DEF LoopStep, LoopChecks, LoopRetries, LoopLearns, SchemaFails
  <2>2. CASE LoopLearns
    BY <2>1, <2>2 DEF LoopLearns, SetConnected, LoopNeedsStart
  <2> QED BY <1>0, <1>2, <2>1, <2>2, EnsureStart, GotoStart
          DEF LoopStep, LoopChecks, LoopRetries, SchemaFails, events
<1>3. ASSUME NEW c \in Calls, Submit(c) \/ CallStep(c) \/ CallTimesOut(c)
      PROVE  LoopNeedsStart'
  <2>1. pc[c] # "none"
    BY DEF PcTypes, CallStates, OpeningStates
  <2>2. CASE NewLoop
    BY <2>2 DEF NewLoop, LoopNeedsStart
  <2>3. CASE Ensure(c)
    BY <1>0, <2>1, <2>3, EnsureStart
  <2>4. CASE UNCHANGED started /\ \E to : Goto(c, to)
    BY <1>0, <2>1, <2>4, GotoStart
  <2> QED BY <1>3, <2>2, <2>3, <2>4
          DEF Submit, CallStep, CallBegins, CallConnects, CallWaits, CallWakes, CallTimesOut, events
<1>4. ASSUME UNCHANGED <<started, pc>>
      PROVE  LoopNeedsStart'
  BY <1>4 DEF LoopNeedsStart
<1>5. ASSUME NEW g, Respond(g), UNCHANGED started
      PROVE  LoopNeedsStart'
  <2>1. PICK o \in Openers : Pending(o) /\ \E to : Goto(o, to)
    BY <1>5 DEF Respond
  <2>2. pc[o] # "none"
    BY <2>1 DEF Pending
  <2> QED BY <1>5, <2>1, <2>2, GotoStart
<1>6. ASSUME NEW g \in Connections, ReaderStep(g) \/ FrameArrives(g) \/ LinkLost(g)
      PROVE  LoopNeedsStart'
  <2>1. UNCHANGED started
    BY <1>6 DEF ReaderStep, ReaderStarts, ReaderEnds, ReaderEnd, ReaderEnded, ReaderFinally,
                SetDisconnected, FrameHandled, FrameDispatched, LateRead, FrameArrives, LinkLost, events
  <2> QED BY <1>4, <1>5, <1>6, <2>1, FailPendingStart
          DEF ReaderStep, ReaderStarts, ReaderEnds, ReaderEnd, ReaderEnded,
              FrameHandled, FrameDispatched, LateRead, FrameArrives, LinkLost, tasks
<1>7. CASE StartRuns \/ CloseRuns \/ UserConnects \/ UserDisconnects
  <2>1. CASE NewLoop
    BY <2>1 DEF NewLoop, LoopNeedsStart
  <2> QED BY <1>4, <1>7, <2>1, FailPendingStart
          DEF StartRuns, CloseRuns, UserConnects, UserDisconnects, tasks, events
<1> QED BY <1>1, <1>2, <1>3, <1>6, <1>7 DEF Next

\* A call waits once for the submit loop to begin it.
SubmittedOnce ==
    /\ \A i \in 1..Len(submitted) : submitted[i] \in Calls => pc[submitted[i]] = "submitted"
    /\ \A i, j \in 1..Len(submitted) :
           submitted[i] = submitted[j] /\ submitted[i] \in Calls => i = j

\* Nobody but c, if anybody, is taken from the queue.
NotBegun(c) == \A d \in Calls \ {c} : pc[d] = "submitted" => pc'[d] = "submitted"

LEMMA SubmittedKeeps ==
    ASSUME QueueTypes, SubmittedOnce,
           \A d \in Calls : pc[d] = "submitted" => pc'[d] = "submitted",
           submitted' \in {submitted, Append(submitted, "start"), Append(submitted, "close")}
    PROVE  SubmittedOnce'
<1>1. submitted \in Seq(Calls \union {"start", "close"}) /\ Len(submitted) \in Nat
  BY DEF QueueTypes
<1>2. CASE submitted' = submitted
  BY <1>2 DEF SubmittedOnce
<1>3. ASSUME NEW e \in {"start", "close"}, submitted' = Append(submitted, e)
      PROVE  SubmittedOnce'
  <2>1. /\ Len(submitted') = Len(submitted) + 1
        /\ submitted'[Len(submitted) + 1] = e
        /\ \A i \in 1..Len(submitted) : submitted'[i] = submitted[i]
    BY <1>1, <1>3
  <2>2. \A i \in 1..Len(submitted') : submitted'[i] \in Calls => i \in 1..Len(submitted)
    <3> SUFFICES ASSUME NEW i \in 1..Len(submitted'), submitted'[i] \in Calls
                 PROVE  i \in 1..Len(submitted)
      OBVIOUS
    <3>1. i # Len(submitted) + 1
      BY <2>1, <1>3, ReconnectTaskAssumption
    <3> QED BY <1>1, <2>1, <3>1
  <2> QED BY <2>1, <2>2 DEF SubmittedOnce
<1> QED BY <1>2, <1>3

LEMMA SubmittedTaken ==
    ASSUME QueueTypes, SubmittedOnce, submitted # <<>>, submitted' = Tail(submitted),
           NEW c, Head(submitted) = c, NotBegun(c)
    PROVE  SubmittedOnce'
<1>1. /\ Len(submitted) \in Nat /\ Len(submitted') = Len(submitted) - 1
      /\ Len(submitted) >= 1 /\ submitted[1] = c
      /\ \A i \in 1..Len(submitted') : submitted'[i] = submitted[i + 1]
  BY DEF QueueTypes
<1>2. 1 \in 1..Len(submitted)
      /\ \A i \in 1..Len(submitted') : i + 1 \in 1..Len(submitted) /\ i + 1 # 1
  BY <1>1
<1>3. \A i \in 1..Len(submitted') : submitted'[i] \in Calls => submitted'[i] # c
  BY <1>1, <1>2 DEF SubmittedOnce
<1>4. \A i, j \in 1..Len(submitted') : i + 1 = j + 1 => i = j
  BY <1>1
<1> QED BY <1>1, <1>2, <1>3, <1>4 DEF SubmittedOnce, NotBegun

LEMMA SubmittedNext ==
    ASSUME AllTypes, SubmittedOnce, Next
    PROVE  SubmittedOnce'
<1> USE DEF AllTypes
<1>0. ReconnectTask \in Openers /\ Calls \subseteq Openers /\ ReconnectTask \notin Calls
      /\ "start" \notin Calls /\ "close" \notin Calls
  BY ReconnectTaskAssumption DEF Openers
<1> DEFINE Kept == \A d \in Calls : pc[d] = "submitted" => pc'[d] = "submitted"
<1>1. ASSUME NEW o \in Openers, NEW to, Goto(o, to), pc[o] # "submitted"
      PROVE  Kept
  BY <1>0, <1>1 DEF Goto, PcTypes
<1>2. ASSUME NEW o \in Openers, Proceed(o), pc[o] # "submitted"
      PROVE  Kept
  BY <1>0, <1>1, <1>2 DEF Proceed, SetConnected
<1>3. ASSUME NEW o \in Openers, NEW queue, Ensure(o) \/ Checked(o, queue), pc[o] # "submitted"
      PROVE  Kept
  BY <1>1, <1>2, <1>3 DEF Ensure, Checked
<1>4. FailPending => Kept
  BY <1>0 DEF FailPending, Pending
<1>5. \A g : Respond(g) => Kept
  BY <1>1 DEF Respond, Pending
<1>6. ASSUME NEW c \in Calls, pc' \in {NewLoopPc, [NewLoopPc EXCEPT ![c] = "waiting"]},
             pc[c] # "submitted"
      PROVE  Kept
  BY <1>0, <1>6 DEF NewLoopPc
<1>7. pc' = NewLoopPc => Kept
  BY <1>0 DEF NewLoopPc
<1>8. CASE /\ Kept
           /\ submitted' \in {submitted, Append(submitted, "start"), Append(submitted, "close")}
  BY <1>8, SubmittedKeeps
<1>9. CASE Kept /\ submitted # <<>> /\ submitted' = Tail(submitted)
  BY <1>9, SubmittedTaken DEF NotBegun
<1> HIDE DEF Kept
<1>10. ASSUME NEW o \in Openers, OpenerStep(o)
       PROVE  Kept /\ UNCHANGED submitted
  <2>1. pc[o] # "submitted"
    BY <1>10 DEF OpenerStep, LockGranted, OpenSucceeds, OpenFails, Announced
  <2> QED BY <1>1, <1>2, <1>3, <1>10, <2>1
          DEF OpenerStep, LockGranted, OpenSucceeds, OpenFails, Announced, thread
<1>11. CASE LoopStep \/ SchemaFails
  <2>1. pc[ReconnectTask] # "submitted"
    BY <1>11 DEF LoopStep, LoopChecks, LoopRetries, LoopLearns, SchemaFails
  <2>2. SetConnected => Kept
    BY <1>0 DEF SetConnected, Kept
  <2>3. Kept /\ UNCHANGED submitted
    BY <1>0, <1>1, <1>3, <1>11, <2>1, <2>2
    DEF LoopStep, LoopChecks, LoopRetries, LoopLearns, SchemaFails, thread
  <2> QED BY <1>8, <2>3
<1>12. ASSUME NEW c \in Calls, Submit(c)
       PROVE  SubmittedOnce'
  <2>1. pc[c] = "idle" /\ submitted' = Append(submitted, c) /\ pc' = [pc EXCEPT ![c] = "submitted"]
    BY <1>12 DEF Submit, Goto
  <2>2. submitted \in Seq(Calls \union {"start", "close"}) /\ Len(submitted) \in Nat
    BY DEF QueueTypes
  <2>3. /\ Len(submitted') = Len(submitted) + 1
        /\ submitted'[Len(submitted) + 1] = c
        /\ \A i \in 1..Len(submitted) : submitted'[i] = submitted[i]
    BY <2>1, <2>2
  <2>4. \A i \in 1..Len(submitted') : i \in 1..Len(submitted) \/ i = Len(submitted) + 1
    BY <2>2, <2>3
  <2>5. \A i \in 1..Len(submitted) : submitted[i] # c
    BY <2>1 DEF SubmittedOnce
  <2>6. pc'[c] = "submitted" /\ \A d \in Calls : pc[d] = "submitted" => pc'[d] = "submitted"
    BY <1>0, <2>1 DEF PcTypes
  <2> QED BY <2>3, <2>4, <2>5, <2>6 DEF SubmittedOnce
<1>13. ASSUME NEW c \in Calls, CallStep(c) \/ CallTimesOut(c)
       PROVE  SubmittedOnce'
  <2>1. CASE CallBegins(c)
    <3>1. NotBegun(c)
      BY <1>0, <2>1 DEF CallBegins, Goto, NotBegun, PcTypes
    <3> QED BY <2>1, <3>1, SubmittedTaken DEF CallBegins
  <2>2. CASE ~CallBegins(c)
    <3>1. pc[c] # "submitted"
      BY <1>13, <2>2 DEF CallStep, CallConnects, CallWaits, CallWakes, CallTimesOut
    <3>2. Kept /\ submitted' \in {submitted, Append(submitted, "start")}
      BY <1>0, <1>1, <1>3, <1>6, <1>13, <2>2, <3>1
      DEF CallStep, CallConnects, CallWaits, CallWakes, CallTimesOut, thread
    <3> QED BY <1>8, <3>2
  <2> QED BY <2>1, <2>2
<1>14. ASSUME NEW g \in Connections, ReaderStep(g) \/ FrameArrives(g) \/ LinkLost(g)
       PROVE  Kept /\ UNCHANGED submitted
  <2>1. UNCHANGED submitted
    BY <1>14 DEF ReaderStep, ReaderStarts, ReaderEnds, ReaderEnd, ReaderEnded,
                 FrameHandled, FrameDispatched, LateRead, FrameArrives, LinkLost, thread
  <2>2. UNCHANGED pc => Kept
    BY DEF Kept
  <2> QED BY <1>4, <1>5, <1>14, <2>1, <2>2
          DEF ReaderStep, ReaderStarts, ReaderEnds, ReaderEnd, ReaderEnded,
              FrameHandled, FrameDispatched, LateRead, FrameArrives, LinkLost, tasks
<1>15. CASE StartRuns \/ CloseRuns \/ UserConnects \/ UserDisconnects
  <2>1. UNCHANGED pc => Kept
    BY DEF Kept
  <2>2. Kept
    BY <1>4, <1>7, <1>15, <2>1 DEF StartRuns, CloseRuns, UserConnects, UserDisconnects, tasks
  <2> QED BY <1>8, <1>9, <1>15, <2>2 DEF StartRuns, CloseRuns, UserConnects, UserDisconnects
<1> QED BY <1>8, <1>10, <1>11, <1>12, <1>13, <1>14, <1>15 DEF Next

\* A new reconnect loop replaces none, or one that has ended: not one inside the lock.
LEMMA NewLoopQueues ==
    ASSUME AllTypes, LockQueue, LoopNeedsStart, NeedsLoop, UNCHANGED connection_lock,
           NEW c \in Openers, ~Opening(c),
           pc' \in {NewLoopPc, [NewLoopPc EXCEPT ![c] = "waiting"]}
    PROVE  LockQueue'
<1>1. ~Opening(ReconnectTask)
  BY DEF NeedsLoop, LoopNeedsStart, Opening, OpeningStates
<1>2. \A p \in Openers : pc'[p] \in {pc[p], "asleep", "stranded", "waiting"}
                        /\ (Opening(p) => pc'[p] = pc[p])
  BY <1>1 DEF NewLoopPc, Opening, OpeningStates
<1>3. \A p \in Openers : Opening(p) \/ Opening(p)' => pc'[p] = pc[p]
  BY <1>2 DEF Opening, OpeningStates
<1> QED BY <1>3, LockUnmoved

LEMMA OpenerQueues ==
    ASSUME AllTypes, HolderOpens, LockQueue, NEW o \in Openers, OpenerStep(o)
    PROVE  LockQueue'
<1> USE DEF AllTypes
<1>1. connection_lock # <<>> /\ Head(connection_lock) = o
  BY DEF OpenerStep, LockGranted, OpenSucceeds, OpenFails, Announced, HolderOpens
<1>2. CASE connection_lock' = Tail(connection_lock) /\ Proceed(o)
  BY <1>1, <1>2, ProceedStays, LockReleased
<1>3. CASE connection_lock' = <<o>> \o Tail(connection_lock) /\ Goto(o, "opening")
  <2>1. UNCHANGED connection_lock
    <3>1. connection_lock \in Seq(Openers)
      BY DEF QueueTypes
    <3>2. <<Head(connection_lock)>> \o Tail(connection_lock) = connection_lock
      BY <1>1, <3>1, QueueHeadTail, Zenon
    <3> QED BY <1>1, <1>3, <3>2
  <2>2. OthersStay(o) /\ Opening(o)'
    BY <1>3, GotoStays DEF OpeningStates
  <2> QED BY <1>1, <2>1, <2>2, LockHeld
<1>4. CASE Goto(o, "announcing") /\ UNCHANGED connection_lock
  <2>1. OthersStay(o) /\ Opening(o)'
    BY <1>4, GotoStays DEF OpeningStates
  <2> QED BY <1>1, <1>4, <2>1, LockHeld
<1>5. CASE OpenFails(o)
  <2>1. /\ Goto(o, IF o = ReconnectTask THEN "asleep" ELSE "failed")
        /\ connection_lock' = Tail(connection_lock)
    BY <1>5 DEF OpenFails
  <2>2. OthersStay(o) /\ ~Opening(o)'
    BY <2>1, GotoStays DEF OpeningStates
  <2> QED BY <1>1, <2>1, <2>2, LockReleased
<1> QED BY <1>2, <1>3, <1>4, <1>5
        DEF OpenerStep, LockGranted, OpenSucceeds, Announced, Checked

\* A task outside "async with" goes on outside.
LEMMA GotoOutside ==
    ASSUME PcTypes, LockQueue, NEW o \in Openers, NEW to, Goto(o, to),
           ~Opening(o), to \notin OpeningStates, UNCHANGED connection_lock
    PROVE  LockQueue'
<1>1. OthersStay(o) /\ ~Opening(o)'
  BY GotoStays
<1>2. \A p \in Openers : Opening(p) \/ Opening(p)' => pc'[p] = pc[p]
  BY <1>1 DEF OthersStay
<1> QED BY <1>2, LockUnmoved

LEMMA LoopQueues ==
    ASSUME AllTypes, LockQueue, LoopStep \/ SchemaFails
    PROVE  LockQueue'
<1> USE DEF AllTypes
<1>0. ReconnectTask \in Openers
  BY DEF Openers
<1>1. CASE LoopChecks \/ LoopRetries
  <2>1. ~Opening(ReconnectTask)
    BY <1>1 DEF LoopChecks, LoopRetries, Opening, OpeningStates
  <2>2. CASE Ensure(ReconnectTask)
    BY <1>0, <2>1, <2>2, EnsureQueues
  <2>3. ASSUME NEW to \in {"done", "retrying"}, Goto(ReconnectTask, to), UNCHANGED connection_lock
        PROVE  LockQueue'
    BY <1>0, <2>1, <2>3, GotoOutside DEF OpeningStates
  <2> QED BY <1>1, <2>2, <2>3 DEF LoopChecks, LoopRetries
<1>2. CASE LoopLearns
  <2>1. \A p \in Openers : Opening(p) \/ Opening(p)' => pc'[p] = pc[p]
    BY <1>2 DEF LoopLearns, SetConnected, Opening, OpeningStates
  <2> QED BY <1>2, <2>1, LockUnmoved DEF LoopLearns
<1>3. CASE SchemaFails
  <2>1. ~Opening(ReconnectTask)
    BY <1>3 DEF SchemaFails, Opening, OpeningStates
  <2> QED BY <1>0, <1>3, <2>1, GotoOutside DEF SchemaFails, OpeningStates
<1> QED BY <1>1, <1>2, <1>3 DEF LoopStep

LEMMA CallQueues ==
    ASSUME AllTypes, LockQueue, LoopNeedsStart, SubmittedOnce, NEW c \in Calls,
           Submit(c) \/ CallStep(c) \/ CallTimesOut(c)
    PROVE  LockQueue'
<1> USE DEF AllTypes
<1>0. c \in Openers /\ c # ReconnectTask
  BY ReconnectTaskAssumption DEF Openers
<1>1. ~Opening(c)
  <2>1. CASE CallBegins(c)
    <3>1. 1 \in 1..Len(submitted) /\ submitted[1] = c
      BY <2>1 DEF CallBegins, QueueTypes
    <3> QED BY <3>1 DEF SubmittedOnce, Opening, OpeningStates
  <2> QED BY <2>1 DEF Submit, CallStep, CallConnects, CallWaits, CallWakes, CallTimesOut,
                      Opening, OpeningStates
<1>2. ASSUME NEW to \in {"submitted", "failed", "checked", "connecting", "waiting"}, Goto(c, to),
             UNCHANGED connection_lock
      PROVE  LockQueue'
  BY <1>0, <1>1, <1>2, GotoOutside DEF OpeningStates
<1>3. CASE Submit(c) \/ CallBegins(c) \/ CallConnects(c) \/ CallTimesOut(c)
  BY <1>2, <1>3 DEF Submit, CallBegins, CallConnects, CallTimesOut
<1>4. CASE CallWaits(c)
  <2>1. CASE Ensure(c)
    BY <1>0, <1>1, <2>1, EnsureQueues
  <2>2. CASE pc' = [NewLoopPc EXCEPT ![c] = "waiting"] /\ UNCHANGED connection_lock /\ ~started
    BY <1>0, <1>1, <2>2, NewLoopQueues DEF NeedsLoop
  <2> QED BY <1>2, <1>4, <2>1, <2>2 DEF CallWaits
<1>5. CASE CallWakes(c)
  BY <1>0, <1>1, <1>5, EnsureQueues DEF CallWakes
<1> QED BY <1>3, <1>4, <1>5 DEF CallStep

LEMMA ReaderQueues ==
    ASSUME AllTypes, LockQueue, NEW g \in Connections,
           ReaderStep(g) \/ FrameArrives(g) \/ LinkLost(g)
    PROVE  LockQueue'
<1> USE DEF AllTypes
<1>1. UNCHANGED connection_lock
  BY DEF ReaderStep, ReaderStarts, ReaderEnds, ReaderEnd, ReaderEnded, FrameHandled,
         FrameDispatched, LateRead, FrameArrives, LinkLost, tasks
<1>2. \A h : Respond(h) => LockQueue'
  <2> SUFFICES ASSUME NEW h, Respond(h) PROVE LockQueue'
    OBVIOUS
  <2>1. PICK o \in Openers : Pending(o) /\ \E to \in {"schemaReady", "answered"} : Goto(o, to)
    BY DEF Respond
  <2>2. ~Opening(o)
    BY <2>1 DEF Pending, Opening, OpeningStates
  <2> QED BY <1>1, <2>1, <2>2, GotoOutside DEF OpeningStates
<1>3. FailPending => LockQueue'
  <2> SUFFICES ASSUME FailPending PROVE LockQueue'
    OBVIOUS
  <2>1. \A p \in Openers : Opening(p) \/ Opening(p)' => pc'[p] = pc[p]
    BY DEF FailPending, Pending, Opening, OpeningStates
  <2> QED BY <1>1, <2>1, LockUnmoved
<1>4. UNCHANGED pc => LockQueue'
  BY <1>1, LockUnmoved
<1> QED BY <1>2, <1>3, <1>4
        DEF ReaderStep, ReaderStarts, ReaderEnds, ReaderEnd, ReaderEnded, FrameHandled,
            FrameDispatched, LateRead, FrameArrives, LinkLost, tasks

LEMMA ThreadQueues ==
    ASSUME AllTypes, LockQueue, LoopNeedsStart,
           StartRuns \/ CloseRuns \/ UserConnects \/ UserDisconnects
    PROVE  LockQueue'
<1> USE DEF AllTypes
<1>1. UNCHANGED connection_lock
  BY DEF StartRuns, CloseRuns, UserConnects, UserDisconnects, tasks
<1>2. CASE NeedsLoop /\ pc' = NewLoopPc
  <2>1. ReconnectTask \in Openers /\ ~Opening(ReconnectTask)
    BY <1>2 DEF NeedsLoop, LoopNeedsStart, Opening, OpeningStates, Openers
  <2> QED BY <1>1, <1>2, <2>1, NewLoopQueues
<1>3. CASE FailPending
  <2>1. \A p \in Openers : Opening(p) \/ Opening(p)' => pc'[p] = pc[p]
    BY <1>3 DEF FailPending, Pending, Opening, OpeningStates
  <2> QED BY <1>1, <2>1, LockUnmoved
<1>4. CASE UNCHANGED pc
  BY <1>1, <1>4, LockUnmoved
<1> QED BY <1>2, <1>3, <1>4 DEF StartRuns, CloseRuns, UserConnects, UserDisconnects, tasks

LockInv == OpenInv /\ LoopNeedsStart /\ SubmittedOnce /\ LockQueue

LEMMA LockInit == Init => LockInv
<1> SUFFICES ASSUME Init PROVE LoopNeedsStart /\ SubmittedOnce /\ LockQueue
  BY OpenInit DEF LockInv
<1>1. LoopNeedsStart
  BY DEF Init, LoopNeedsStart, Openers
<1>4. SubmittedOnce
  BY DEF Init, SubmittedOnce
<1>2. connection_lock = <<>> /\ Inside = {}
  BY DEF Init, Inside, Opening, OpeningStates
<1>3. LockQueue
  BY <1>2 DEF LockQueue, Queue
<1> QED BY <1>1, <1>3, <1>4

LEMMA LockNext == LockInv /\ [Next]_vars => LockInv'
<1> SUFFICES ASSUME LockInv, [Next]_vars
             PROVE  LoopNeedsStart' /\ SubmittedOnce' /\ LockQueue'
  BY OpenNext DEF LockInv
<1>1. AllTypes /\ HolderOpens
  BY TypeParts DEF AllTypes, OpenInv, LockInv
<1>2. CASE Next
  <2>1. LoopNeedsStart' /\ SubmittedOnce'
    BY <1>1, <1>2, StartNext, SubmittedNext DEF LockInv
  <2>2. LockQueue'
    BY <1>1, <1>2, OpenerQueues, LoopQueues, CallQueues, ReaderQueues, ThreadQueues, Zenon
    DEF Next, LockInv
  <2> QED BY <2>1, <2>2
<1>3. CASE UNCHANGED vars
  BY <1>3 DEF vars, events, tasks, thread, LockInv, LoopNeedsStart, SubmittedOnce, LockQueue, Inside, Waiting, Opening
<1> QED BY <1>2, <1>3

\* connection_lock is granted in order to the calls and the reconnect loop that
\* reached "async with": each is in its queue once, from there until it leaves, and
\* only the head goes on (_ensure_connection).
THEOREM ConnectionLockCorrect == Spec => []ConnectionLockDiscipline
<1>1. ASSUME LockInv
      PROVE  ConnectionLockDiscipline
  <2> DEFINE places(o) == {i \in 1..Len(connection_lock) : connection_lock[i] = o}
  <2>1. ASSUME NEW o \in Openers
        PROVE  Cardinality(places(o)) = IF Opening(o) THEN 1 ELSE 0
    <3>1. CASE Opening(o)
      <4>1. PICK i \in 1..Len(connection_lock) : connection_lock[i] = o
        BY <1>1, <3>1 DEF LockInv, LockQueue, Queue, Inside
      <4>2. places(o) = {i}
        BY <1>1, <4>1 DEF LockInv, LockQueue, Queue
      <4> QED BY <3>1, <4>2, FS_Singleton
    <3>2. CASE ~Opening(o)
      <4>1. places(o) = {}
        BY <1>1, <3>2 DEF LockInv, LockQueue, Queue, Inside
      <4> QED BY <3>2, <4>1, FS_EmptySet
    <3> QED BY <3>1, <3>2
  <2>2. \A i \in 2..Len(connection_lock) : pc[connection_lock[i]] = "ensuring"
    BY <1>1 DEF LockInv, LockQueue, Queue, Waiting
  <2> QED BY <2>1, <2>2 DEF ConnectionLockDiscipline, Opening
<1> QED BY <1>1, LockInit, LockNext, PTL DEF Spec

-----------------------------------------------------------------------------
(* Callbacks that do not suspend: the newest connection is the only one        *)
(* alive, and whoever waits for a response waits on it.                        *)

Reading(g) == readerPc[g] \in {"created", "reading"}

SyncInv ==
    /\ \A g \in Connections : readerPc[g] \in {"none", "created", "reading", "done"}
    /\ \A g \in Connections : Reading(g) => g = opened
    /\ \A g \in Connections : link[g] = "up" => g = current
    /\ current # 0 => current = opened /\ Reading(current) /\ readerCancelled = {}
    /\ \A o \in Openers : Pending(o) => current # 0 /\ sentOn[o] = current
    /\ \A o \in Openers : pc[o] # "announcing"

\* The connection and its reader stay; whoever begins to wait was written on it.
LEMMA SyncStays ==
    ASSUME SyncInv, UNCHANGED <<connection, readers>>,
           \A o \in Openers : Pending(o)' =>
               \/ Pending(o) /\ sentOn'[o] = sentOn[o]
               \/ current # 0 /\ sentOn'[o] = current,
           \A o \in Openers : pc'[o] # "announcing"
    PROVE  SyncInv'
BY DEF SyncInv, connection, readers, Reading

\* The connection is gone, and everybody who waited on it failed.
LEMMA SyncFails ==
    ASSUME ConnectionTypes, SyncInv, FailPending, current' = 0, UNCHANGED opened,
           \A g \in Connections :
               /\ readerPc'[g] \in {"none", "created", "reading", "done"}
               /\ Reading(g)' => Reading(g)
               /\ link'[g] # "up"
    PROVE  SyncInv'
<1>1. \A o \in Openers : ~Pending(o)' /\ pc'[o] # "announcing"
  BY DEF FailPending, Pending, SyncInv
<1> QED BY <1>1 DEF SyncInv

\* What the task that gets hold of a connection does to the waiters.
LEMMA ProceedWaits ==
    ASSUME PcTypes, SentTypes, NEW o \in Openers, Proceed(o)
    PROVE  /\ \A p \in Openers : Pending(p)' =>
                 \/ Pending(p) /\ sentOn'[p] = sentOn[p]
                 \/ Writable' /\ sentOn'[p] = current'
           /\ \A p \in Openers : pc'[p] = "announcing" => pc[p] = "announcing"
<1>1. CASE SetConnected /\ UNCHANGED sentOn
  <2>1. \A p \in Openers : pc'[p] \in {pc[p], "asleep", "woken"}
    BY <1>1 DEF SetConnected
  <2> QED BY <1>1, <2>1 DEF Pending
<1>2. CASE /\ Writable'
           /\ Goto(o, IF o = ReconnectTask THEN "schemaWait" ELSE "pending")
           /\ sentOn' = [sentOn EXCEPT ![o] = current']
  BY <1>2 DEF Goto, PcTypes, SentTypes, Pending
<1>3. CASE Goto(o, IF o = ReconnectTask THEN "asleep" ELSE "failed") /\ UNCHANGED sentOn
  BY <1>3 DEF Goto, PcTypes, Pending
<1> QED BY <1>1, <1>2, <1>3 DEF Proceed

LEMMA GotoWaits ==
    ASSUME PcTypes, SentTypes, NEW o \in Openers, NEW to, Goto(o, to),
           to \notin {"pending", "schemaWait"},
           \/ UNCHANGED sentOn
           \/ sentOn' = [sentOn EXCEPT ![o] = 0]
    PROVE  /\ \A p \in Openers : Pending(p)' => Pending(p) /\ sentOn'[p] = sentOn[p]
           /\ \A p \in Openers : pc'[p] = "announcing" => pc[p] = "announcing" \/ to = "announcing"
BY DEF Goto, PcTypes, SentTypes, Pending

LEMMA EnsureSync ==
    ASSUME PcTypes, SentTypes, SyncInv, NEW o \in Openers, NEW queue,
           Ensure(o) \/ Checked(o, queue), UNCHANGED <<connection, readers>>
    PROVE  SyncInv'
<1>0. \A p \in Openers : pc[p] # "announcing"
  BY DEF SyncInv
<1>1. CASE Proceed(o)
  <2>1. Writable' => current # 0 /\ current' = current
    BY DEF Writable, connection
  <2> QED BY <1>0, <1>1, <2>1, ProceedWaits, SyncStays
<1>2. ASSUME NEW to \in {"opening", "ensuring"}, Goto(o, to), UNCHANGED sentOn
      PROVE  SyncInv'
  BY <1>0, <1>2, GotoWaits, SyncStays
<1> QED BY <1>1, <1>2 DEF Ensure, Checked

\* When a connection is opened, the one before it has ended and its reader with it.
LEMMA OpenSucceedsSync ==
    ASSUME ~AsyncCallbacks, AllTypes, OpensNeeded, SyncInv, NEW o \in Openers, OpenSucceeds(o)
    PROVE  SyncInv'
<1> USE DEF AllTypes
<1> DEFINE n == opened + 1
<1>1. /\ ~Writable /\ \A g \in Connections : ~ReaderReady(g)
      /\ opened' = n /\ current' = n /\ n \in Connections /\ opened # n /\ n # 0
      /\ link' = [link EXCEPT ![n] = "up"]
      /\ readerPc' = [readerPc EXCEPT ![n] = "created"]
      /\ Proceed(o) /\ UNCHANGED readerCancelled
  BY ClientBoundsAssumption DEF OpenSucceeds, OpensNeeded, ConnectionTypes, Connections
<1> HIDE DEF n
<1>2. readerCancelled = {}
  BY <1>1 DEF ReaderReady, ReaderTypes
<1>3. \A g \in Connections : link[g] # "up"
  BY <1>1 DEF SyncInv, Writable, Connections
<1>4. \A g \in Connections : ~Reading(g)
  BY <1>1, <1>3 DEF Reading, ReaderReady
<1>5. current = 0
  <2>1. current # 0 => current \in Connections
    BY ClientBoundsAssumption DEF ConnectionTypes, Connections
  <2> QED BY <1>4, <2>1 DEF SyncInv
<1>6. \A p \in Openers : ~Pending(p) /\ pc[p] # "announcing"
  BY <1>5 DEF SyncInv
<1>7. \A p \in Openers : (Pending(p)' => sentOn'[p] = n) /\ pc'[p] # "announcing"
  BY <1>1, <1>6, ProceedWaits
<1>8. \A g \in Connections : readerPc'[g] = IF g = n THEN "created" ELSE readerPc[g]
  BY <1>1 DEF ReaderTypes
<1>9. \A g \in Connections : link'[g] = IF g = n THEN "up" ELSE link[g]
  BY <1>1 DEF ConnectionTypes
<1> QED BY <1>1, <1>2, <1>3, <1>4, <1>7, <1>8, <1>9 DEF SyncInv, Reading

LEMMA OpenerSync ==
    ASSUME ~AsyncCallbacks, AllTypes, OpensNeeded, SyncInv, NEW o \in Openers, OpenerStep(o)
    PROVE  SyncInv'
<1> USE DEF AllTypes
<1>1. CASE LockGranted(o)
  BY <1>1, EnsureSync DEF LockGranted
<1>2. CASE OpenSucceeds(o)
  BY <1>2, OpenSucceedsSync
<1>3. CASE OpenFails(o)
  BY <1>3, GotoWaits, SyncStays DEF OpenFails, SyncInv
<1>4. CASE Announced(o)
  BY <1>4 DEF Announced, SyncInv
<1> QED BY <1>1, <1>2, <1>3, <1>4 DEF OpenerStep

LEMMA LoopSync ==
    ASSUME ~AsyncCallbacks, AllTypes, SyncInv, LoopStep \/ SchemaFails
    PROVE  SyncInv'
<1> USE DEF AllTypes
<1>0. ReconnectTask \in Openers /\ \A p \in Openers : pc[p] # "announcing"
  BY DEF Openers, SyncInv
<1>1. UNCHANGED <<connection, readers>>
  BY DEF LoopStep, LoopChecks, LoopRetries, LoopLearns, SchemaFails, readers
<1>2. ASSUME NEW to \in {"done", "asleep", "retrying"}, Goto(ReconnectTask, to),
             UNCHANGED sentOn \/ sentOn' = [sentOn EXCEPT ![ReconnectTask] = 0]
      PROVE  SyncInv'
  BY <1>0, <1>1, <1>2, GotoWaits, SyncStays
<1>3. CASE LoopLearns
  <2>1. \A p \in Openers : pc'[p] \in {pc[p], "asleep", "woken"}
    BY <1>3 DEF LoopLearns, SetConnected
  <2>2. UNCHANGED sentOn
    BY <1>3 DEF LoopLearns
  <2> QED BY <1>0, <1>1, <2>1, <2>2, SyncStays DEF Pending
<1>4. CASE Ensure(ReconnectTask)
  BY <1>0, <1>1, <1>4, EnsureSync
<1> QED BY <1>2, <1>3, <1>4 DEF LoopStep, LoopChecks, LoopRetries, SchemaFails

LEMMA CallSync ==
    ASSUME AllTypes, SyncInv, NEW c \in Calls, Submit(c) \/ CallStep(c) \/ CallTimesOut(c)
    PROVE  SyncInv'
<1> USE DEF AllTypes
<1>0. c \in Openers /\ \A p \in Openers : pc[p] # "announcing"
  BY DEF Openers, SyncInv
<1>1. UNCHANGED <<connection, readers>>
  BY DEF Submit, CallStep, CallBegins, CallConnects, CallWaits, CallWakes, CallTimesOut
<1>2. ASSUME NEW to \in {"submitted", "failed", "checked", "connecting", "waiting"}, Goto(c, to),
             UNCHANGED sentOn \/ sentOn' = [sentOn EXCEPT ![c] = 0]
      PROVE  SyncInv'
  BY <1>0, <1>1, <1>2, GotoWaits, SyncStays
<1>3. CASE pc' = [NewLoopPc EXCEPT ![c] = "waiting"] /\ UNCHANGED sentOn
  <2>1. \A p \in Openers : pc'[p] \in {pc[p], "asleep", "stranded", "waiting"}
    BY <1>3 DEF NewLoopPc
  <2> QED BY <1>0, <1>1, <1>3, <2>1, SyncStays DEF Pending
<1>4. CASE Ensure(c)
  BY <1>0, <1>1, <1>4, EnsureSync
<1> QED BY <1>2, <1>3, <1>4
        DEF Submit, CallStep, CallBegins, CallConnects, CallWaits, CallWakes, CallTimesOut

LEMMA ReaderEndSync ==
    ASSUME ~AsyncCallbacks, AllTypes, SyncInv, NEW g \in Connections, ReaderEnd(g),
           current # 0 => link[g] # "up" /\ Reading(g)
    PROVE  SyncInv'
<1> USE DEF AllTypes
<1>1. /\ FailPending /\ current' = 0 /\ UNCHANGED <<opened, link>>
      /\ readerPc' = [readerPc EXCEPT ![g] = "done"]
  BY DEF ReaderEnd, ReaderFinally
<1>2. \A h \in Connections : readerPc'[h] = IF h = g THEN "done" ELSE readerPc[h]
  BY <1>1 DEF ReaderTypes
<1>3. \A h \in Connections : link'[h] # "up"
  BY <1>1 DEF SyncInv, Connections
<1>4. \A h \in Connections : /\ readerPc'[h] \in {"none", "created", "reading", "done"}
                             /\ Reading(h)' => Reading(h)
  BY <1>2 DEF SyncInv, Reading
<1> QED BY <1>1, <1>3, <1>4, SyncFails

LEMMA ReaderSync ==
    ASSUME ~AsyncCallbacks, AllTypes, SyncInv, NEW g \in Connections,
           ReaderStep(g) \/ FrameArrives(g) \/ LinkLost(g)
    PROVE  SyncInv'
<1> USE DEF AllTypes
<1>0. \A p \in Openers : pc[p] # "announcing"
  BY DEF SyncInv
<1>1. CASE ReaderStarts(g)
  <2>1. CASE g \in readerCancelled /\ readerPc' = [readerPc EXCEPT ![g] = "done"]
             /\ UNCHANGED <<connection, tasks>>
    <3>1. current = 0 /\ \A h \in Connections : readerPc'[h] = IF h = g THEN "done" ELSE readerPc[h]
      BY <2>1 DEF SyncInv, ReaderTypes
    <3> QED BY <2>1, <3>1 DEF SyncInv, Reading, Pending, connection, tasks
  <2>2. CASE readerPc[g] = "created" /\ readerPc' = [readerPc EXCEPT ![g] = "reading"]
             /\ UNCHANGED <<connection, readerCancelled, tasks>>
    <3>1. \A h \in Connections : readerPc'[h] = IF h = g THEN "reading" ELSE readerPc[h]
      BY <2>2 DEF ReaderTypes
    <3>2. current # 0 => current \in Connections
      BY ClientBoundsAssumption DEF ConnectionTypes, Connections
    <3> QED BY <2>2, <3>1, <3>2 DEF SyncInv, Reading, Pending, connection, tasks
  <2>3. CASE current = 0 /\ ReaderEnd(g)
    BY <2>3, ReaderEndSync
  <2> QED BY <1>1, <2>1, <2>2, <2>3 DEF ReaderStarts
<1>2. CASE ReaderEnds(g)
  <2>1. /\ readerPc[g] = "reading" /\ ReaderEnd(g)
        /\ link[g] # "up" \/ readerCancelled # {}
    BY <1>2 DEF ReaderEnds, SyncInv
  <2>2. current # 0 => link[g] # "up" /\ Reading(g)
    BY <2>1 DEF SyncInv, Reading
  <2> QED BY <2>1, <2>2, ReaderEndSync
<1>3. CASE FrameHandled(g)
  <2>1. PICK o \in Openers : /\ Goto(o, IF o = ReconnectTask THEN "schemaReady" ELSE "answered")
                             /\ sentOn' = [sentOn EXCEPT ![o] = 0]
    BY <1>3 DEF FrameHandled, Respond
  <2>2. ASSUME NEW to \in {"schemaReady", "answered"}, Goto(o, to)
        PROVE  SyncInv'
    BY <1>0, <1>3, <2>1, <2>2, GotoWaits, SyncStays DEF FrameHandled
  <2> QED BY <2>1, <2>2
<1>4. CASE LinkLost(g)
  <2>1. /\ link' \in {[link EXCEPT ![g] = "eof"], [link EXCEPT ![g] = "closing"]}
        /\ UNCHANGED <<current, opened, readers, tasks>>
    BY <1>4 DEF LinkLost
  <2>2. \A h \in Connections : link'[h] = "up" => link[h] = "up"
    BY <2>1 DEF ConnectionTypes
  <2> QED BY <2>1, <2>2 DEF SyncInv, Reading, Pending, readers, tasks
<1>5. ~FrameArrives(g) /\ ~FrameDispatched(g) /\ ~LateRead(g) /\ ~ReaderEnded(g)
  BY DEF FrameArrives, FrameDispatched, LateRead, ReaderEnded, SyncInv
<1> QED BY <1>1, <1>2, <1>3, <1>4, <1>5 DEF ReaderStep

LEMMA ThreadSync ==
    ASSUME AllTypes, SyncInv, StartRuns \/ CloseRuns \/ UserConnects \/ UserDisconnects
    PROVE  SyncInv'
<1> USE DEF AllTypes
<1>0. \A p \in Openers : pc[p] # "announcing"
  BY DEF SyncInv
<1>1. CASE StartRuns
  <2>1. \A p \in Openers : pc'[p] \in {pc[p], "asleep", "stranded"}
    BY <1>1 DEF StartRuns, NewLoopPc
  <2> QED BY <1>0, <1>1, <2>1, SyncStays DEF StartRuns, Pending
<1>2. CASE CloseRuns
  <2>1. /\ link' = [g \in Connections |-> IF g = current THEN "closing" ELSE link[g]]
        /\ FailPending /\ current' = 0 /\ UNCHANGED <<opened, readerPc>>
    BY <1>2 DEF CloseRuns
  <2>2. \A g \in Connections : link'[g] # "up"
    BY <2>1 DEF SyncInv
  <2>3. \A g \in Connections : readerPc'[g] \in {"none", "created", "reading", "done"}
                               /\ (Reading(g)' => Reading(g))
    BY <2>1 DEF SyncInv, Reading
  <2> QED BY <2>1, <2>2, <2>3, SyncFails
<1>3. CASE UserConnects \/ UserDisconnects
  BY <1>0, <1>3, SyncStays DEF UserConnects, UserDisconnects, tasks, Pending
<1> QED BY <1>1, <1>2, <1>3

LEMMA SyncAlways ==
    ASSUME ~AsyncCallbacks
    PROVE  Spec => [](OpenInv /\ SyncInv)
<1>1. Init => SyncInv
  BY DEF Init, SyncInv, Reading, Pending
<1>2. ASSUME OpenInv, SyncInv, [Next]_vars
      PROVE  SyncInv'
  <2>1. AllTypes /\ OpensNeeded
    BY <1>2, TypeParts DEF AllTypes, OpenInv
  <2>2. CASE Next
    BY <1>2, <2>1, <2>2, OpenerSync, LoopSync, CallSync, ReaderSync, ThreadSync, Zenon DEF Next
  <2>3. CASE UNCHANGED vars
    BY <1>2, <2>3, SyncStays DEF vars, tasks, Pending, SyncInv
  <2> QED BY <1>2, <2>2, <2>3
<1> QED BY <1>1, <1>2, OpenInit, OpenNext, PTL DEF Spec

\* With callbacks that do not suspend, the client never has two live connections:
\* when one is opened, the reader of the one before has ended and taken it down.
THEOREM OneConnectionCorrect ==
    ASSUME ~AsyncCallbacks
    PROVE  Spec => []OneConnection
<1>1. ASSUME SyncInv
      PROVE  OneConnection
  <2> DEFINE up == {g \in Connections : link[g] = "up"}
  <2>1. up \in SUBSET {current}
    BY <1>1 DEF SyncInv
  <2>2. Cardinality(up) <= Cardinality({current})
    BY <2>1, FS_Singleton, FS_Subset
  <2> QED BY <2>2, FS_Singleton DEF OneConnection
<1> QED BY <1>1, SyncAlways, PTL

\* With callbacks that do not suspend, a call that waits for a response waits on a
\* connection whose reader is still there to answer it or to fail it.
THEOREM PendingHasReaderCorrect ==
    ASSUME ~AsyncCallbacks
    PROVE  Spec => []PendingHasReader
<1>1. ASSUME SyncInv
      PROVE  PendingHasReader
  <2> SUFFICES ASSUME NEW c \in Calls, pc[c] = "pending"
               PROVE  readerPc[sentOn[c]] \in {"created", "reading"}
    BY DEF PendingHasReader
  <2>1. c \in Openers /\ Pending(c)
    BY DEF Openers, Pending
  <2> QED BY <1>1, <2>1 DEF SyncInv, Reading
<1> QED BY <1>1, SyncAlways, PTL
-----------------------------------------------------------------------------
(* Callbacks that do suspend.  First: a working connection is dropped only by  *)
(* the "finally" of a reader, and a reader has one.                            *)

Finished == {g \in Connections : readerPc[g] = "done"}

DropInv ==
    /\ current \in {0, opened}
    /\ \A g \in Connections : g > opened => link[g] = "unused" /\ readerPc[g] = "none"
    /\ Cardinality(Dropped) <= Cardinality(Finished)

LEMMA CurrentConnection ==
    ASSUME ConnectionTypes
    PROVE  current # 0 => current \in Connections
BY ClientBoundsAssumption DEF ConnectionTypes, Connections

LEMMA FiniteSets ==
    /\ IsFiniteSet(Dropped) /\ IsFiniteSet(Dropped')
    /\ IsFiniteSet(Finished) /\ IsFiniteSet(Finished')
<1>1. IsFiniteSet(Connections)
  BY ClientBoundsAssumption, FS_Interval DEF Connections
<1>2. Dropped \subseteq Connections /\ Dropped' \subseteq Connections
      /\ Finished \subseteq Connections /\ Finished' \subseteq Connections
  BY DEF Dropped, Finished
<1> QED BY <1>1, <1>2, FS_Subset

\* No connection is opened, none is dropped.
LEMMA DropsNone ==
    ASSUME DropInv, UNCHANGED opened, current' \in {0, current},
           \A g \in Connections : g > opened => link'[g] = link[g] /\ readerPc'[g] = readerPc[g],
           Dropped' \subseteq Dropped, Finished \subseteq Finished'
    PROVE  DropInv'
<1>1. Cardinality(Dropped') <= Cardinality(Dropped)
  BY FiniteSets, FS_Subset
<1>2. Cardinality(Finished) <= Cardinality(Finished')
  BY FiniteSets, FS_Subset
<1>3. /\ Cardinality(Dropped) \in Nat /\ Cardinality(Dropped') \in Nat
      /\ Cardinality(Finished) \in Nat /\ Cardinality(Finished') \in Nat
  BY FiniteSets, FS_CardinalityType
<1>4. Cardinality(Dropped') <= Cardinality(Finished')
  BY <1>1, <1>2, <1>3 DEF DropInv
<1> QED BY <1>4 DEF DropInv

LEMMA DropsStay ==
    ASSUME DropInv, UNCHANGED <<connection, readers>>
    PROVE  DropInv'
BY DropsNone DEF connection, readers, Dropped, Finished

\* The "finally" drops the connection that is current, and its reader is done.
LEMMA FinallyDrops ==
    ASSUME ConnectionTypes, ReaderTypes, DropInv, NEW g \in Connections, ReaderFinally(g),
           readerPc[g] \notin {"none", "done"}, UNCHANGED <<opened, link>>
    PROVE  DropInv'
<1>1. /\ readerPc' = [readerPc EXCEPT ![g] = "done"] /\ current' = 0
      /\ \A h \in Connections : readerPc'[h] = IF h = g THEN "done" ELSE readerPc[h]
  BY DEF ReaderFinally, ReaderTypes
<1>2. Finished' = Finished \union {g} /\ g \notin Finished
  BY <1>1 DEF Finished
<1>3. Cardinality(Finished') = Cardinality(Finished) + 1
  BY <1>2, FiniteSets, FS_AddElement
<1>4. Dropped' \subseteq Dropped \union {current}
  BY DEF Dropped
<1>5. /\ IsFiniteSet(Dropped \union {current})
      /\ Cardinality(Dropped \union {current}) <= Cardinality(Dropped) + 1
  <2>1. IsFiniteSet(Dropped) /\ Cardinality(Dropped) \in Nat
    BY FiniteSets, FS_CardinalityType
  <2>2. /\ IsFiniteSet(Dropped \union {current})
        /\ Cardinality(Dropped \union {current})
               = IF current \in Dropped THEN Cardinality(Dropped) ELSE Cardinality(Dropped) + 1
    BY <2>1, FS_AddElement
  <2> QED BY <2>1, <2>2
<1>6. Cardinality(Dropped') <= Cardinality(Dropped \union {current})
  BY <1>4, <1>5, FS_Subset
<1>7. /\ Cardinality(Dropped) \in Nat /\ Cardinality(Dropped') \in Nat
      /\ Cardinality(Finished) \in Nat /\ Cardinality(Dropped \union {current}) \in Nat
  BY <1>5, FiniteSets, FS_CardinalityType
<1>8. Cardinality(Dropped') <= Cardinality(Finished')
  BY <1>3, <1>5, <1>6, <1>7 DEF DropInv
<1>9. g <= opened
  BY ClientBoundsAssumption DEF DropInv, ConnectionTypes, Connections
<1> QED BY <1>1, <1>8, <1>9 DEF DropInv

\* A connection is opened only where there was none that works, so nothing is dropped.
LEMMA OpenSucceedsDrops ==
    ASSUME AllTypes, OpensNeeded, DropInv, NEW o \in Openers, OpenSucceeds(o)
    PROVE  DropInv'
<1> USE DEF AllTypes
<1> DEFINE n == opened + 1
<1>1. /\ ~Writable /\ opened' = n /\ current' = n /\ n \in Connections /\ n > opened /\ n \in Nat
      /\ link' = [link EXCEPT ![n] = "up"]
      /\ readerPc' = [readerPc EXCEPT ![n] = "created"]
  BY ClientBoundsAssumption DEF OpenSucceeds, OpensNeeded, ConnectionTypes, Connections
<1>2. \A g \in Connections : g > n => g > opened /\ g # n
  BY <1>1, ClientBoundsAssumption DEF ConnectionTypes, Connections
<1> HIDE DEF n
<1>3. \A g \in Connections : readerPc'[g] = IF g = n THEN "created" ELSE readerPc[g]
  BY <1>1 DEF ReaderTypes
<1>4. \A g \in Connections : link'[g] = IF g = n THEN "up" ELSE link[g]
  BY <1>1 DEF ConnectionTypes
<1>5. Dropped' = Dropped
  <2>1. \A g \in Connections : link[g] = "up" => g # current /\ g # n
    BY <1>1, CurrentConnection DEF Writable, DropInv, Connections
  <2> QED BY <1>1, <1>4, <2>1 DEF Dropped
<1>6. Finished' = Finished
  BY <1>1, <1>3 DEF Finished, DropInv
<1> QED BY <1>1, <1>2, <1>3, <1>4, <1>5, <1>6 DEF DropInv

LEMMA ReaderDrops ==
    ASSUME AllTypes, DropInv, NEW g \in Connections,
           ReaderStep(g) \/ FrameArrives(g) \/ LinkLost(g)
    PROVE  DropInv'
<1> USE DEF AllTypes
<1>0. readerPc[g] \notin {"none", "done"} \/ link[g] # "unused" => g <= opened
  BY ClientBoundsAssumption DEF DropInv, ConnectionTypes, Connections
<1>1. ASSUME NEW to, to # "none", readerPc' = [readerPc EXCEPT ![g] = to],
             readerPc[g] \notin {"none", "done"}, UNCHANGED connection
      PROVE  DropInv'
  <2>1. \A h \in Connections : readerPc'[h] = IF h = g THEN to ELSE readerPc[h]
    BY <1>1 DEF ReaderTypes
  <2>2. Finished \subseteq Finished'
    BY <1>1, <2>1 DEF Finished
  <2>3. \A h \in Connections : h > opened => readerPc'[h] = readerPc[h]
    BY <1>0, <1>1, <2>1, ClientBoundsAssumption DEF ConnectionTypes, Connections
  <2> QED BY <1>1, <2>2, <2>3, DropsNone DEF connection, Dropped
<1>2. ASSUME ReaderEnd(g), readerPc[g] \notin {"none", "done"}
      PROVE  DropInv'
  BY <1>1, <1>2, FinallyDrops DEF ReaderEnd, connection
<1>3. CASE ReaderStarts(g)
  BY <1>1, <1>2, <1>3 DEF ReaderStarts
<1>4. CASE ReaderEnds(g)
  BY <1>2, <1>4 DEF ReaderEnds
<1>5. CASE ReaderEnded(g)
  BY <1>1, <1>5, FinallyDrops DEF ReaderEnded, connection
<1>6. CASE FrameHandled(g) \/ LateRead(g)
  BY <1>6, DropsStay DEF FrameHandled, LateRead
<1>7. CASE FrameDispatched(g)
  <2>1. UNCHANGED connection /\ UNCHANGED readerCancelled /\ readerPc[g] = "dispatching"
    BY <1>7 DEF FrameDispatched
  <2>2. \/ UNCHANGED readerPc
        \/ readerPc' = [readerPc EXCEPT ![g] = "reading"]
        \/ readerPc' = [readerPc EXCEPT ![g] = "adrift"]
    BY <1>7 DEF FrameDispatched
  <2> QED BY <1>1, <2>1, <2>2, DropsStay DEF readers
<1>8. CASE FrameArrives(g)
  BY <1>1, <1>8 DEF FrameArrives
<1>9. CASE LinkLost(g)
  <2>1. /\ link[g] = "up" /\ UNCHANGED <<current, opened, readers>>
        /\ \A h \in Connections : h # g => link'[h] = link[h]
        /\ link'[g] # "up"
    BY <1>9 DEF LinkLost, ConnectionTypes
  <2>2. Dropped' \subseteq Dropped /\ Finished' = Finished
    BY <2>1 DEF Dropped, Finished, readers
  <2>3. \A h \in Connections : h > opened => link'[h] = link[h] /\ readerPc'[h] = readerPc[h]
    BY <1>0, <2>1, ClientBoundsAssumption DEF readers, ConnectionTypes, Connections
  <2> QED BY <2>1, <2>2, <2>3, DropsNone
<1> QED BY <1>3, <1>4, <1>5, <1>6, <1>7, <1>8, <1>9 DEF ReaderStep

LEMMA DropNext ==
    ASSUME OpenInv, DropInv, [Next]_vars
    PROVE  DropInv'
<1>1. AllTypes /\ OpensNeeded
  BY TypeParts DEF AllTypes, OpenInv
<1>2. ASSUME NEW o \in Openers, OpenerStep(o)
      PROVE  DropInv'
  BY <1>1, <1>2, OpenSucceedsDrops, DropsStay
  DEF OpenerStep, LockGranted, OpenFails, Announced
<1>3. CASE LoopStep \/ SchemaFails
  BY <1>3, DropsStay DEF LoopStep, LoopChecks, LoopRetries, LoopLearns, SchemaFails
<1>4. ASSUME NEW c \in Calls, Submit(c) \/ CallStep(c) \/ CallTimesOut(c)
      PROVE  DropInv'
  BY <1>4, DropsStay
  DEF Submit, CallStep, CallBegins, CallConnects, CallWaits, CallWakes, CallTimesOut
<1>5. CASE CloseRuns
  <2>1. /\ link' = [g \in Connections |-> IF g = current THEN "closing" ELSE link[g]]
        /\ current' = 0 /\ UNCHANGED <<opened, readerPc>>
    BY <1>5 DEF CloseRuns
  <2>2. Dropped' \subseteq Dropped /\ Finished' = Finished
    BY <2>1 DEF Dropped, Finished
  <2>3. \A g \in Connections : g > opened => link'[g] = link[g]
    BY <1>1, <2>1, ClientBoundsAssumption DEF AllTypes, ConnectionTypes, Connections
  <2> QED BY <2>1, <2>2, <2>3, DropsNone
<1>6. CASE StartRuns \/ UserConnects \/ UserDisconnects
  BY <1>6, DropsStay DEF StartRuns, UserConnects, UserDisconnects
<1>7. CASE UNCHANGED vars
  BY <1>7, DropsStay DEF vars
<1>8. ASSUME NEW g \in Connections, ReaderStep(g) \/ FrameArrives(g) \/ LinkLost(g)
      PROVE  DropInv'
  BY <1>1, <1>8, ReaderDrops
<1> QED BY <1>2, <1>3, <1>4, <1>5, <1>6, <1>7, <1>8, Zenon DEF Next

-----------------------------------------------------------------------------
(* Second: as long as no connection was lost and nobody asked for one to be    *)
(* closed, there is one at most and its reader goes on, whatever suspends it.  *)

Calm == spent["loss"] = 0 /\ spent["disconnect"] = 0
NoClose(s) == \A i \in 1..Len(s) : s[i] # "close"
GoesOn == \A g \in Connections : g <= opened => readerPc[g] \in {"created", "reading", "dispatching"}

Undisturbed ==
    /\ opened <= 1 /\ current = opened
    /\ \A g \in Connections : g <= opened => link[g] = "up"
    /\ GoesOn /\ readerCancelled = {} /\ ~frozen
    /\ user \in {"idle", "connecting"} /\ NoClose(submitted)
    /\ \A o \in Openers : Pending(o) => current # 0 /\ sentOn[o] = current

\* What is spent stays spent.
LEMMA CalmBefore ==
    ASSUME SpentTypes, Next, Calm'
    PROVE  Calm
<1>1. UNCHANGED spent \/ \E b \in Budgets : Spend(b)
  <2>1. ASSUME NEW o \in Openers, OpenerStep(o)
        PROVE  UNCHANGED spent \/ \E b \in Budgets : Spend(b)
    BY <2>1 DEF OpenerStep, LockGranted, OpenSucceeds, OpenFails, Announced, Budgets
  <2>2. ASSUME NEW c \in Calls, Submit(c) \/ CallStep(c) \/ CallTimesOut(c)
        PROVE  UNCHANGED spent
    BY <2>2 DEF Submit, CallStep, CallBegins, CallConnects, CallWaits, CallWakes, CallTimesOut
  <2>3. ASSUME NEW g \in Connections, ReaderStep(g) \/ FrameArrives(g) \/ LinkLost(g)
        PROVE  UNCHANGED spent \/ \E b \in Budgets : Spend(b)
    BY <2>3 DEF ReaderStep, ReaderStarts, ReaderEnds, ReaderEnd, ReaderEnded, FrameHandled,
                FrameDispatched, LateRead, FrameArrives, LinkLost, Budgets
  <2>4. LoopStep \/ SchemaFails => UNCHANGED spent \/ \E b \in Budgets : Spend(b)
    BY DEF LoopStep, LoopChecks, LoopRetries, LoopLearns, SchemaFails, Budgets
  <2>5. StartRuns \/ CloseRuns \/ UserConnects \/ UserDisconnects =>
            UNCHANGED spent \/ \E b \in Budgets : Spend(b)
    BY DEF StartRuns, CloseRuns, UserConnects, UserDisconnects, Budgets
  <2> QED BY <2>1, <2>2, <2>3, <2>4, <2>5, Zenon DEF Next
<1>2. ASSUME NEW b \in Budgets, Spend(b)
      PROVE  \A a \in Budgets : spent'[a] = 0 => spent[a] = 0
  BY <1>2 DEF Spend, SpentTypes
<1> QED BY <1>1, <1>2 DEF Calm, Budgets

LEMMA NoCloseStays ==
    ASSUME QueueTypes, NoClose(submitted)
    PROVE  /\ \A x \in Calls \union {"start"} : NoClose(Append(submitted, x))
           /\ submitted # <<>> => NoClose(Tail(submitted)) /\ Head(submitted) # "close"
<1>1. ASSUME NEW x \in Calls \union {"start"}
      PROVE  NoClose(Append(submitted, x))
  <2>1. x # "close"
    BY ReconnectTaskAssumption
  <2>2. /\ Len(Append(submitted, x)) = Len(submitted) + 1
        /\ \A i \in 1..Len(submitted) + 1 :
               Append(submitted, x)[i] = IF i = Len(submitted) + 1 THEN x ELSE submitted[i]
    BY DEF QueueTypes
  <2>3. Len(submitted) \in Nat
    BY DEF QueueTypes
  <2> QED BY <2>1, <2>2, <2>3 DEF NoClose
<1>2. ASSUME submitted # <<>>
      PROVE  NoClose(Tail(submitted)) /\ Head(submitted) # "close"
  <2>1. /\ Len(submitted) \in Nat \ {0} /\ Head(submitted) = submitted[1]
        /\ Len(Tail(submitted)) = Len(submitted) - 1
        /\ \A i \in 1..Len(submitted) - 1 : Tail(submitted)[i] = submitted[i + 1]
    BY <1>2 DEF QueueTypes
  <2> QED BY <2>1 DEF NoClose
<1> QED BY <1>1, <1>2

\* Whoever begins to wait was written on the connection, whose reader goes on.
LEMMA CalmReads ==
    ASSUME Undisturbed, UNCHANGED <<connection, readerCancelled, frozen>>, GoesOn',
           \A o \in Openers : Pending(o)' =>
               \/ Pending(o) /\ sentOn'[o] = sentOn[o]
               \/ current # 0 /\ sentOn'[o] = current,
           user' \in {"idle", "connecting"}, NoClose(submitted')
    PROVE  Undisturbed'
BY DEF Undisturbed, connection

LEMMA CalmStays ==
    ASSUME Undisturbed, UNCHANGED <<connection, readers, frozen>>,
           \A o \in Openers : Pending(o)' =>
               \/ Pending(o) /\ sentOn'[o] = sentOn[o]
               \/ current # 0 /\ sentOn'[o] = current,
           user' \in {"idle", "connecting"}, NoClose(submitted')
    PROVE  Undisturbed'
BY CalmReads DEF Undisturbed, GoesOn, connection, readers

LEMMA EnsureCalm ==
    ASSUME PcTypes, SentTypes, Undisturbed, NEW o \in Openers, NEW queue,
           Ensure(o) \/ Checked(o, queue),
           UNCHANGED <<connection, readers, frozen, submitted, user>>
    PROVE  Undisturbed'
<1>1. CASE Proceed(o)
  <2>1. Writable' => current # 0 /\ current' = current
    BY DEF Writable, connection
  <2> QED BY <1>1, <2>1, ProceedWaits, CalmStays DEF Undisturbed
<1>2. ASSUME NEW to \in {"opening", "ensuring"}, Goto(o, to), UNCHANGED sentOn
      PROVE  Undisturbed'
  BY <1>2, GotoWaits, CalmStays DEF Undisturbed
<1> QED BY <1>1, <1>2 DEF Ensure, Checked

LEMMA OpenSucceedsCalm ==
    ASSUME AllTypes, OpensNeeded, DropInv, Undisturbed, NEW o \in Openers, OpenSucceeds(o)
    PROVE  Undisturbed'
<1> USE DEF AllTypes
<1>1. ~Writable /\ 1 \in Connections
  BY ClientBoundsAssumption DEF OpenSucceeds, OpensNeeded, ConnectionTypes, Connections
<1>2. opened = 0 /\ current = 0
  BY <1>1 DEF Undisturbed, ConnectionTypes, Writable
<1>3. /\ opened' = 1 /\ current' = 1
      /\ link' = [link EXCEPT ![1] = "up"]
      /\ readerPc' = [readerPc EXCEPT ![1] = "created"]
      /\ UNCHANGED <<readerCancelled, thread, frozen>>
      /\ (Goto(o, "announcing") /\ UNCHANGED sentOn) \/ Proceed(o)
  BY <1>2 DEF OpenSucceeds
<1>4. \A p \in Openers : ~Pending(p)
  BY <1>2 DEF Undisturbed
<1>5. \A p \in Openers : Pending(p)' => sentOn'[p] = 1
  BY <1>3, <1>4, ProceedWaits, GotoWaits
<1>6. \A g \in Connections : g <= 1 =>
          link'[g] = "up" /\ readerPc'[g] = "created"
  BY <1>1, <1>3 DEF Connections, ConnectionTypes, ReaderTypes
<1> QED BY <1>3, <1>5, <1>6 DEF Undisturbed, GoesOn, thread

LEMMA OpenerCalm ==
    ASSUME AllTypes, OpensNeeded, DropInv, Undisturbed, NEW o \in Openers, OpenerStep(o)
    PROVE  Undisturbed'
<1> USE DEF AllTypes
<1>1. CASE LockGranted(o)
  BY <1>1, EnsureCalm DEF LockGranted, thread
<1>2. CASE OpenSucceeds(o)
  BY <1>2, OpenSucceedsCalm
<1>3. CASE OpenFails(o)
  BY <1>3, GotoWaits, CalmStays DEF OpenFails, thread, Undisturbed
<1>4. CASE Announced(o)
  <2>1. Writable' => current # 0 /\ current' = current
    BY <1>4 DEF Announced, Writable, connection
  <2> QED BY <1>4, <2>1, ProceedWaits, CalmStays DEF Announced, thread, Undisturbed
<1> QED BY <1>1, <1>2, <1>3, <1>4 DEF OpenerStep

LEMMA LoopCalm ==
    ASSUME AllTypes, Undisturbed, LoopStep \/ SchemaFails
    PROVE  Undisturbed'
<1> USE DEF AllTypes
<1>0. ReconnectTask \in Openers
  BY DEF Openers
<1>1. UNCHANGED <<connection, readers, frozen, submitted, user>>
  BY DEF LoopStep, LoopChecks, LoopRetries, LoopLearns, SchemaFails, thread
<1>2. ASSUME NEW to \in {"done", "asleep", "retrying"}, Goto(ReconnectTask, to),
             UNCHANGED sentOn \/ sentOn' = [sentOn EXCEPT ![ReconnectTask] = 0]
      PROVE  Undisturbed'
  BY <1>0, <1>1, <1>2, GotoWaits, CalmStays DEF Undisturbed
<1>3. CASE LoopLearns
  <2>1. \A p \in Openers : pc'[p] \in {pc[p], "asleep", "woken"}
    BY <1>3 DEF LoopLearns, SetConnected
  <2>2. UNCHANGED sentOn
    BY <1>3 DEF LoopLearns
  <2>3. \A p \in Openers : Pending(p)' => Pending(p) /\ sentOn'[p] = sentOn[p]
    BY <2>1, <2>2 DEF Pending
  <2> QED BY <1>1, <2>3, CalmStays DEF Undisturbed
<1>4. CASE Ensure(ReconnectTask)
  BY <1>0, <1>1, <1>4, EnsureCalm
<1> QED BY <1>2, <1>3, <1>4 DEF LoopStep, LoopChecks, LoopRetries, SchemaFails

LEMMA CallCalm ==
    ASSUME AllTypes, Undisturbed, NEW c \in Calls, Submit(c) \/ CallStep(c) \/ CallTimesOut(c)
    PROVE  Undisturbed'
<1> USE DEF AllTypes
<1>0. c \in Openers
  BY DEF Openers
<1>1. UNCHANGED <<connection, readers, frozen>>
  BY DEF Submit, CallStep, CallBegins, CallConnects, CallWaits, CallWakes, CallTimesOut
<1>2. user' \in {"idle", "connecting"}
  BY DEF Submit, CallStep, CallBegins, CallConnects, CallWaits, CallWakes, CallTimesOut, thread,
         NewLoop, Undisturbed
<1>3. NoClose(submitted')
  BY NoCloseStays DEF Submit, CallStep, CallBegins, CallConnects, CallWaits, CallWakes,
                      CallTimesOut, thread, Undisturbed
<1>4. ASSUME NEW to \in {"submitted", "failed", "checked", "connecting", "waiting"}, Goto(c, to),
             UNCHANGED sentOn \/ sentOn' = [sentOn EXCEPT ![c] = 0]
      PROVE  Undisturbed'
  BY <1>0, <1>1, <1>2, <1>3, <1>4, GotoWaits, CalmStays
<1>5. CASE pc' = [NewLoopPc EXCEPT ![c] = "waiting"] /\ UNCHANGED sentOn
  <2>1. \A p \in Openers : pc'[p] \in {pc[p], "asleep", "stranded", "waiting"}
    BY <1>5 DEF NewLoopPc
  <2>2. \A p \in Openers : Pending(p)' => Pending(p) /\ sentOn'[p] = sentOn[p]
    BY <1>5, <2>1 DEF Pending
  <2> QED BY <1>1, <1>2, <1>3, <2>2, CalmStays
<1>6. CASE Ensure(c) /\ UNCHANGED <<submitted, user>>
  BY <1>0, <1>1, <1>6, EnsureCalm
<1> QED BY <1>4, <1>5, <1>6
        DEF Submit, CallStep, CallBegins, CallConnects, CallWaits, CallWakes, CallTimesOut, thread

\* A reader goes on to the next frame: its connection is the current one and is up.
LEMMA ReaderCalm ==
    ASSUME AllTypes, DropInv, Undisturbed, NEW g \in Connections,
           ReaderStep(g) \/ FrameArrives(g)
    PROVE  Undisturbed'
<1> USE DEF AllTypes
<1>0. readerPc[g] # "none" =>
          /\ g = current /\ current # 0 /\ link[g] = "up" /\ g \notin readerCancelled
          /\ readerPc[g] \in {"created", "reading", "dispatching"}
  BY ClientBoundsAssumption DEF DropInv, Undisturbed, GoesOn, ConnectionTypes, Connections
<1>1. ASSUME NEW to \in {"reading", "dispatching"}, readerPc' = [readerPc EXCEPT ![g] = to],
             UNCHANGED opened
      PROVE  GoesOn'
  BY <1>1 DEF Undisturbed, GoesOn, ReaderTypes
<1>2. ASSUME Respond(g)
      PROVE  \A p \in Openers : Pending(p)' => Pending(p) /\ sentOn'[p] = sentOn[p]
  <2>1. PICK o \in Openers : /\ Goto(o, IF o = ReconnectTask THEN "schemaReady" ELSE "answered")
                             /\ sentOn' = [sentOn EXCEPT ![o] = 0]
    BY <1>2 DEF Respond
  <2> QED BY <2>1, GotoWaits
<1>3. CASE ReaderStarts(g)
  <2>1. /\ readerPc' = [readerPc EXCEPT ![g] = "reading"]
        /\ UNCHANGED <<connection, readerCancelled, tasks, thread, frozen>>
    BY <1>0, <1>3 DEF ReaderStarts
  <2>2. GoesOn'
    BY <1>1, <2>1 DEF connection
  <2> QED BY <2>1, <2>2, CalmReads DEF tasks, thread, Pending, Undisturbed
<1>4. CASE FrameArrives(g)
  <2>1. /\ readerPc' = [readerPc EXCEPT ![g] = "dispatching"]
        /\ UNCHANGED <<connection, readerCancelled, tasks, thread, frozen>>
    BY <1>4 DEF FrameArrives
  <2>2. GoesOn'
    BY <1>1, <2>1 DEF connection
  <2> QED BY <2>1, <2>2, CalmReads DEF tasks, thread, Pending, Undisturbed
<1>5. CASE FrameHandled(g)
  BY <1>2, <1>5, CalmStays DEF FrameHandled, thread, Undisturbed
<1>6. CASE FrameDispatched(g)
  <2>1. /\ readerPc' = [readerPc EXCEPT ![g] = "reading"]
        /\ UNCHANGED <<connection, readerCancelled, thread, frozen>>
        /\ Respond(g) \/ UNCHANGED <<pc, sentOn>>
    BY <1>0, <1>6 DEF FrameDispatched
  <2>2. GoesOn'
    BY <1>1, <2>1 DEF connection
  <2>3. \A p \in Openers : Pending(p)' => Pending(p) /\ sentOn'[p] = sentOn[p]
    BY <1>2, <2>1 DEF Pending
  <2> QED BY <2>1, <2>2, <2>3, CalmReads DEF thread, Undisturbed
<1>7. ~ReaderEnds(g) /\ ~ReaderEnded(g) /\ ~LateRead(g)
  BY <1>0 DEF ReaderEnds, ReaderEnded, LateRead
<1> QED BY <1>3, <1>4, <1>5, <1>6, <1>7 DEF ReaderStep

\* Losing a connection and asking to close it are what ends the calm.
LEMMA NetworkCalm ==
    ASSUME SpentTypes, Calm', NEW g \in Connections
    PROVE  ~LinkLost(g)
BY DEF LinkLost, Spend, Calm, SpentTypes, Budgets

LEMMA ThreadCalm ==
    ASSUME AllTypes, Undisturbed, Calm',
           StartRuns \/ CloseRuns \/ UserConnects \/ UserDisconnects
    PROVE  Undisturbed'
<1> USE DEF AllTypes
<1>1. CASE StartRuns
  <2>1. \A p \in Openers : pc'[p] \in {pc[p], "asleep", "stranded"}
    BY <1>1 DEF StartRuns, NewLoopPc
  <2>2. \A p \in Openers : Pending(p)' => Pending(p) /\ sentOn'[p] = sentOn[p]
    BY <1>1, <2>1 DEF StartRuns, Pending
  <2>3. user' \in {"idle", "connecting"}
    BY <1>1 DEF StartRuns, NewLoop, Undisturbed
  <2>4. NoClose(submitted')
    BY <1>1, NoCloseStays DEF StartRuns, Undisturbed
  <2> QED BY <1>1, <2>2, <2>3, <2>4, CalmStays DEF StartRuns
<1>2. ~CloseRuns
  BY NoCloseStays DEF CloseRuns, Undisturbed
<1>3. CASE UserConnects
  <2>1. NoClose(submitted') /\ user' \in {"idle", "connecting"}
    BY <1>3, NoCloseStays DEF UserConnects, Undisturbed
  <2>2. UNCHANGED <<connection, readers, frozen, tasks>>
    BY <1>3 DEF UserConnects
  <2> QED BY <2>1, <2>2, CalmStays DEF tasks, Pending
<1>4. ~UserDisconnects
  <2>1. ~Spend("disconnect")
    BY DEF Spend, Calm, SpentTypes, Budgets
  <2> QED BY <2>1 DEF UserDisconnects, Undisturbed
<1> QED BY <1>1, <1>2, <1>3, <1>4

CalmInv == Calm => Undisturbed

LEMMA CalmInit == Init => DropInv /\ CalmInv
<1> SUFFICES ASSUME Init
             PROVE  DropInv /\ Undisturbed
  BY DEF CalmInv
<1>1. Dropped = {} /\ Finished = {}
  BY DEF Init, Dropped, Finished
<1>2. DropInv
  BY <1>1, FS_EmptySet DEF Init, DropInv
<1>3. Undisturbed
  BY DEF Init, Undisturbed, GoesOn, NoClose, Pending, Connections
<1> QED BY <1>2, <1>3

LEMMA CalmNext ==
    ASSUME OpenInv, DropInv, CalmInv, [Next]_vars
    PROVE  CalmInv'
<1>1. AllTypes /\ OpensNeeded /\ SpentTypes
  BY TypeParts DEF AllTypes, OpenInv
<1>2. CASE Next
  <2> SUFFICES ASSUME Calm'
               PROVE  Undisturbed'
    BY DEF CalmInv
  <2>1. Undisturbed
    BY <1>1, <1>2, CalmBefore DEF CalmInv
  <2> QED BY <1>1, <1>2, <2>1, OpenerCalm, LoopCalm, CallCalm, ReaderCalm, NetworkCalm, ThreadCalm,
             Zenon DEF Next
<1>3. CASE UNCHANGED vars
  BY <1>3, CalmStays DEF vars, tasks, thread, Calm, CalmInv, Undisturbed, Pending
<1> QED BY <1>2, <1>3

\* Whatever callbacks suspend: only the late "finally" of a reader takes a working
\* connection away from the client, one for each reader that has ended, and a client
\* whose connection was neither lost nor closed keeps the one it opened, with its reader.
THEOREM HarmBoundedCorrect == Spec => []HarmBounded
<1>1. ASSUME OpenInv, DropInv, CalmInv
      PROVE  HarmBounded
  <2>1. Cardinality(Dropped) <= Cardinality({g \in Connections : readerPc[g] = "done"})
    BY <1>1 DEF DropInv, Finished
  <2>2. ASSUME spent["loss"] + spent["disconnect"] = 0
        PROVE  Undisturbed
    <3>1. spent["loss"] \in Nat /\ spent["disconnect"] \in Nat
      BY <1>1 DEF OpenInv, TypeOK, Budgets
    <3> QED BY <1>1, <2>2, <3>1 DEF Calm, CalmInv
  <2>3. ASSUME Undisturbed, NEW c \in Calls, pc[c] = "pending"
        PROVE  readerPc[sentOn[c]] \in {"created", "reading", "dispatching"}
    <3>1. Pending(c) /\ c \in Openers
      BY <2>3 DEF Pending, Openers
    <3>2. current \in 0..opened /\ (current # 0 => current \in Connections)
      BY <1>1, CurrentConnection DEF OpenInv, TypeOK, ConnectionTypes
    <3> QED BY <2>3, <3>1, <3>2 DEF Undisturbed, GoesOn
  <2> QED BY <2>1, <2>2, <2>3 DEF HarmBounded, Undisturbed
<1> QED BY <1>1, OpenInit, OpenNext, CalmInit, CalmNext, DropNext, PTL DEF Spec
=============================================================================
