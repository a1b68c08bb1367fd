------------------------ MODULE CuratorFrameworkProofs ------------------------
(***************************************************************************)
(* While the framework is not closed, a background sync finds a connection *)
(* in the handle holder, and once it is closed and at rest none is opened  *)
(* again; an unresolved suspension is being checked; and a connection that *)
(* is down is not announced once the framework has seen the events. All    *)
(* for any number of BlockUntilConnectedOrTimedOut calls and without       *)
(* bounds on the events and the resets.                                    *)
(***************************************************************************)
EXTENDS CuratorFramework, TLAPS

\* Of the events of a step, at most one, process starts goroutines.
LEMMA ProcessType ==
  ASSUME NEW E \in SUBSET Event, NEW todo \in SUBSET Event,
         callbacks \subseteq Callback, disordered \in BOOLEAN,
         Process(E, todo)
  PROVE  checks' \subseteq Event /\ callbacks' \subseteq Callback /\ disordered' \in BOOLEAN
<1>1. \A e \in E : [event |-> e, pc |-> "process"] \in Callback
  BY DEF Callback
<1>2. checks' \subseteq Event
  BY DEF Process
<1>3. PICK missed \in MayMiss :
        /\ callbacks' = IF missed THEN callbacks
                        ELSE callbacks \cup {[event |-> e, pc |-> "process"] : e \in E}
        /\ disordered' = (disordered \/ (missed /\ E # {}))
  BY DEF Process
<1>4. callbacks' \subseteq Callback
  BY <1>1, <1>3
<1>5. disordered' \in BOOLEAN
  BY <1>3
<1> QED BY <1>2, <1>4, <1>5

\* An event of the session.
LEMMA SessionEventType ==
  ASSUME NEW s \in States, NEW todo \in SUBSET Event, TypeOK, SessionEvent(s, todo)
  PROVE  /\ epoch' \in Nat
         /\ checks' \subseteq Event /\ callbacks' \subseteq Callback /\ disordered' \in BOOLEAN
<1>1. epoch' \in Nat
  BY DEF SessionEvent, TypeOK
<1>2. {[state |-> s, epoch |-> epoch']} \in SUBSET Event
  BY <1>1 DEF Event
<1> QED BY <1>1, <1>2, ProcessType DEF SessionEvent, TypeOK

\* reset and Close, where they close a connection.
LEMMA CloseConnectionType ==
  ASSUME NEW todo \in SUBSET Event, TypeOK, CloseConnection(todo)
  PROVE  /\ epoch' \in Nat
         /\ checks' \subseteq Event /\ callbacks' \subseteq Callback /\ disordered' \in BOOLEAN
<1>1. CASE SessionEvent("StateDisconnected", todo)
  BY <1>1, SessionEventType DEF States
<1>2. CASE checks' = todo /\ UNCHANGED <<epoch, callbacks, disordered>>
  BY <1>2 DEF TypeOK
<1> QED BY <1>1, <1>2 DEF CloseConnection

\* A step of the library keeps the types.
LEMMA LibraryType ==
  ASSUME TypeOK, LinkUp \/ LinkReadOnly \/ LinkDown \/ LinkExpires \/ NodeEvent
  PROVE  TypeOK'
<1>1. ASSUME NEW from, NEW to \in Links, NEW s \in States, SessionChange(from, to, s)
      PROVE  TypeOK'
  <2>1. SessionEvent(s, checks) /\ checks \in SUBSET Event
    BY <1>1 DEF SessionChange, TypeOK
  <2>2. /\ epoch' \in Nat
        /\ checks' \subseteq Event /\ callbacks' \subseteq Callback /\ disordered' \in BOOLEAN
    BY <2>1, SessionEventType
  <2> QED BY <1>1, <2>2 DEF SessionChange, TypeOK, managerVars
<1>2. CASE NodeEvent
  <2>1. {[state |-> "StateSyncConnected", epoch |-> epoch]} \in SUBSET Event
    BY DEF TypeOK, Event, States
  <2>2. checks' \subseteq Event /\ callbacks' \subseteq Callback /\ disordered' \in BOOLEAN
    BY <1>2, <2>1, ProcessType DEF NodeEvent, TypeOK
  <2> QED BY <1>2, <2>2 DEF NodeEvent, TypeOK, managerVars, clientVars
<1> QED BY <1>1, <1>2 DEF LinkUp, LinkReadOnly, LinkDown, LinkExpires, Links, States

\* What a reset by the goroutine of an event, a sync or Start changes.
LEMMA ResetType ==
  ASSUME NEW todo \in SUBSET Event, TypeOK, Reset(todo)
  PROVE  /\ instanceIndex' \in Nat /\ isConnected' \in BOOLEAN /\ link' \in Links
         /\ epoch' \in Nat
         /\ checks' \subseteq Event /\ callbacks' \subseteq Callback /\ disordered' \in BOOLEAN
<1>1. CloseConnection(todo)
  BY DEF Reset
<1>2. instanceIndex' \in Nat
  BY DEF Reset, TypeOK
<1>3. isConnected' \in BOOLEAN /\ link' \in Links
  BY Zenon DEF Reset, Links
<1> QED BY <1>1, <1>2, <1>3, CloseConnectionType

\* The goroutines of an event keep the types.
LEMMA EventType ==
  ASSUME TypeOK, CheckStep \/ (\E c \in callbacks : CallbackStep(c))
  PROVE  TypeOK'
<1>1. ASSUME NEW e \in checks, CheckState(e) PROVE TypeOK'
  <2>1. checks \ {e} \in SUBSET Event
    BY DEF TypeOK
  <2>2. CASE Reset(checks \ {e})
    BY <1>1, <2>1, <2>2, ResetType DEF CheckState, TypeOK, managerVars
  <2>3. CASE ~Reset(checks \ {e})
    <3>1. /\ isConnected' = (e.state = "StateHasSession") /\ checks' = checks \ {e}
          /\ UNCHANGED <<state, managerVars, started, instanceIndex, link, epoch, callbacks,
                         disordered, syncs, starter, blocker, panicked, synced>>
      BY Zenon, <1>1, <2>3 DEF CheckState
    <3>2. isConnected' \in BOOLEAN
      BY <3>1
    <3> QED BY <2>1, <3>1, <3>2 DEF TypeOK, managerVars
  <2> QED BY <2>2, <2>3
<1>2. ASSUME NEW c \in callbacks, Validate(c) PROVE TypeOK'
  <2>1. currentConnectionState' \in ConnectionState /\ managing' = managing
    BY <1>2 DEF Validate, AddStateChange, TypeOK, ConnectionState, managerVars
  <2>2. callbacks' \subseteq Callback
    BY <1>2 DEF Validate, TypeOK, Callback
  <2>3. synced' \in BOOLEAN /\ disordered' \in BOOLEAN
    BY Zenon, <1>2 DEF Validate, TypeOK
  <2> QED BY <1>2, <2>1, <2>2, <2>3 DEF Validate, TypeOK, clientVars
<1>3. ASSUME NEW c \in callbacks, StartSync(c) PROVE TypeOK'
  <2>1. c.event.epoch \in Nat
    BY DEF TypeOK, Callback, Event
  <2>2. syncs' \subseteq Sync
    BY <1>3, <2>1 DEF StartSync, TypeOK, Sync
  <2> QED BY <1>3, <2>2 DEF StartSync, TypeOK, managerVars, clientVars
<1> QED BY <1>1, <1>2, <1>3 DEF CheckStep, CallbackStep

\* What a sync becomes: at its next step, at its second attempt, and with the
\* connection and the epoch of its call.
LEMMA SyncRecord ==
  ASSUME NEW s \in Sync
  PROVE  /\ \A pc \in {"conn", "timeout", "get", "sync", "index", "lost"} :
              [s EXCEPT !.pc = pc] \in Sync
         /\ [s EXCEPT !.pc = "conn", !.instanceIndex = -1] \in Sync
         /\ \A pc \in {"sync", "index"}, conn \in Nat, began \in Nat :
              [s EXCEPT !.pc = pc, !.conn = conn, !.began = began] \in Sync
<1>1. \A pc \in {"conn", "timeout", "get", "sync", "index", "lost"} :
        [s EXCEPT !.pc = pc] \in Sync
  BY DEF Sync
<1>2. [s EXCEPT !.pc = "conn", !.instanceIndex = -1] \in Sync
  <2>1. \A i \in Int : [s EXCEPT !.pc = "conn", !.instanceIndex = i] \in Sync
    BY Zenon DEF Sync
  <2>2. -1 \in Int
    OBVIOUS
  <2> QED BY Zenon, <2>1, <2>2
<1>3. ASSUME NEW pc \in {"sync", "index"}, NEW conn \in Nat, NEW began \in Nat
      PROVE  [s EXCEPT !.pc = pc, !.conn = conn, !.began = began] \in Sync
  <2>1. [s EXCEPT !.pc = pc] \in Sync
    BY <1>1
  <2>2. [[s EXCEPT !.pc = pc] EXCEPT !.conn = conn] \in Sync
    BY Zenon, <2>1 DEF Sync
  <2> QED BY Zenon, <2>2 DEF Sync
<1> QED BY Zenon, <1>1, <1>2, <1>3

\* The background syncs keep the types.
LEMMA SyncType ==
  ASSUME TypeOK, SyncStep
  PROVE  TypeOK'
<1> SUFFICES ASSUME NEW s \in syncs,
                    \/ SyncConn(s) \/ SyncTimeout(s) \/ SyncGet(s)
                    \/ SyncCall(s) \/ SyncIndex(s) \/ SyncLost(s)
             PROVE  TypeOK'
  BY DEF SyncStep
<1> USE DEF managerVars, clientVars, eventVars
<1>0. s \in Sync
  BY DEF TypeOK
<1>1. ASSUME NEW pc \in {"conn", "timeout", "get", "sync", "index", "lost"}, SyncGoto(s, pc)
      PROVE  syncs' \subseteq Sync
  BY Zenon, <1>0, <1>1, SyncRecord DEF SyncGoto, TypeOK
<1>2. CASE SyncConn(s)
  <2>1. syncs' \subseteq Sync
    BY <1>1, <1>2 DEF SyncConn
  <2> QED BY <1>2, <2>1 DEF SyncConn, TypeOK
<1>3. CASE SyncTimeout(s)
  <2>1. syncs' \subseteq Sync
    BY <1>1, <1>3 DEF SyncTimeout
  <2>2. CASE Reset(checks)
    <3>1. checks \in SUBSET Event
      BY DEF TypeOK
    <3> QED BY <1>3, <2>1, <2>2, <3>1, ResetType DEF SyncTimeout, TypeOK
  <2>3. CASE ~Reset(checks)
    BY <1>3, <2>1, <2>3 DEF SyncTimeout, TypeOK
  <2> QED BY <2>2, <2>3
<1>4. CASE SyncGet(s)
  <2>1. syncs' \subseteq Sync /\ panicked' \in BOOLEAN
    <3>1. [s EXCEPT !.pc = "sync", !.conn = instanceIndex, !.began = epoch] \in Sync
      BY Zenon, <1>0, SyncRecord DEF TypeOK
    <3>2. syncs' \subseteq Sync
      BY <1>4, <3>1 DEF SyncGet, TypeOK
    <3>3. panicked' \in BOOLEAN
      BY Zenon, <1>4 DEF SyncGet, TypeOK
    <3> QED BY <3>2, <3>3
  <2> QED BY <1>4, <2>1 DEF SyncGet, TypeOK
<1>5. CASE SyncCall(s)
  <2>1. syncs' \subseteq Sync /\ synced' \in BOOLEAN
    <3>1. [s EXCEPT !.pc = "index", !.conn = 0, !.began = 0] \in Sync
      BY Zenon, <1>0, SyncRecord
    <3>2. syncs' \subseteq Sync
      BY <1>5, <3>1 DEF SyncCall, TypeOK
    <3>3. synced' \in BOOLEAN
      BY Zenon, <1>5 DEF SyncCall, TypeOK
    <3> QED BY <3>2, <3>3
  <2> QED BY <1>5, <2>1 DEF SyncCall, TypeOK
<1>6. CASE SyncIndex(s)
  <2>1. syncs' \subseteq Sync
    <3>1. [s EXCEPT !.pc = "conn", !.instanceIndex = -1] \in Sync
      BY Zenon, <1>0, SyncRecord
    <3> QED BY <1>1, <1>6, <3>1 DEF SyncIndex, TypeOK
  <2> QED BY <1>6, <2>1 DEF SyncIndex, TypeOK
<1>7. CASE SyncLost(s)
  <2>1. currentConnectionState' \in ConnectionState /\ managing' = managing
    BY <1>7 DEF SyncLost, AddStateChange, TypeOK, ConnectionState
  <2> QED BY <1>7, <2>1 DEF SyncLost, TypeOK
<1> QED BY <1>2, <1>3, <1>4, <1>5, <1>6, <1>7

\* The calls keep the types.
LEMMA CallType ==
  ASSUME TypeOK,
         \/ Start \/ StartManager \/ StartClient \/ Close
         \/ \E b \in Blockers : Block(b) \/ BlockReturn(b)
  PROVE  TypeOK'
<1> USE DEF managerVars, clientVars, eventVars
<1>0. checks \in SUBSET Event
  BY DEF TypeOK
<1>1. CASE Start \/ StartManager
  BY <1>1 DEF Start, StartManager, TypeOK
<1>2. CASE StartClient
  <2>1. CASE Reset(checks)
    BY <1>0, <1>2, <2>1, ResetType DEF StartClient, TypeOK
  <2>2. CASE ~Reset(checks)
    BY <1>2, <2>2 DEF StartClient, TypeOK
  <2> QED BY <2>1, <2>2
<1>3. CASE Close
  <2>1. CloseConnection(checks)
    BY <1>3 DEF Close
  <2> QED BY Zenon, <1>0, <1>3, <2>1, CloseConnectionType DEF Close, TypeOK, Links
<1>4. ASSUME NEW b \in Blockers, Block(b) \/ BlockReturn(b) PROVE TypeOK'
  BY <1>4 DEF Block, BlockReturn, TypeOK
<1> QED BY <1>1, <1>2, <1>3, <1>4

\* The types: what the goroutines carry from one step to the next is what the
\* events, connections and syncs of framework.go and state.go are made of.
THEOREM TypeCorrect == Spec => []TypeOK
<1>1. Init => TypeOK
  <2> SUFFICES ASSUME Init PROVE TypeOK
    OBVIOUS
  <2>1. checks \subseteq Event /\ callbacks \subseteq Callback /\ syncs \subseteq Sync
    BY DEF Init
  <2>2. blocker \in [Blockers -> {"idle", "wait", "returned"}]
    BY DEF Init
  <2>3. /\ started \in BOOLEAN /\ isConnected \in BOOLEAN /\ panicked \in BOOLEAN
        /\ disordered \in BOOLEAN /\ synced \in BOOLEAN
    BY Zenon DEF Init
  <2> QED BY <2>1, <2>2, <2>3 DEF Init, TypeOK, Links, ConnectionState
<1>2. TypeOK /\ [Next]_vars => TypeOK'
  <2> SUFFICES ASSUME TypeOK, [Next]_vars PROVE TypeOK'
    OBVIOUS
  <2>1. CASE UNCHANGED vars
    BY <2>1 DEF vars, managerVars, clientVars, eventVars, TypeOK
  <2>2. CASE Next
    BY <2>2, LibraryType, EventType, SyncType, CallType DEF Next
  <2> QED BY <2>1, <2>2
<1> QED BY <1>1, <1>2, PTL DEF Spec

\* Whatever can lead to a background sync came from a connection, and only Close
\* takes the last one away.
ConnectionBehind ==
  state # "STOPPED" /\ link = "nil" => syncs = {} /\ callbacks = {} /\ ~panicked

\* Before Start nothing goes on.
LEMMA Initially == Init => ConnectionBehind
BY DEF Init, ConnectionBehind

\* The session of a connection changes, and the connection stays.
LEMMA LibraryKeeps ==
  ASSUME ConnectionBehind,
         LinkUp \/ LinkReadOnly \/ LinkDown \/ LinkExpires \/ NodeEvent
  PROVE  ConnectionBehind'
<1>1. CASE LinkUp
  BY <1>1 DEF LinkUp, SessionChange, ConnectionBehind
<1>2. CASE LinkReadOnly
  BY <1>2 DEF LinkReadOnly, SessionChange, ConnectionBehind
<1>3. CASE LinkDown
  BY <1>3 DEF LinkDown, SessionChange, ConnectionBehind
<1>4. CASE LinkExpires
  BY <1>4 DEF LinkExpires, SessionChange, ConnectionBehind
<1>5. CASE NodeEvent
  BY <1>5 DEF NodeEvent, clientVars, ConnectionBehind
<1> QED BY <1>1, <1>2, <1>3, <1>4, <1>5

\* No step of the goroutines that an event starts takes the connection away.
LEMMA GoroutinesKeep ==
  ASSUME ConnectionBehind,
         CheckStep \/ SyncStep \/ (\E c \in callbacks : CallbackStep(c))
  PROVE  ConnectionBehind'
<1>1. ASSUME NEW e \in checks, CheckState(e) PROVE ConnectionBehind'
  BY <1>1 DEF CheckState, Reset, ConnectionBehind
<1>2. ASSUME NEW c \in callbacks, CallbackStep(c) PROVE ConnectionBehind'
  BY <1>2 DEF CallbackStep, Validate, StartSync, clientVars, ConnectionBehind
<1>3. ASSUME NEW s \in syncs,
             \/ SyncConn(s) \/ SyncTimeout(s) \/ SyncGet(s)
             \/ SyncCall(s) \/ SyncIndex(s) \/ SyncLost(s)
      PROVE  ConnectionBehind'
  <2>1. CASE SyncTimeout(s)
    BY <2>1 DEF SyncTimeout, Reset, ConnectionBehind
  <2>2. CASE SyncGet(s)
    BY <2>2 DEF SyncGet, clientVars, ConnectionBehind
  <2>3. CASE SyncConn(s) \/ SyncCall(s) \/ SyncIndex(s) \/ SyncLost(s)
    BY <2>3 DEF SyncConn, SyncCall, SyncIndex, SyncLost, clientVars, ConnectionBehind
  <2> QED BY <1>3, <2>1, <2>2, <2>3
<1> QED BY <1>1, <1>2, <1>3 DEF CheckStep, SyncStep

\* Start finds nothing going on, and after Close there is nothing to show.
LEMMA CallsKeep ==
  ASSUME ConnectionBehind,
         \/ Start \/ StartManager \/ StartClient \/ Close
         \/ \E b \in Blockers : Block(b) \/ BlockReturn(b)
  PROVE  ConnectionBehind'
<1>1. CASE Start
  BY <1>1 DEF Start, clientVars, eventVars, ConnectionBehind
<1>2. CASE StartManager
  BY <1>2 DEF StartManager, clientVars, eventVars, ConnectionBehind
<1>3. CASE StartClient
  BY <1>3 DEF StartClient, Reset, eventVars, ConnectionBehind
<1>4. CASE Close
  BY <1>4 DEF Close, ConnectionBehind
<1>5. CASE \E b \in Blockers : Block(b) \/ BlockReturn(b)
  BY <1>5 DEF Block, BlockReturn, clientVars, eventVars, ConnectionBehind
<1> QED BY <1>1, <1>2, <1>3, <1>4, <1>5

\* The invariant is inductive.
LEMMA Preserved == ConnectionBehind /\ [Next]_vars => ConnectionBehind'
<1> SUFFICES ASSUME ConnectionBehind, [Next]_vars
             PROVE  ConnectionBehind'
  OBVIOUS
<1>1. CASE UNCHANGED vars
  BY <1>1 DEF vars, clientVars, eventVars, ConnectionBehind
<1>2. CASE Next
  BY <1>2, LibraryKeeps, GoroutinesKeep, CallsKeep DEF Next
<1> QED BY <1>1, <1>2

\* Where a sync may end the program the framework is closed: it panics on a helper
\* that is nil, and a sync that runs means that there was a connection.
LEMMA PanicAfterClose ==
  ConnectionBehind /\ NoPanicWhileOpen /\ [Next]_vars => NoPanicWhileOpen'
<1> SUFFICES ASSUME ConnectionBehind, NoPanicWhileOpen, [Next]_vars
             PROVE  NoPanicWhileOpen'
  OBVIOUS
<1> USE DEF NoPanicWhileOpen
<1>1. CASE UNCHANGED vars
  BY <1>1 DEF vars
<1>2. ASSUME NEW s \in syncs, SyncGet(s) PROVE NoPanicWhileOpen'
  BY Zenon, <1>2 DEF SyncGet, ConnectionBehind
<1>3. CASE ~panicked /\ panicked' = panicked
  BY <1>3
<1>4. CASE Next
  <2>1. ~panicked
    BY <1>4 DEF Next
  <2>2. (\E s \in syncs : SyncGet(s)) \/ panicked' = panicked
    <3>1. CASE LinkUp \/ LinkReadOnly \/ LinkDown \/ LinkExpires \/ NodeEvent
      BY <3>1 DEF LinkUp, LinkReadOnly, LinkDown, LinkExpires, NodeEvent, SessionChange
    <3>2. CASE CheckStep \/ \E c \in callbacks : CallbackStep(c)
      BY Zenon, <3>2 DEF CheckStep, CheckState, CallbackStep, Validate, StartSync
    <3>3. CASE SyncStep
      BY <3>3 DEF SyncStep, SyncConn, SyncTimeout, SyncCall, SyncIndex, SyncLost
    <3>4. CASE Start \/ StartManager \/ StartClient \/ Close
      BY <3>4 DEF Start, StartManager, StartClient, Close
    <3>5. CASE \E b \in Blockers : Block(b) \/ BlockReturn(b)
      BY <3>5 DEF Block, BlockReturn
    <3> QED BY <1>4, <3>1, <3>2, <3>3, <3>4, <3>5 DEF Next
  <2> QED BY Zenon, <1>2, <1>3, <2>1, <2>2
<1> QED BY <1>1, <1>4

\* A background sync of a framework that is not closed never calls Sync on a
\* connection that is not there (framework.go, doSyncForSuspendedConnection).
THEOREM SyncHasConnection == Spec => []NoPanicWhileOpen
<1>1. Init => NoPanicWhileOpen
  BY DEF Init, NoPanicWhileOpen
<1> QED BY <1>1, Initially, Preserved, PanicAfterClose, PTL DEF Spec

\* Events of the library: a holder without a helper has none to report.
LEMMA ClosedLibrary ==
  ASSUME Closed,
         LinkUp \/ LinkReadOnly \/ LinkDown \/ LinkExpires \/ NodeEvent
  PROVE  FALSE
<1>1. link = "nil" /\ state = "STOPPED"
  BY DEF Closed
<1> QED BY <1>1 DEF LinkUp, LinkReadOnly, LinkDown, LinkExpires, NodeEvent, SessionChange

\* What is left of the events and of the syncs opens no connection.
LEMMA ClosedGoroutines ==
  ASSUME TypeOK, Closed,
         CheckStep \/ SyncStep \/ (\E c \in callbacks : CallbackStep(c))
  PROVE  Closed'
<1> USE DEF Closed
<1>1. ASSUME NEW e \in checks, CheckState(e) PROVE Closed'
  BY <1>1 DEF CheckState
<1>2. ASSUME NEW c \in callbacks, Validate(c) PROVE Closed'
  BY <1>2 DEF Validate, clientVars
<1>3. ASSUME NEW c \in callbacks, StartSync(c) PROVE Closed'
  BY <1>3 DEF StartSync, clientVars
<1>4. ASSUME NEW s \in syncs,
             \/ SyncConn(s) \/ SyncTimeout(s) \/ SyncGet(s)
             \/ SyncCall(s) \/ SyncIndex(s) \/ SyncLost(s)
      PROVE  Closed'
  <2>0. s \in Sync
    BY DEF TypeOK
  <2> USE <2>0 DEF Sync
  <2>1. CASE SyncConn(s)
    BY <2>1 DEF SyncConn, SyncGoto, clientVars, eventVars
  <2>2. CASE SyncTimeout(s)
    BY <2>2 DEF SyncTimeout
  <2>3. CASE SyncGet(s)
    BY <2>3 DEF SyncGet, clientVars, eventVars
  <2>4. CASE SyncCall(s)
    BY Zenon, <2>4 DEF SyncCall, clientVars, eventVars
  <2>5. CASE SyncIndex(s)
    BY Zenon, <2>5 DEF SyncIndex, SyncGoto, clientVars, eventVars
  <2>6. CASE SyncLost(s)
    BY <2>6 DEF SyncLost, clientVars, eventVars
  <2> QED BY <1>4, <2>1, <2>2, <2>3, <2>4, <2>5, <2>6
<1> QED BY <1>1, <1>2, <1>3, <1>4 DEF CheckStep, SyncStep, CallbackStep

\* Nor does a call: Start and Close are over.
LEMMA ClosedCalls ==
  ASSUME Closed,
         \/ Start \/ StartManager \/ StartClient \/ Close
         \/ \E b \in Blockers : Block(b) \/ BlockReturn(b)
  PROVE  Closed'
<1>1. ~(Start \/ StartManager \/ StartClient \/ Close)
  BY DEF Closed, Start, StartManager, StartClient, Close
<1>2. CASE \E b \in Blockers : Block(b) \/ BlockReturn(b)
  BY <1>2 DEF Closed, Block, BlockReturn, clientVars, eventVars
<1> QED BY <1>1, <1>2

\* A framework that is closed and has nothing under way never again opens a
\* connection (client.go, Conn).
THEOREM CloseIsFinal == Spec => ClosedForGood
<1>1. ASSUME TypeOK, Closed, [Next]_vars PROVE Closed'
  <2>1. CASE UNCHANGED vars
    BY <1>1, <2>1 DEF vars, clientVars, eventVars, Closed
  <2>2. CASE Next
    BY <1>1, <2>2, ClosedLibrary, ClosedGoroutines, ClosedCalls DEF Next
  <2> QED BY <1>1, <2>1, <2>2
<1>2. TypeOK /\ [Next]_vars => [Closed => Closed']_vars
  BY <1>1
<1> QED BY <1>2, TypeCorrect, PTL DEF Spec, ClosedForGood

-----------------------------------------------------------------------------
(* What a suspension and a connection that is down wait for                 *)

\* The manager announces nothing before it is started, and only Close stops it.
ManagerInv ==
  /\ managing = "LATENT" => currentConnectionState = UNKNOWN
  /\ managing = "STOPPED" => state = "STOPPED"

\* A suspension that nothing has resolved has a background sync, or the goroutine
\* that is about to start it.
UnderCheck ==
  currentConnectionState = SUSPENDED /\ ~synced /\ state # "STOPPED" =>
    syncs # {} \/ \E c \in callbacks : c.pc = "suspended"

\* The library reports events, and leaves the manager, the syncs and the callbacks
\* that run as they are.
LEMMA LibraryLeaves ==
  ASSUME LinkUp \/ LinkReadOnly \/ LinkDown \/ LinkExpires \/ NodeEvent
  PROVE  /\ UNCHANGED <<state, managing, currentConnectionState, syncs, synced>>
         /\ callbacks \subseteq callbacks'
<1>1. ASSUME NEW E, NEW todo, Process(E, todo) PROVE callbacks \subseteq callbacks'
  BY <1>1 DEF Process
<1>2. ASSUME NEW from, NEW to, NEW s, SessionChange(from, to, s)
      PROVE  /\ UNCHANGED <<state, managing, currentConnectionState, syncs, synced>>
             /\ callbacks \subseteq callbacks'
  BY <1>1, <1>2 DEF SessionChange, SessionEvent, managerVars
<1>3. CASE NodeEvent
  BY <1>1, <1>3 DEF NodeEvent, managerVars
<1> QED BY <1>2, <1>3 DEF LinkUp, LinkReadOnly, LinkDown, LinkExpires

\* Closing a connection stops no callback.
LEMMA ResetLeaves ==
  ASSUME NEW todo, Reset(todo) \/ CloseConnection(todo)
  PROVE  callbacks \subseteq callbacks'
<1>1. CloseConnection(todo)
  BY DEF Reset
<1> QED BY <1>1 DEF CloseConnection, SessionEvent, Process

\* Every step keeps ManagerInv.
LEMMA ManagerKept == TypeOK /\ ManagerInv /\ [Next]_vars => ManagerInv'
<1> SUFFICES ASSUME TypeOK, ManagerInv, [Next]_vars PROVE ManagerInv'
  OBVIOUS
<1> USE DEF ManagerInv, managerVars
<1>1. CASE UNCHANGED vars
  BY <1>1 DEF vars
<1>2. CASE LinkUp \/ LinkReadOnly \/ LinkDown \/ LinkExpires \/ NodeEvent
  BY <1>2, LibraryLeaves
<1>3. CASE CheckStep
  BY <1>3 DEF CheckStep, CheckState
<1>4. ASSUME NEW c \in callbacks, CallbackStep(c) PROVE ManagerInv'
  BY <1>4 DEF CallbackStep, Validate, StartSync, CanSuspend, AddStateChange
<1>5. CASE SyncStep
  BY <1>5 DEF SyncStep, SyncConn, SyncTimeout, SyncGet, SyncCall, SyncIndex, SyncLost,
              AddStateChange
<1>6. CASE Start \/ StartManager \/ StartClient \/ Close
  BY <1>6 DEF Start, StartManager, StartClient, Close, TypeOK
<1>7. CASE \E b \in Blockers : Block(b) \/ BlockReturn(b)
  BY <1>7 DEF Block, BlockReturn
<1> QED BY <1>1, <1>2, <1>3, <1>4, <1>5, <1>6, <1>7 DEF Next

\* A step of a callback or of a sync hands the check of a suspension on, or ends
\* with the connection found or LOST.
LEMMA CheckHandedOn ==
  ASSUME TypeOK, ManagerInv, UnderCheck,
         SyncStep \/ (\E c \in callbacks : CallbackStep(c))
  PROVE  UnderCheck'
<1> USE DEF UnderCheck, managerVars
<1>1. ASSUME NEW c \in callbacks, Validate(c) PROVE UnderCheck'
  <2>0. c \in Callback
    BY DEF TypeOK
  <2>1. CASE /\ callbacks' = (callbacks \ {c}) \cup {[c EXCEPT !.pc = "suspended"]}
    <3>1. [c EXCEPT !.pc = "suspended"].pc = "suspended"
      BY <2>0 DEF Callback
    <3> QED BY <2>1, <3>1
  <2>2. CASE callbacks' = callbacks \ {c} /\ UNCHANGED synced /\ UNCHANGED currentConnectionState
    <3>1. c.pc # "suspended" /\ UNCHANGED <<state, syncs>>
      BY <1>1 DEF Validate
    <3> QED BY <2>2, <3>1
  <2>3. CASE managing = "STARTED" /\ currentConnectionState' \in {LOST, RECONNECTED, READ_ONLY}
    BY <2>3 DEF LOST, RECONNECTED, READ_ONLY, SUSPENDED
  <2>4. \/ callbacks' = (callbacks \ {c}) \cup {[c EXCEPT !.pc = "suspended"]}
        \/ callbacks' = callbacks \ {c} /\ UNCHANGED synced /\ UNCHANGED currentConnectionState
        \/ managing = "STARTED" /\ currentConnectionState' \in {LOST, RECONNECTED, READ_ONLY}
    BY <1>1 DEF Validate, AddStateChange
  <2> QED BY <2>1, <2>2, <2>3, <2>4
<1>2. ASSUME NEW c \in callbacks, StartSync(c) PROVE UnderCheck'
  BY <1>2 DEF StartSync
<1>3. ASSUME NEW s \in syncs,
             SyncConn(s) \/ SyncTimeout(s) \/ SyncGet(s) \/ SyncIndex(s)
      PROVE  UnderCheck'
  BY <1>3 DEF SyncConn, SyncTimeout, SyncGet, SyncIndex, SyncGoto
<1>4. ASSUME NEW s \in syncs, SyncCall(s) PROVE UnderCheck'
  BY <1>4 DEF SyncCall
<1>5. ASSUME NEW s \in syncs, SyncLost(s) PROVE UnderCheck'
  <2>1. currentConnectionState' # SUSPENDED \/ state' = "STOPPED"
    BY <1>5 DEF SyncLost, AddStateChange, ManagerInv, TypeOK, LOST, SUSPENDED, UNKNOWN
  <2> QED BY <2>1
<1> QED BY <1>1, <1>2, <1>3, <1>4, <1>5 DEF CallbackStep, SyncStep

\* No step leaves a suspension behind that nobody checks.
LEMMA StaysUnderCheck == TypeOK /\ ManagerInv /\ UnderCheck /\ [Next]_vars => UnderCheck'
<1> SUFFICES ASSUME TypeOK, ManagerInv, UnderCheck, [Next]_vars PROVE UnderCheck'
  OBVIOUS
<1> USE DEF managerVars, clientVars, eventVars
<1>0. ASSUME UNCHANGED <<currentConnectionState, synced, syncs>>, callbacks \subseteq callbacks',
             state' = state \/ state' = "STOPPED" \/ state = "LATENT"
      PROVE  UnderCheck'
  BY <1>0 DEF UnderCheck, TypeOK
<1>1. CASE UNCHANGED vars
  BY <1>0, <1>1 DEF vars
<1>2. CASE LinkUp \/ LinkReadOnly \/ LinkDown \/ LinkExpires \/ NodeEvent
  BY <1>0, <1>2, LibraryLeaves
<1>3. ASSUME NEW e \in checks, CheckState(e) PROVE UnderCheck'
  <2>1. callbacks \subseteq callbacks'
    BY <1>3, ResetLeaves DEF CheckState
  <2> QED BY <1>0, <1>3, <2>1 DEF CheckState
<1>4. CASE SyncStep \/ \E c \in callbacks : CallbackStep(c)
  BY <1>4, CheckHandedOn
<1>5. CASE Start \/ StartManager
  BY <1>0, <1>5 DEF Start, StartManager
<1>6. CASE StartClient
  <2>1. callbacks \subseteq callbacks'
    BY <1>6, ResetLeaves DEF StartClient
  <2> QED BY <1>0, <1>6, <2>1 DEF StartClient
<1>7. CASE Close
  <2>1. callbacks \subseteq callbacks'
    BY <1>7, ResetLeaves DEF Close
  <2> QED BY <1>0, <1>7, <2>1 DEF Close
<1>8. CASE \E b \in Blockers : Block(b) \/ BlockReturn(b)
  BY <1>0, <1>8 DEF Block, BlockReturn
<1> QED BY <1>1, <1>2, <1>3, <1>4, <1>5, <1>6, <1>7, <1>8 DEF Next, CheckStep

\* While the framework is open, a suspension that no sync has found to be over is
\* being checked: SetToSuspended succeeds only for a goroutine that goes on to
\* start doSyncForSuspendedConnection, and that returns only with a sync that
\* worked or after it has announced LOST (framework.go, suspendConnection).  With
\* the fairness of the goroutines this is SuspensionIsChecked.
THEOREM SuspensionUnderCheck == Spec => []UnderCheck
<1>1. Init => ManagerInv /\ UnderCheck
  BY DEF Init, ManagerInv, UnderCheck, UNKNOWN, SUSPENDED
<1> QED BY <1>1, TypeCorrect, ManagerKept, StaysUnderCheck, PTL DEF Spec

\* The events whose validation announces a connection.
Announcing == {"StateSyncConnected", "StateConnectedReadOnly"}

\* What is announced is no connection.
Quiet == currentConnectionState \in {UNKNOWN, SUSPENDED, LOST}

\* Event e will suspend the connection, and nothing that the framework validates
\* after it announces one.
WillSuspend(e) ==
  /\ e.state = "StateDisconnected"
  /\ \A d \in ToValidate : d.epoch >= e.epoch => d.state \notin Announcing

\* A connection that is down is announced as down and stays so, or its
\* StateDisconnected is on its way.
DownInv ==
  state # "STOPPED" /\ ~disordered /\ link \notin Alive =>
    \/ \E e \in ToValidate : WillSuspend(e)
    \/ Quiet /\ \A d \in ToValidate : d.state \notin Announcing

\* No event is from the future.
EpochInv == \A c \in callbacks : c.event.epoch <= epoch

\* ToValidate, by its members.
LEMMA ToValidateMembers ==
  \A e : e \in ToValidate <=> \E c \in callbacks : c.pc = "process" /\ c.event = e
BY DEF ToValidate

\* Process adds the event to those that the framework has to validate, or leaves a
\* trace in disordered.
LEMMA ProcessAdds ==
  ASSUME NEW e, NEW todo, Process({e}, todo)
  PROVE  /\ callbacks' \subseteq callbacks \cup {[event |-> e, pc |-> "process"]}
         /\ ~disordered' => ~disordered /\ ToValidate' = ToValidate \cup {e}
<1>1. PICK missed \in MayMiss :
        /\ callbacks' = IF missed THEN callbacks
                        ELSE callbacks \cup {[event |-> d, pc |-> "process"] : d \in {e}}
        /\ disordered' = (disordered \/ (missed /\ {e} # {}))
  BY DEF Process
<1>2. CASE missed
  BY <1>1, <1>2
<1>3. CASE ~missed
  <2>1. callbacks' = callbacks \cup {[event |-> e, pc |-> "process"]}
    BY <1>1, <1>3
  <2>2. ~disordered' => ~disordered
    BY <1>1, <1>3
  <2>3. ToValidate' = ToValidate \cup {e}
    <3>1. \A d : d \in ToValidate' <=> \E c \in callbacks' : c.pc = "process" /\ c.event = d
      BY DEF ToValidate
    <3>2. \A c \in callbacks' : c \in callbacks \/ (c.pc = "process" /\ c.event = e)
      BY <2>1
    <3>3. \E c \in callbacks' : c.pc = "process" /\ c.event = e
      <4>1. [event |-> e, pc |-> "process"] \in callbacks'
        BY <2>1
      <4> WITNESS [event |-> e, pc |-> "process"] \in callbacks'
      <4> QED OBVIOUS
    <3>4. \A d : d \in ToValidate' <=> (d \in ToValidate \/ d = e)
      BY Zenon, <2>1, <3>1, <3>2, <3>3, ToValidateMembers
    <3> QED BY <3>4
  <2> QED BY <2>1, <2>2, <2>3
<1> QED BY <1>2, <1>3

\* A connection that goes down brings its StateDisconnected with it, later than all
\* that is on its way.
LEMMA Disconnects ==
  ASSUME TypeOK, EpochInv, NEW todo, SessionEvent("StateDisconnected", todo)
  PROVE  DownInv'
<1>0. PICK e : e = [state |-> "StateDisconnected", epoch |-> epoch']
  OBVIOUS
<1>1. Process({e}, todo) /\ epoch' = epoch + 1 /\ epoch \in Nat
  BY <1>0 DEF SessionEvent, TypeOK
<1>2. CASE disordered'
  BY <1>2 DEF DownInv
<1>3. CASE ToValidate' = ToValidate \cup {e}
  <2>1. \A d \in ToValidate : d.epoch <= epoch /\ d.epoch \in Nat
    BY ToValidateMembers DEF EpochInv, TypeOK, Callback, Event
  <2>2. \A d \in ToValidate' : d.epoch >= e.epoch => d = e
    BY <1>0, <1>1, <1>3, <2>1
  <2>3. e.state = "StateDisconnected"
    BY <1>0
  <2>4. WillSuspend(e)'
    BY <2>2, <2>3 DEF WillSuspend, Announcing
  <2> QED BY <1>3, <2>4 DEF DownInv
<1>4. ~disordered' => ToValidate' = ToValidate \cup {e}
  BY <1>1, ProcessAdds
<1> QED BY <1>2, <1>3, <1>4

\* An event that announces nothing changes nothing for a connection that is down.
LEMMA OtherEvents ==
  ASSUME TypeOK, DownInv, NEW e, NEW todo, Process({e}, todo),
         e.state \notin Announcing, link \notin Alive,
         state # "STOPPED", UNCHANGED currentConnectionState
  PROVE  DownInv'
<1>1. CASE disordered'
  BY <1>1 DEF DownInv
<1>2. CASE ~disordered /\ ToValidate' = ToValidate \cup {e}
  <2>1. ASSUME NEW d \in ToValidate, WillSuspend(d) PROVE WillSuspend(d)'
    BY <1>2, <2>1 DEF WillSuspend
  <2> QED BY <1>2, <2>1 DEF DownInv, Quiet
<1>3. ~disordered' => ~disordered /\ ToValidate' = ToValidate \cup {e}
  BY ProcessAdds
<1> QED BY <1>1, <1>2, <1>3

\* A step that leaves the events and the announcement alone.
LEMMA DownFrame ==
  ASSUME DownInv,
         UNCHANGED <<callbacks, disordered>>,
         UNCHANGED currentConnectionState \/ Quiet',
         state' \in {state, "STOPPED"} \/ state # "STOPPED",
         link' \in Alive \/ link \notin Alive
  PROVE  DownInv'
<1>1. ToValidate' = ToValidate
  BY DEF ToValidate
<1>2. \A e : WillSuspend(e)' <=> WillSuspend(e)
  BY <1>1 DEF WillSuspend
<1> QED BY <1>1, <1>2 DEF DownInv, Quiet

\* The same for a reset, which takes the place of a connection that may be alive.
LEMMA DownReset ==
  ASSUME TypeOK, EpochInv, DownInv, NEW todo, CloseConnection(todo),
         UNCHANGED <<state, currentConnectionState>>
  PROVE  DownInv'
<1>1. CASE SessionEvent("StateDisconnected", todo)
  BY <1>1, Disconnects
<1>2. CASE link \notin Alive /\ UNCHANGED <<callbacks, disordered>>
  BY <1>2, DownFrame
<1> QED BY <1>1, <1>2 DEF CloseConnection

\* What Validate takes from the events to validate: its own.
LEMMA ValidateTakes ==
  ASSUME TypeOK, NEW c \in callbacks, Validate(c)
  PROVE  /\ c.event \in ToValidate
         /\ ToValidate' \subseteq ToValidate
         /\ \A e \in ToValidate : e \in ToValidate' \/ e = c.event
         /\ \A d \in callbacks' : \E b \in callbacks : d.event = b.event
<1>0. c \in Callback /\ c.pc = "process"
  BY DEF TypeOK, Validate
<1>1. \A e : e \in ToValidate' <=> \E d \in callbacks' : d.pc = "process" /\ d.event = e
  BY DEF ToValidate
<1>2. PICK k : k = [c EXCEPT !.pc = "suspended"]
  OBVIOUS
<1>3. k.pc = "suspended" /\ k.event = c.event
  BY <1>0, <1>2 DEF Callback
<1>4. /\ callbacks' \subseteq (callbacks \ {c}) \cup {k}
      /\ callbacks \ {c} \subseteq callbacks'
  BY <1>2 DEF Validate
<1>5. c.event \in ToValidate
  BY <1>0, ToValidateMembers
<1>6. ToValidate' \subseteq ToValidate
  BY Zenon, <1>1, <1>3, <1>4, ToValidateMembers
<1>7. \A e \in ToValidate : e \in ToValidate' \/ e = c.event
  <2> SUFFICES ASSUME NEW e \in ToValidate, e # c.event PROVE e \in ToValidate'
    OBVIOUS
  <2>1. PICK d \in callbacks : d.pc = "process" /\ d.event = e
    BY ToValidateMembers
  <2>2. d \in callbacks'
    BY <1>4, <2>1
  <2> QED BY <1>1, <2>1, <2>2
<1>8. \A d \in callbacks' : \E b \in callbacks : d.event = b.event
  BY <1>3, <1>4
<1> QED BY <1>5, <1>6, <1>7, <1>8

\* What Validate announces: down for StateDisconnected, and for any other event
\* that does not announce a connection nothing but LOST.
LEMMA ValidateQuiet ==
  ASSUME TypeOK, ManagerInv, NEW c \in callbacks, Validate(c), state # "STOPPED"
  PROVE  /\ c.event.state = "StateDisconnected" => Quiet'
         /\ c.event.state \notin Announcing /\ Quiet => Quiet'
<1> USE DEF Quiet, SUSPENDED, LOST, UNKNOWN, managerVars
<1>1. CASE c.event.state = "StateDisconnected"
  <2>1. CASE CanSuspend
    BY <1>1, <2>1 DEF Validate
  <2>2. CASE ~CanSuspend
    <3>1. UNCHANGED currentConnectionState
      BY <1>1, <2>2 DEF Validate
    <3> QED BY <2>2, <3>1 DEF CanSuspend, ManagerInv, TypeOK
  <2> QED BY <1>1, <2>1, <2>2 DEF Announcing
<1>2. CASE c.event.state \notin Announcing /\ c.event.state # "StateDisconnected"
  <2>1. UNCHANGED currentConnectionState \/ currentConnectionState' = LOST
    BY <1>2 DEF Validate, AddStateChange, Announcing
  <2> QED BY <1>2, <2>1
<1> QED BY <1>1, <1>2

\* validateConnection, event by event in their order, announces a connection that
\* is down.
LEMMA ValidateDown ==
  ASSUME TypeOK, ManagerInv, DownInv, NEW c \in callbacks, Validate(c)
  PROVE  DownInv'
<1> SUFFICES ASSUME state' # "STOPPED", ~disordered', link' \notin Alive
             PROVE  \/ \E e \in ToValidate' : WillSuspend(e)'
                    \/ Quiet' /\ \A d \in ToValidate' : d.state \notin Announcing
  BY DEF DownInv
<1>1. state # "STOPPED" /\ link \notin Alive
  BY DEF Validate, clientVars
<1>2. ~disordered /\ \A e \in ToValidate : ~(e.epoch < c.event.epoch)
  BY DEF Validate
<1>3. /\ c.event \in ToValidate
      /\ ToValidate' \subseteq ToValidate
      /\ \A e \in ToValidate : e \in ToValidate' \/ e = c.event
  BY ValidateTakes
<1>4. /\ c.event.state = "StateDisconnected" => Quiet'
      /\ c.event.state \notin Announcing /\ Quiet => Quiet'
  BY <1>1, ValidateQuiet
<1>5. CASE Quiet /\ \A d \in ToValidate : d.state \notin Announcing
  BY <1>3, <1>4, <1>5
<1>6. ASSUME NEW e \in ToValidate, WillSuspend(e)
      PROVE  \/ \E b \in ToValidate' : WillSuspend(b)'
             \/ Quiet' /\ \A d \in ToValidate' : d.state \notin Announcing
  <2>1. CASE e \in ToValidate'
    <3>1. WillSuspend(e)'
      BY <1>3, <1>6 DEF WillSuspend
    <3> QED BY <2>1, <3>1
  <2>2. CASE e = c.event
    <3>1. \A d \in ToValidate : d.epoch \in Nat
      BY ToValidateMembers DEF TypeOK, Callback, Event
    <3>2. \A d \in ToValidate : d.state \notin Announcing
      BY <1>2, <1>6, <2>2, <3>1 DEF WillSuspend
    <3>3. Quiet'
      BY <1>4, <1>6, <2>2 DEF WillSuspend
    <3> QED BY <1>3, <3>2, <3>3
  <2> QED BY <1>3, <2>1, <2>2
<1> QED BY <1>1, <1>2, <1>5, <1>6 DEF DownInv

\* The events of the library.
LEMMA LibraryDown ==
  ASSUME TypeOK, EpochInv, DownInv,
         LinkUp \/ LinkReadOnly \/ LinkDown \/ LinkExpires \/ NodeEvent
  PROVE  DownInv'
<1>1. CASE LinkUp \/ LinkReadOnly \/ NodeEvent
  <2>1. link' \in Alive
    BY <1>1 DEF LinkUp, LinkReadOnly, NodeEvent, SessionChange, clientVars, Alive
  <2> QED BY <2>1 DEF DownInv
<1>2. CASE LinkDown
  BY <1>2, Disconnects DEF LinkDown, SessionChange
<1>3. CASE LinkExpires
  <2>1. PICK e : e = [state |-> "StateExpired", epoch |-> epoch']
    OBVIOUS
  <2>2. /\ Process({e}, checks) /\ link \notin Alive /\ state # "STOPPED"
        /\ UNCHANGED currentConnectionState
    BY <1>3, <2>1 DEF LinkExpires, SessionChange, SessionEvent, Alive, managerVars
  <2>3. e.state \notin Announcing
    BY <2>1 DEF Announcing
  <2> QED BY <2>2, <2>3, OtherEvents
<1> QED BY <1>1, <1>2, <1>3

\* Every step keeps DownInv.
LEMMA DownStep ==
  TypeOK /\ ManagerInv /\ EpochInv /\ DownInv /\ [Next]_vars => DownInv'
<1> SUFFICES ASSUME TypeOK, ManagerInv, EpochInv, DownInv, [Next]_vars PROVE DownInv'
  OBVIOUS
<1> USE DEF managerVars, clientVars, eventVars
<1>1. CASE UNCHANGED vars
  BY <1>1, DownFrame DEF vars
<1>2. CASE LinkUp \/ LinkReadOnly \/ LinkDown \/ LinkExpires \/ NodeEvent
  BY <1>2, LibraryDown
<1>3. ASSUME NEW e \in checks, CheckState(e) PROVE DownInv'
  <2>1. CASE Reset(checks \ {e})
    BY <1>3, <2>1, DownReset DEF CheckState, Reset
  <2>2. CASE UNCHANGED <<link, callbacks, disordered>>
    BY <1>3, <2>2, DownFrame DEF CheckState
  <2> QED BY <1>3, <2>1, <2>2 DEF CheckState
<1>4. ASSUME NEW c \in callbacks, CallbackStep(c) PROVE DownInv'
  <2>1. CASE Validate(c)
    BY <2>1, ValidateDown
  <2>2. CASE StartSync(c)
    <3>1. \A e : e \in ToValidate' <=> \E d \in callbacks' : d.pc = "process" /\ d.event = e
      BY DEF ToValidate
    <3>2. \A d : d.pc = "process" => (d \in callbacks' <=> d \in callbacks)
      BY <2>2 DEF StartSync
    <3>3. ToValidate' = ToValidate
      <4>1. \A e : e \in ToValidate' <=> e \in ToValidate
        BY Zenon, <3>1, <3>2, ToValidateMembers
      <4> QED BY <4>1
    <3>4. \A e : WillSuspend(e)' <=> WillSuspend(e)
      BY <3>3 DEF WillSuspend
    <3>5. UNCHANGED <<state, currentConnectionState, link, disordered>>
      BY <2>2 DEF StartSync
    <3> QED BY <3>3, <3>4, <3>5 DEF DownInv, Quiet
  <2> QED BY <1>4, <2>1, <2>2 DEF CallbackStep
<1>5. ASSUME NEW s \in syncs, SyncTimeout(s) PROVE DownInv'
  <2>1. CASE Reset(checks)
    BY <1>5, <2>1, DownReset DEF SyncTimeout, Reset
  <2>2. CASE UNCHANGED <<link, eventVars>>
    BY <1>5, <2>2, DownFrame DEF SyncTimeout
  <2> QED BY <1>5, <2>1, <2>2 DEF SyncTimeout
<1>6. ASSUME NEW s \in syncs,
             SyncConn(s) \/ SyncGet(s) \/ SyncCall(s) \/ SyncIndex(s) \/ SyncLost(s)
      PROVE  DownInv'
  <2>1. UNCHANGED <<state, link, callbacks, disordered>>
    BY <1>6 DEF SyncConn, SyncGet, SyncCall, SyncIndex, SyncLost
  <2>2. UNCHANGED currentConnectionState \/ Quiet'
    BY <1>6 DEF SyncConn, SyncGet, SyncCall, SyncIndex, SyncLost, AddStateChange, Quiet
  <2> QED BY <2>1, <2>2, DownFrame
<1>7. CASE Start \/ StartManager
  BY <1>7, DownFrame DEF Start, StartManager
<1>8. CASE StartClient
  <2>1. CASE Reset(checks)
    BY <1>8, <2>1, DownReset DEF StartClient, Reset
  <2>2. CASE UNCHANGED <<link, eventVars>>
    BY <1>8, <2>2, DownFrame DEF StartClient
  <2> QED BY <1>8, <2>1, <2>2 DEF StartClient
<1>9. CASE Close
  BY <1>9 DEF Close, DownInv
<1>10. CASE \E b \in Blockers : Block(b) \/ BlockReturn(b)
  BY <1>10, DownFrame DEF Block, BlockReturn
<1> QED BY <1>1, <1>2, <1>3, <1>4, <1>5, <1>6, <1>7, <1>8, <1>9, <1>10
        DEF Next, CheckStep, SyncStep

\* An event of the session gets the number of its change.
LEMMA EpochAdds ==
  ASSUME TypeOK, EpochInv, NEW s, NEW todo, SessionEvent(s, todo) \/ CloseConnection(todo)
  PROVE  EpochInv'
<1>1. ASSUME NEW r, SessionEvent(r, todo) PROVE EpochInv'
  <2>1. PICK e : e = [state |-> r, epoch |-> epoch']
    OBVIOUS
  <2>2. Process({e}, todo) /\ epoch' = epoch + 1 /\ epoch \in Nat
    BY <1>1, <2>1 DEF SessionEvent, TypeOK
  <2>3. callbacks' \subseteq callbacks \cup {[event |-> e, pc |-> "process"]}
    BY <2>2, ProcessAdds
  <2>4. \A c \in callbacks : c.event.epoch \in Nat
    BY DEF TypeOK, Callback, Event
  <2>5. \A c \in callbacks' : c \in callbacks \/ c.event.epoch = epoch'
    BY <2>1, <2>3
  <2> QED BY <2>2, <2>4, <2>5 DEF EpochInv
<1>2. CASE UNCHANGED <<epoch, callbacks>>
  BY <1>2 DEF EpochInv
<1> QED BY <1>1, <1>2 DEF CloseConnection

\* Every step keeps EpochInv.
LEMMA EpochStep == TypeOK /\ EpochInv /\ [Next]_vars => EpochInv'
<1> SUFFICES ASSUME TypeOK, EpochInv, [Next]_vars PROVE EpochInv'
  OBVIOUS
<1> USE DEF eventVars
<1>0. ASSUME UNCHANGED epoch,
             \A d \in callbacks' : \E c \in callbacks : d.event = c.event
      PROVE  EpochInv'
  BY <1>0 DEF EpochInv
<1>1. CASE UNCHANGED vars
  BY <1>0, <1>1 DEF vars
<1>2. CASE LinkUp \/ LinkReadOnly \/ LinkDown \/ LinkExpires
  BY <1>2, EpochAdds DEF LinkUp, LinkReadOnly, LinkDown, LinkExpires, SessionChange
<1>3. CASE NodeEvent
  <2>1. PICK e : e = [state |-> "StateSyncConnected", epoch |-> epoch]
    OBVIOUS
  <2>2. Process({e}, checks) /\ UNCHANGED epoch
    BY <1>3, <2>1 DEF NodeEvent
  <2>3. callbacks' \subseteq callbacks \cup {[event |-> e, pc |-> "process"]}
    BY <2>2, ProcessAdds
  <2>4. \A c \in callbacks' : c \in callbacks \/ c.event.epoch = epoch
    BY <2>1, <2>3
  <2> QED BY <2>2, <2>4 DEF EpochInv, TypeOK
<1>4. ASSUME NEW todo, Reset(todo) PROVE EpochInv'
  BY <1>4, EpochAdds DEF Reset
<1>5. CASE CheckStep
  BY <1>0, <1>4, <1>5 DEF CheckStep, CheckState
<1>6. ASSUME NEW c \in callbacks, CallbackStep(c) PROVE EpochInv'
  <2>1. CASE Validate(c)
    BY <1>0, <2>1, ValidateTakes DEF Validate
  <2>2. CASE StartSync(c)
    BY <1>0, <2>2 DEF StartSync
  <2> QED BY <1>6, <2>1, <2>2 DEF CallbackStep
<1>7. ASSUME NEW s \in syncs, SyncTimeout(s) PROVE EpochInv'
  BY <1>0, <1>4, <1>7 DEF SyncTimeout
<1>8. ASSUME NEW s \in syncs,
             SyncConn(s) \/ SyncGet(s) \/ SyncCall(s) \/ SyncIndex(s) \/ SyncLost(s)
      PROVE  EpochInv'
  BY <1>0, <1>8 DEF SyncConn, SyncGet, SyncCall, SyncIndex, SyncLost
<1>9. CASE Start \/ StartManager \/ StartClient
  BY <1>0, <1>4, <1>9 DEF Start, StartManager, StartClient
<1>10. CASE Close
  BY <1>10, EpochAdds DEF Close
<1>11. CASE \E b \in Blockers : Block(b) \/ BlockReturn(b)
  BY <1>0, <1>11 DEF Block, BlockReturn
<1> QED BY <1>1, <1>2, <1>3, <1>5, <1>6, <1>7, <1>8, <1>9, <1>10, <1>11 DEF Next, SyncStep

\* A connection is announced although it is down only while an event is on its way.
DownAnnounced ==
  link \notin Alive /\ state # "STOPPED" /\ ~disordered /\ ToValidate = {} => Quiet

\* When the framework has validated what it was told and was told everything in
\* order, a connection that is down is not announced as one: no late event of a
\* node, background sync, reset or expiry brings it back (framework.go,
\* validateConnection; state.go, connectionState.process).  With the fairness of
\* the goroutines this is DownIsAnnounced.
THEOREM DownIsQuiet == Spec => []DownAnnounced
<1>1. Init => ManagerInv /\ EpochInv /\ DownInv
  <2> SUFFICES ASSUME Init PROVE ManagerInv /\ EpochInv /\ DownInv
    OBVIOUS
  <2>1. callbacks = {} /\ Quiet
    BY DEF Init, Quiet
  <2>2. ToValidate = {}
    BY <2>1, ToValidateMembers
  <2> QED BY <2>1, <2>2 DEF Init, ManagerInv, EpochInv, DownInv
<1>2. DownInv => DownAnnounced
  BY DEF DownInv, DownAnnounced
<1> QED BY <1>1, <1>2, TypeCorrect, ManagerKept, EpochStep, DownStep, PTL DEF Spec
=============================================================================
