--------------------------- MODULE CuratorFramework ---------------------------
(***************************************************************************)
(* framework.go on top of client.go, state.go and watcher.go: how a change  *)
(* of the session becomes an announcement to the ConnectionStateListeners.  *)
(*                                                                          *)
(* Every event runs connectionState.process in a goroutine of its own, and  *)
(* that starts one for each parent watcher: the framework's, which calls    *)
(* validateConnection, and those of BlockUntilConnectedOrTimedOut.  A       *)
(* suspension starts a background sync.  A step is what one goroutine does  *)
(* between two accesses to what others change.  reset, Close and the        *)
(* posting half of the manager, whose steps ConnectionState and             *)
(* ConnectionStateManager have, are one step each; Dial succeeds, and the   *)
(* ensemble's connection string is a fixed one.  StateConnecting and        *)
(* StateConnected, which validateConnection passes over and of which        *)
(* checkState makes what it makes of StateDisconnected, are left out.       *)
(***************************************************************************)
EXTENDS ConnectionStates, Integers, FiniteSets

CONSTANTS
  Blockers,      \* goroutines that call BlockUntilConnectedOrTimedOut, once each
  CanBeReadOnly,
  MaxEpochs,     \* bound: changes of the session
  MaxPending,    \* bound: fewer events are on their way when the session changes
  MaxIndex       \* bound: instanceIndex after a reset by checkTimeout

ASSUME FrameworkAssumption ==
  /\ CanBeReadOnly \in BOOLEAN
  /\ {MaxEpochs, MaxPending, MaxIndex} \subseteq Nat

VARIABLES
  state,         \* of the curatorFramework
  managing,      \* state of the connectionStateManager
  currentConnectionState,
  started, isConnected, instanceIndex,
  link,          \* the helper of the handle holder, and its session
  epoch,         \* number of changes of the session so far
  checks,        \* events that process has still to give to checkState
  callbacks,     \* goroutines of process that call the framework's watcher
  syncs,         \* doSyncForSuspendedConnection
  starter,       \* the call of Start
  blocker,       \* the calls of BlockUntilConnectedOrTimedOut
  panicked,
  disordered,    \* history: the framework missed an event or got two out of order
  synced         \* history: a background sync succeeded since the last suspension

managerVars == <<managing, currentConnectionState>>
clientVars  == <<started, isConnected, instanceIndex, link>>
eventVars   == <<epoch, checks, callbacks, disordered>>
vars == <<state, managerVars, clientVars, eventVars, syncs, starter, blocker,
          panicked, synced>>

\* The helper: nil, or a connection by the state of its session.
Links == {"nil", "connecting", "up", "readonly", "down", "expired"}
Alive == {"up", "readonly"}

States == {"StateHasSession", "StateConnectedReadOnly", "StateDisconnected",
           "StateExpired", "StateSyncConnected"}

\* An event of the session, or with StateSyncConnected one of a node.
Event == [state : States, epoch : Nat]
IsSession(e) == e.state # "StateSyncConnected"

Callback == [event : Event, pc : {"process", "suspended"}]

\* The locals of a background sync: the epoch of the event it is for, its
\* argument, and the connection and the epoch of its call of Sync.
Sync == [of : Nat, instanceIndex : Int, conn : Nat, began : Nat,
         pc : {"conn", "timeout", "get", "sync", "index", "lost"}]

TypeOK ==
  /\ state \in {"LATENT", "STARTED", "STOPPED"}
  /\ managing \in {"LATENT", "STARTED", "STOPPED"}
  /\ currentConnectionState \in ConnectionState
  /\ started \in BOOLEAN /\ isConnected \in BOOLEAN
  /\ instanceIndex \in Nat
  /\ link \in Links
  /\ epoch \in Nat
  /\ checks \subseteq Event
  /\ callbacks \subseteq Callback
  /\ syncs \subseteq Sync
  /\ starter \in {"idle", "manager", "client", "done", "failed"}
  /\ blocker \in [Blockers -> {"idle", "wait", "returned"}]
  /\ panicked \in BOOLEAN
  /\ disordered \in BOOLEAN /\ synced \in BOOLEAN

Init ==
  /\ state = "LATENT" /\ managing = "LATENT"
  /\ currentConnectionState = UNKNOWN
  /\ started = FALSE /\ isConnected = FALSE
  /\ instanceIndex = 0
  /\ link = "nil"
  /\ epoch = 0 /\ checks = {} /\ callbacks = {}
  /\ syncs = {}
  /\ starter = "idle"
  /\ blocker = [b \in Blockers |-> "idle"]
  /\ panicked = FALSE
  /\ disordered = FALSE /\ synced = FALSE

-----------------------------------------------------------------------------
(* connectionState.process                                                  *)

\* The events that the framework has still to validate.
ToValidate == {c.event : c \in {d \in callbacks : d.pc = "process"}}

\* The goroutines that process starts share the loop variable.  The one for the
\* framework's watcher, the first of the list, finds that watcher in it or, by the
\* time it runs, a later one: then the framework misses the event.
MayMiss == {FALSE} \cup {TRUE : b \in {c \in Blockers : blocker[c] = "wait"}}

\* process for the events in E, at most one, while checkState has those in todo
\* to do.  How late its goroutine runs is in the delays of what it starts.
Process(E, todo) ==
  /\ checks' = todo \cup {e \in E : IsSession(e)}
  /\ \E missed \in MayMiss :
       /\ callbacks' = IF missed THEN callbacks
                       ELSE callbacks \cup {[event |-> e, pc |-> "process"] : e \in E}
       /\ disordered' = (disordered \/ (missed /\ E # {}))

\* An event of the session, of which there is one more now.
SessionEvent(s, todo) ==
  /\ epoch' = epoch + 1
  /\ Process({[state |-> s, epoch |-> epoch']}, todo)

-----------------------------------------------------------------------------
(* The zookeeper library                                                    *)

\* The events that some goroutine has still to do with.
Pending == Cardinality(checks \cup {c.event : c \in callbacks})

\* A connection that a late reset makes after Close is followed no further.
SessionChange(from, to, s) ==
  /\ link \in from /\ state # "STOPPED"
  /\ epoch < MaxEpochs /\ Pending < MaxPending
  /\ link' = to
  /\ SessionEvent(s, checks)
  /\ UNCHANGED <<state, managerVars, started, isConnected, instanceIndex, syncs,
                 starter, blocker, panicked, synced>>

LinkUp == SessionChange({"connecting", "down"}, "up", "StateHasSession")
LinkReadOnly ==
  /\ CanBeReadOnly
  /\ SessionChange({"connecting", "down"}, "readonly", "StateConnectedReadOnly")
LinkDown == SessionChange(Alive, "down", "StateDisconnected")
LinkExpires == SessionChange({"down"}, "expired", "StateExpired")

\* A watch that the application has set fires.  One such event is on its way at a
\* time.
NodeEvent ==
  /\ link = "up"
  /\ \A c \in callbacks : IsSession(c.event)
  /\ Process({[state |-> "StateSyncConnected", epoch |-> epoch]}, checks)
  /\ UNCHANGED <<state, managerVars, clientVars, epoch, syncs, starter, blocker,
                 panicked, synced>>

-----------------------------------------------------------------------------
(* connectionState                                                          *)

\* The library closes the connection of the holder; one that is alive reports
\* its end.
CloseConnection(todo) ==
  \/ link \in Alive /\ SessionEvent("StateDisconnected", todo)
  \/ link \notin Alive /\ checks' = todo /\ UNCHANGED <<epoch, callbacks, disordered>>

\* reset: a new connection in the place of the one there is
Reset(todo) ==
  /\ instanceIndex' = instanceIndex + 1
  /\ isConnected' = FALSE
  /\ link' = "connecting"
  /\ CloseConnection(todo)

\* Mutant of CheckState: an expired session is closed and no new one is opened.
CheckStateClears(e) ==
  /\ isConnected' = (e.state = "StateHasSession")
  /\ link' = IF e.state = "StateExpired" THEN "nil" ELSE link
  /\ checks' = checks \ {e}
  /\ UNCHANGED <<state, managerVars, started, instanceIndex, epoch, callbacks,
                 disordered, syncs, starter, blocker, panicked, synced>>

\* checkState, handleExpiredSession included, and what process does with its
\* result
CheckState(e) ==
  /\ \/ e.state = "StateExpired" /\ Reset(checks \ {e})
     \/ /\ e.state # "StateExpired"
        /\ isConnected' = (e.state = "StateHasSession")
        /\ checks' = checks \ {e}
        /\ UNCHANGED <<instanceIndex, link, epoch, callbacks, disordered>>
  /\ UNCHANGED <<state, managerVars, started, syncs, starter, blocker, panicked, synced>>

-----------------------------------------------------------------------------
(* connectionStateManager, as far as currentConnectionState                 *)

\* Mutant of AddStateChange: LOST is final.
AddStateChangeUnlessLost(s) ==
  /\ currentConnectionState' = IF managing = "STARTED" /\ currentConnectionState # LOST
                               THEN s ELSE currentConnectionState
  /\ UNCHANGED managing

\* AddStateChange
AddStateChange(s) ==
  /\ currentConnectionState' = IF managing = "STARTED" THEN s
                               ELSE currentConnectionState
  /\ UNCHANGED managing

\* Mutant of CanSuspend: only a connection that was announced is suspended, and
\* RECONNECTED is not thought of.
CanSuspendConnected == managing = "STARTED" /\ currentConnectionState \in {CONNECTED, READ_ONLY}

\* What SetToSuspended returns.
CanSuspend == managing = "STARTED" /\ currentConnectionState \notin {LOST, SUSPENDED}

-----------------------------------------------------------------------------
(* curatorFramework: the callback of its watcher                            *)

\* validateConnection; SetToSuspended is the first half of suspendConnection.
\* The CuratorListeners, which are told next, belong to the application.
Validate(c) ==
  /\ c.pc = "process"
  /\ \/ /\ c.event.state = "StateDisconnected" /\ CanSuspend
        /\ currentConnectionState' = SUSPENDED
        /\ callbacks' = (callbacks \ {c}) \cup {[c EXCEPT !.pc = "suspended"]}
        /\ synced' = FALSE
        /\ UNCHANGED managing
     \/ /\ \/ c.event.state = "StateDisconnected" /\ ~CanSuspend
           \/ c.event.state = "StateHasSession"
        /\ callbacks' = callbacks \ {c}
        /\ UNCHANGED <<managerVars, synced>>
     \/ /\ \/ c.event.state = "StateExpired" /\ AddStateChange(LOST)
           \/ c.event.state = "StateSyncConnected" /\ AddStateChange(RECONNECTED)
           \/ c.event.state = "StateConnectedReadOnly" /\ AddStateChange(READ_ONLY)
        /\ callbacks' = callbacks \ {c}
        /\ UNCHANGED synced
  /\ disordered' = (disordered \/ \E e \in ToValidate : e.epoch < c.event.epoch)
  /\ UNCHANGED <<state, clientVars, epoch, checks, syncs, starter, blocker, panicked>>

\* The rest of suspendConnection: go doSyncForSuspendedConnection(InstanceIndex())
StartSync(c) ==
  /\ c.pc = "suspended"
  /\ callbacks' = callbacks \ {c}
  /\ syncs' = syncs \cup {[of |-> c.event.epoch, instanceIndex |-> instanceIndex,
                          conn |-> 0, began |-> 0, pc |-> "conn"]}
  /\ UNCHANGED <<state, managerVars, clientVars, epoch, checks, disordered, starter,
                 blocker, panicked, synced>>

-----------------------------------------------------------------------------
(* doSyncForSuspendedConnection                                             *)

SyncGoto(s, pc) == syncs' = (syncs \ {s}) \cup {[s EXCEPT !.pc = pc]}

\* Mutant of SyncConn: client.Conn does not ask whether the client is started.
SyncConnUnchecked(s) ==
  /\ s.pc = "conn"
  /\ SyncGoto(s, "timeout")
  /\ UNCHANGED <<state, managerVars, clientVars, eventVars, starter, blocker,
                 panicked, synced>>

\* client.Conn
SyncConn(s) ==
  /\ s.pc = "conn"
  /\ SyncGoto(s, IF started THEN "timeout" ELSE "index")
  /\ UNCHANGED <<state, managerVars, clientVars, eventVars, starter, blocker,
                 panicked, synced>>

\* connectionState.Conn with checkTimeout.  Of the time since connectionStart only
\* the outcomes are left: ErrConnectionLoss, reset, or neither, as enough time may
\* pass before any step.
SyncTimeout(s) ==
  /\ s.pc = "timeout"
  /\ \/ SyncGoto(s, "get") /\ UNCHANGED <<isConnected, instanceIndex, link, eventVars>>
     \/ /\ ~isConnected
        /\ SyncGoto(s, "index")
        /\ UNCHANGED <<isConnected, instanceIndex, link, eventVars>>
     \/ /\ ~isConnected /\ instanceIndex < MaxIndex
        /\ Reset(checks)
        /\ SyncGoto(s, "get")
  /\ UNCHANGED <<state, managerVars, started, starter, blocker, panicked, synced>>

\* getZookeeperConnection gives no connection and no error for a nil helper, and
\* the call of Sync on that ends the program.
SyncGet(s) ==
  /\ s.pc = "get"
  /\ \/ link = "nil" /\ panicked' = TRUE /\ UNCHANGED syncs
     \/ /\ link # "nil"
        /\ syncs' = (syncs \ {s}) \cup {[s EXCEPT !.pc = "sync", !.conn = instanceIndex,
                                                 !.began = epoch]}
        /\ UNCHANGED panicked
  /\ UNCHANGED <<state, managerVars, clientVars, eventVars, starter, blocker, synced>>

\* conn.Sync("/") succeeds on a connection that is alive, and fails on one that is
\* not or that was not at some time since the call.
SyncCall(s) ==
  /\ s.pc = "sync"
  /\ \/ /\ link \in Alive /\ s.conn = instanceIndex
        /\ syncs' = syncs \ {s}
        /\ synced' = TRUE
     \/ /\ link \notin Alive \/ s.conn # instanceIndex \/ s.began # epoch
        /\ syncs' = (syncs \ {s}) \cup {[s EXCEPT !.pc = "index", !.conn = 0, !.began = 0]}
        /\ UNCHANGED synced
  /\ UNCHANGED <<state, managerVars, clientVars, eventVars, starter, blocker, panicked>>

\* Mutant of SyncIndex: a sync whose connection was replaced gives up.
SyncIndexOnce(s) ==
  /\ s.pc = "index"
  /\ \/ s.instanceIndex = instanceIndex /\ SyncGoto(s, "lost")
     \/ s.instanceIndex # instanceIndex /\ syncs' = syncs \ {s}
  /\ UNCHANGED <<state, managerVars, clientVars, eventVars, starter, blocker,
                 panicked, synced>>

\* The connection is the one that was suspended, or this is the second attempt.
SyncIndex(s) ==
  /\ s.pc = "index"
  /\ \/ /\ s.instanceIndex < 0 \/ s.instanceIndex = instanceIndex
        /\ SyncGoto(s, "lost")
     \/ /\ s.instanceIndex >= 0 /\ s.instanceIndex # instanceIndex
        /\ syncs' = (syncs \ {s}) \cup {[s EXCEPT !.pc = "conn", !.instanceIndex = -1]}
  /\ UNCHANGED <<state, managerVars, clientVars, eventVars, starter, blocker,
                 panicked, synced>>

SyncLost(s) ==
  /\ s.pc = "lost"
  /\ AddStateChange(LOST)
  /\ syncs' = syncs \ {s}
  /\ UNCHANGED <<state, clientVars, eventVars, starter, blocker, panicked, synced>>

-----------------------------------------------------------------------------
(* Start and Close                                                          *)

Start ==
  /\ state = "LATENT"
  /\ state' = "STARTED"
  /\ starter' = "manager"
  /\ UNCHANGED <<managerVars, clientVars, eventVars, syncs, blocker, panicked, synced>>

StartManager ==
  /\ starter = "manager"
  /\ managing' = "STARTED"
  /\ starter' = "client"
  /\ UNCHANGED <<state, currentConnectionState, clientVars, eventVars, syncs, blocker,
                 panicked, synced>>

\* client.Start and connectionState.Start.  A failure of the ensemble provider
\* leaves the framework and the client started.
StartClient ==
  /\ starter = "client"
  /\ started' = TRUE
  /\ \/ Reset(checks) /\ starter' = "done"
     \/ starter' = "failed" /\ UNCHANGED <<isConnected, instanceIndex, link, eventVars>>
  /\ UNCHANGED <<state, managerVars, syncs, blocker, panicked, synced>>

\* The manager is closed if it is started, then the client, connectionState and the
\* holder, which is left without a helper.
Close ==
  /\ state = "STARTED"
  /\ state' = "STOPPED"
  /\ managing' = IF managing = "STARTED" THEN "STOPPED" ELSE managing
  /\ started' = FALSE
  /\ isConnected' = FALSE
  /\ link' = "nil"
  /\ CloseConnection(checks)
  /\ UNCHANGED <<currentConnectionState, instanceIndex, syncs, starter, blocker,
                 panicked, synced>>

-----------------------------------------------------------------------------
(* BlockUntilConnectedOrTimedOut                                            *)

\* The call registers its watcher, unless the client is not started.
Block(b) ==
  /\ blocker[b] = "idle"
  /\ blocker' = [blocker EXCEPT ![b] = IF started THEN "wait" ELSE "returned"]
  /\ UNCHANGED <<state, managerVars, clientVars, eventVars, syncs, starter, panicked,
                 synced>>

\* The timer fires, or the callback of the watcher has found Connected and sends;
\* either way the watcher is removed.  A callback that comes later is stuck in its
\* send for ever, which holds up no other goroutine.
BlockReturn(b) ==
  /\ blocker[b] = "wait"
  /\ blocker' = [blocker EXCEPT ![b] = "returned"]
  /\ UNCHANGED <<state, managerVars, clientVars, eventVars, syncs, starter, panicked,
                 synced>>

-----------------------------------------------------------------------------

CheckStep == \E e \in checks : CheckState(e)
CallbackStep(c) == Validate(c) \/ StartSync(c)
SyncStep ==
  \E s \in syncs : \/ SyncConn(s) \/ SyncTimeout(s) \/ SyncGet(s)
                   \/ SyncCall(s) \/ SyncIndex(s) \/ SyncLost(s)

Next ==
  /\ ~panicked
  /\ \/ LinkUp \/ LinkReadOnly \/ LinkDown \/ LinkExpires \/ NodeEvent
     \/ CheckStep \/ SyncStep
     \/ \E c \in callbacks : CallbackStep(c)
     \/ Start \/ StartManager \/ StartClient \/ Close
     \/ \E b \in Blockers : Block(b) \/ BlockReturn(b)

\* A goroutine that can run does, and a timer fires.  The events of the session are
\* finitely many and so are the goroutines for them: what is fair to all of them is
\* fair to each.
Fairness ==
  /\ WF_vars(~panicked /\ CheckStep)
  /\ WF_vars(~panicked /\ SyncStep)
  /\ WF_vars(~panicked /\ \E c \in callbacks : IsSession(c.event) /\ CallbackStep(c))
  /\ WF_vars(~panicked /\ \E c \in callbacks : ~IsSession(c.event) /\ CallbackStep(c))
  /\ WF_vars(~panicked /\ (StartManager \/ StartClient))
  /\ WF_vars(~panicked /\ \E b \in Blockers : BlockReturn(b))

Spec == Init /\ [][Next]_vars /\ Fairness

-----------------------------------------------------------------------------
(* Properties                                                               *)

\* A connection that stays up while watches keep firing ends up announced, whatever
\* disconnections, late LOSTs of background syncs and events that came in the wrong
\* order went before: the next event of a node makes it RECONNECTED (framework.go,
\* validateConnection).  Without such an event it is not announced at all, because
\* StateHasSession announces nothing.
UpIsAnnounced ==
  <>[](link = "up" /\ state = "STARTED") /\ []<><<NodeEvent>>_vars =>
    <>[]Connected(currentConnectionState)

\* A connection that stays down does not stay announced as a connection, unless the
\* framework missed an event, which takes a BlockUntilConnectedOrTimedOut, or got
\* two in the wrong order (state.go, connectionState.process).
DownIsAnnounced ==
  <>[](link \notin Alive /\ state = "STARTED") =>
    <>[](disordered \/ currentConnectionState \in {UNKNOWN, SUSPENDED, LOST})

\* A suspension does not stay unresolved: the connection is announced again or
\* LOST, or the background sync has found it working, or the framework is closed
\* (framework.go, suspendConnection and doSyncForSuspendedConnection).
SuspensionIsChecked ==
  currentConnectionState = SUSPENDED ~>
    currentConnectionState # SUSPENDED \/ synced \/ state = "STOPPED"

\* A background sync uses a connection that is not there only when Close has come
\* in between (framework.go, doSyncForSuspendedConnection; state.go,
\* getZookeeperConnection).
NoPanicWhileOpen == panicked => state = "STOPPED"

\* The framework is closed, and no goroutine is left that can open a connection:
\* none with an expired session to handle, none in Start, and no background sync
\* past client.Conn.
Closed ==
  /\ state = "STOPPED" /\ ~started /\ link = "nil"
  /\ \A e \in checks : e.state # "StateExpired"
  /\ starter \notin {"manager", "client"}
  /\ \A s \in syncs : s.pc # "timeout"

\* Close is final once the work that was under way is over: events that still come
\* in, their callbacks and syncs that begin or begin again open no connection
\* (client.go, Conn; state.go, handleExpiredSession and checkTimeout).
ClosedForGood == [][Closed => Closed']_vars
=============================================================================
