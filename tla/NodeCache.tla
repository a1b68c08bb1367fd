------------------------------ MODULE NodeCache ------------------------------
(***************************************************************************)
(* recipes/cache.go: NodeCache, with the background reads of exists.go and  *)
(* data.go, the watchers of watcher.go, and the connection states that      *)
(* framework.go and the connection state manager make of the events.        *)
(*                                                                          *)
(* Each reset, each background read and each watcher callback runs on a     *)
(* goroutine of its own.  Goroutines in the same place are alike, so `jobs' *)
(* counts them.  The value of the node is 0 when there is no node, and      *)
(* otherwise the number of the change that wrote it.                        *)
(***************************************************************************)
EXTENDS Integers, Sequences, Functions

CONSTANTS
  MaxChanges,     \* bound: creations, updates and deletions of the node
  MaxDisconnects, \* bound: times the connection is lost
  MaxOthers,      \* bound: events of the client's other watches
  MaxLoad         \* bound: watches and goroutines when something happens

ASSUME CacheAssumption == {MaxChanges, MaxDisconnects, MaxOthers, MaxLoad} \subseteq Nat

VARIABLES
  node, changes,       \* the server: the node, and how often it changed
  watches,             \* watches of this client on the node
  online, missed,      \* the connection, and whether an event waits for it
  disconnects, others,
  pending,             \* events whose goroutine has yet to validate the connection
  current, announced,  \* the manager's state, and what it still has to show
  state, isConnected, data,  \* of the NodeCache
  registered,          \* connectionStateListener is in the manager's container
  starter, closer,     \* the calls of StartAndInitalize and Close
  jobs,
  lastRead,            \* history: what the last GetData found
  readFailed           \* history: a read failed since the cache was shown a connection

serverVars == <<node, changes, watches, online, missed, disconnects, others>>
managerVars == <<pending, current, announced>>
cacheVars == <<state, isConnected, registered>>
callVars == <<starter, closer>>
readVars == <<lastRead, readFailed>>
vars == <<serverVars, managerVars, cacheVars, data, callVars, jobs, readVars>>

Values == 0 .. MaxChanges

\* Where a background goroutine is; GetData's has read a value to be stored.
Job(place) == <<place, 0>>
Store(value) == <<"setNewData", value>>
Jobs == ({"reset", "exists", "get"} \X {0})
          \cup ({"setNewData"} \X Values)

\* What the framework's watcher is told; LOST also comes from a background sync.
Events == {"SyncConnected", "Disconnected", "Lost"}

\* currentConnectionState: "up" is RECONNECTED, "down" SUSPENDED or LOST.
States == {"UNKNOWN", "up", "down"}

TypeOK ==
  /\ node \in Values /\ changes \in 0 .. MaxChanges
  /\ watches \in Nat /\ disconnects \in 0 .. MaxDisconnects /\ others \in 0 .. MaxOthers
  /\ online \in BOOLEAN /\ missed \in BOOLEAN
  /\ pending \in [Events -> Nat] /\ current \in States /\ announced \in Seq(BOOLEAN)
  /\ state \in {"LATENT", "STARTED", "STOPPED"}
  /\ isConnected \in BOOLEAN /\ data \in Values
  /\ registered \in BOOLEAN
  /\ starter \in {"new", "ensure", "listen", "rebuild", "reset", "returned", "failed"}
  /\ closer \in {"new", "remove", "returned"}
  /\ jobs \in [Jobs -> Nat]
  /\ lastRead \in Values /\ readFailed \in BOOLEAN

\* NewNodeCache, on a client that has or has not connected yet.
Init ==
  /\ node = 0 /\ changes = 0 /\ watches = 0 /\ disconnects = 0 /\ others = 0
  /\ online \in BOOLEAN /\ missed = FALSE
  /\ pending = [e \in Events |-> 0] /\ current \in States /\ announced = <<>>
  /\ state = "LATENT" /\ isConnected = FALSE /\ data = 0
  /\ registered = FALSE
  /\ starter = "new" /\ closer = "new"
  /\ jobs = [j \in Jobs |-> 0]
  /\ lastRead = 0 /\ readFailed = FALSE

Moved(j, k) == [jobs EXCEPT ![j] = @ - 1, ![k] = @ + 1]
Ended(j) == [jobs EXCEPT ![j] = @ - 1]

-----------------------------------------------------------------------------
(* The server and the connection                                            *)

\* Every watch sends its event once, and Watchers.Fire starts a goroutine that
\* calls reset for each.
Fire ==
  /\ jobs' = [jobs EXCEPT ![Job("reset")] = @ + watches]
  /\ watches' = 0

\* The library sends an event to the framework's watcher.
Emit(event) == pending' = [pending EXCEPT ![event] = @ + 1]

\* How many watches and goroutines there are
Load == watches + FoldFunction(+, 0, jobs)

\* Each change doubles the watches, because a reset sets two, so the model stops at
\* MaxLoad, and at Close, since a closed cache promises nothing.
Bounded == Load <= MaxLoad /\ closer = "new"

\* Somebody creates, updates or deletes the node.  The event waits for the
\* connection when there is none.
Change ==
  /\ changes < MaxChanges
  /\ Bounded
  /\ changes' = changes + 1
  /\ node' = changes' \/ (node # 0 /\ node' = 0)
  /\ \/ online /\ watches > 0 /\ Fire /\ Emit("SyncConnected") /\ missed' = missed
     \/ /\ ~online \/ watches = 0
        /\ missed' = (missed \/ watches > 0)
        /\ UNCHANGED <<watches, jobs, pending>>
  /\ UNCHANGED <<online, disconnects, others, current, announced,
                 cacheVars, data, callVars, readVars>>

\* Another watch of the client fires.
OtherEvent ==
  /\ online
  /\ others < MaxOthers
  /\ Bounded
  /\ others' = others + 1
  /\ Emit("SyncConnected")
  /\ UNCHANGED <<node, changes, watches, online, missed, disconnects, current, announced, cacheVars, data, callVars, jobs,
                 readVars>>

Disconnect ==
  /\ online
  /\ disconnects < MaxDisconnects
  /\ Bounded
  /\ online' = FALSE
  /\ disconnects' = disconnects + 1
  /\ Emit("Disconnected")
  /\ UNCHANGED <<node, changes, watches, missed, others, current,
                 announced, cacheVars, data, callVars, jobs, readVars>>

\* A connection.  The zookeeper library sets the session's watches again, which may
\* fire one; its own event, HasSession, is none that the framework looks at.
Connect ==
  /\ ~online
  /\ online' = TRUE
  /\ missed' = FALSE
  /\ \/ missed /\ Fire /\ Emit("SyncConnected")
     \/ ~missed /\ UNCHANGED <<watches, jobs, pending>>
  /\ UNCHANGED <<node, changes, disconnects, others, current,
                 announced, cacheVars, data, callVars, readVars>>

\* The session ends, and with it the watches: each gets an error event.  (A session
\* without watches ends like a connection whose background sync fails.)
Expire ==
  /\ ~online
  /\ watches > 0
  /\ Fire
  /\ missed' = FALSE
  /\ Emit("Lost")
  /\ UNCHANGED <<node, changes, online, disconnects, others, current, announced, cacheVars, data, callVars, readVars>>

-----------------------------------------------------------------------------
(* The framework and its connection state manager                           *)

\* AddStateChange and SetToSuspended, for all that the cache can tell apart: a change
\* is queued for the listeners, to whom a state is Connected() or not.
ChangeState(up) ==
  /\ current' = IF up THEN "up" ELSE "down"
  /\ announced' = IF current' # current THEN Append(announced, up) ELSE announced

\* validateConnection, on a goroutine for each event, so in any order.
SyncConnected ==
  /\ pending["SyncConnected"] > 0
  /\ pending' = [pending EXCEPT !["SyncConnected"] = @ - 1]
  /\ ChangeState(TRUE)
  /\ UNCHANGED <<serverVars, cacheVars, data, callVars, jobs, readVars>>

\* suspendConnection; the background sync that it starts may fail and end in LOST.
SuspendConnection ==
  /\ pending["Disconnected"] > 0
  /\ \E fails \in {0, 1} :
       /\ fails = 1 => current # "down"
       /\ pending' = [pending EXCEPT !["Disconnected"] = @ - 1, !["Lost"] = @ + fails]
  /\ ChangeState(FALSE)
  /\ UNCHANGED <<serverVars, cacheVars, data, callVars, jobs, readVars>>

LostConnection ==
  /\ pending["Lost"] > 0
  /\ pending' = [pending EXCEPT !["Lost"] = @ - 1]
  /\ ChangeState(FALSE)
  /\ UNCHANGED <<serverVars, cacheVars, data, callVars, jobs, readVars>>

ValidateConnection == SyncConnected \/ SuspendConnection \/ LostConnection

-----------------------------------------------------------------------------
(* The life cycle                                                           *)

\* StartAndInitalize, up to ensurePath.
Start ==
  /\ starter = "new"
  /\ \/ state = "LATENT" /\ state' = "STARTED" /\ starter' = "ensure"
     \/ state # "LATENT" /\ starter' = "failed" /\ UNCHANGED state
  /\ UNCHANGED <<serverVars, managerVars, isConnected, registered, data, closer, jobs, readVars>>

\* ensurePath.Ensure; an error leaves the state STARTED.
Ensure ==
  /\ starter = "ensure"
  /\ \/ online /\ starter' = "listen"
     \/ ~online /\ starter' = "failed"
  /\ UNCHANGED <<serverVars, managerVars, cacheVars, data, closer, jobs,
                 readVars>>

AddListener ==
  /\ starter = "listen"
  /\ registered' = TRUE
  /\ \E buildInitial \in BOOLEAN :
       starter' = IF buildInitial THEN "rebuild" ELSE "reset"
  /\ UNCHANGED <<serverVars, managerVars, state, isConnected, data, closer,
                 jobs, readVars>>

\* internalRebuild reads without a watch, and tells no listener.
InternalRebuild ==
  /\ starter = "rebuild"
  /\ \/ online /\ data' = node /\ starter' = "reset"
     \/ ~online /\ starter' = "failed" /\ UNCHANGED data
  /\ UNCHANGED <<serverVars, managerVars, cacheVars, closer, jobs, readVars>>

\* reset starts a CheckExists in the background when it can.
CanReset == state = "STARTED" /\ isConnected

StartReset ==
  /\ starter = "reset"
  /\ starter' = "returned"
  /\ jobs' = IF CanReset THEN [jobs EXCEPT ![Job("exists")] = @ + 1] ELSE jobs
  /\ UNCHANGED <<serverVars, managerVars, cacheVars, data, closer, readVars>>

\* Close: the state and the listeners, then the connection state listener.
Close ==
  /\ closer = "new"
  /\ closer' = "remove"
  /\ state' = IF state = "STARTED" THEN "STOPPED" ELSE state
  /\ UNCHANGED <<serverVars, managerVars, isConnected, registered, data, starter, jobs,
                 readVars>>

RemoveListener ==
  /\ closer = "remove"
  /\ registered' = FALSE
  /\ closer' = "returned"
  /\ UNCHANGED <<serverVars, managerVars, state, isConnected, data, starter,
                 jobs, readVars>>

-----------------------------------------------------------------------------
(* The callbacks                                                            *)

\* Mutant of StateChanged: no reset when the connection is back.
StateChangedNoReset ==
  /\ announced # <<>>
  /\ announced' = Tail(announced)
  /\ isConnected' = IF registered THEN Head(announced) ELSE isConnected
  /\ readFailed' = (readFailed /\ isConnected)
  /\ UNCHANGED <<serverVars, pending, current, state, registered,
                 data, callVars, jobs, lastRead>>

\* connectionStateListener, when it is registered.
StateChanged ==
  /\ announced # <<>>
  /\ announced' = Tail(announced)
  /\ \/ /\ registered /\ Head(announced) /\ ~isConnected
        /\ isConnected' = TRUE
        /\ readFailed' = FALSE
        /\ jobs' = IF state = "STARTED" THEN [jobs EXCEPT ![Job("exists")] = @ + 1]
                   ELSE jobs
     \/ /\ registered /\ ~Head(announced)
        /\ isConnected' = FALSE
        /\ UNCHANGED <<jobs, readFailed>>
     \/ /\ ~registered \/ (Head(announced) /\ isConnected)
        /\ UNCHANGED <<isConnected, jobs, readFailed>>
  /\ UNCHANGED <<serverVars, pending, current, state, registered,
                 data, callVars, lastRead>>

\* watcher: reset.
Reset ==
  /\ jobs[Job("reset")] > 0
  /\ jobs' = IF CanReset THEN Moved(Job("reset"), Job("exists")) ELSE Ended(Job("reset"))
  /\ UNCHANGED <<serverVars, managerVars, cacheVars, data, callVars, readVars>>

\* Mutant of Exists: a missing node is an error to retry.
ExistsRetriesMissing ==
  /\ jobs[Job("exists")] > 0
  /\ online /\ node # 0
  /\ watches' = watches + 1
  /\ jobs' = Moved(Job("exists"), Job("get"))
  /\ UNCHANGED <<node, changes, online, missed, disconnects, others, managerVars, cacheVars,
                 data, callVars, readVars>>

\* Mutant of Exists: the data is read only when none is cached.
ExistsReadsOnce ==
  /\ jobs[Job("exists")] > 0
  /\ online
  /\ watches' = watches + 1
  /\ jobs' = IF data = 0 THEN Moved(Job("exists"), Job("get")) ELSE Ended(Job("exists"))
  /\ UNCHANGED <<node, changes, online, missed, disconnects, others, managerVars, cacheVars,
                 data, callVars, readVars>>

\* CheckExists leaves a watch, whether there is a node or not, and reports a
\* missing node as no error, so that processBackgroundResult goes on to GetData.
Exists ==
  /\ jobs[Job("exists")] > 0
  /\ online
  /\ watches' = watches + 1
  /\ jobs' = Moved(Job("exists"), Job("get"))
  /\ UNCHANGED <<node, changes, online, missed, disconnects, others, managerVars, cacheVars,
                 data, callVars, readVars>>

\* GetData leaves a watch when there is a node; without one its ErrNoNode ends
\* the update.
GetData ==
  /\ jobs[Job("get")] > 0
  /\ online
  /\ lastRead' = node
  /\ \/ /\ node # 0
        /\ watches' = watches + 1
        /\ jobs' = Moved(Job("get"), Store(node))
     \/ /\ node = 0
        /\ jobs' = Ended(Job("get"))
        /\ UNCHANGED watches
  /\ UNCHANGED <<node, changes, online, missed, disconnects, others, managerVars, cacheVars,
                 data, callVars, readFailed>>

\* A call without a connection fails, and the update ends.
CallFails(place) ==
  /\ jobs[Job(place)] > 0
  /\ ~online
  /\ jobs' = Ended(Job(place))
  /\ readFailed' = TRUE
  /\ UNCHANGED <<serverVars, managerVars, cacheVars, data, callVars, lastRead>>

\* setNewData swaps the pointers, and tells the listeners of a difference.
SetNewData(value) ==
  /\ jobs[Store(value)] > 0
  /\ data' = value
  /\ jobs' = Ended(Store(value))
  /\ UNCHANGED <<serverVars, managerVars, cacheVars, callVars, readVars>>

Lifecycle ==
  Start \/ Ensure \/ AddListener \/ InternalRebuild \/ StartReset
    \/ Close \/ RemoveListener

Background ==
  \/ Reset \/ Exists \/ GetData \/ CallFails("exists") \/ CallFails("get")
  \/ (\E value \in Values : SetNewData(value))

Next ==
  \/ Change \/ OtherEvent \/ Disconnect \/ Connect \/ Expire
  \/ ValidateConnection
  \/ Lifecycle \/ StateChanged \/ Background

Spec == Init /\ [][Next]_vars

\* The library reconnects, the manager's dispatcher runs, and so does every
\* goroutine.
FairSpec ==
  /\ Spec
  /\ WF_vars(Connect) /\ WF_vars(StateChanged)
  /\ WF_vars(ValidateConnection)
  /\ WF_vars(Background)
  /\ WF_vars(Start \/ Ensure \/ AddListener \/ InternalRebuild \/ StartReset)
  /\ WF_vars(RemoveListener)

-----------------------------------------------------------------------------
(* Properties                                                               *)

\* The cache runs, holds itself connected, and no read is under way or has failed
\* since it was shown that connection.
Settled ==
  /\ state = "STARTED" /\ isConnected /\ registered /\ ~readFailed
  /\ \A place \in {"reset", "exists", "get"} : jobs[Job(place)] = 0

\* A settled cache has a watch on the node, whatever watches fired and whatever
\* states were announced late, out of order or not at all: the next change will be
\* noticed.  (A read that fails is not repeated: see readFailed.)
NotBlind == Settled => watches > 0

\* A settled cache has read the node's last value once the connection is there:
\* the watch is set before the read, so no change falls between them.  (Which of
\* two reads is stored last is another matter, since each is stored by a goroutine
\* of its own.)
LatestWasRead == Settled /\ online => lastRead = node

\* A cache that stays started and connected, none of its reads failing, reads what
\* was last written, through lost connections and ended sessions.
EventuallyRead ==
  <>[](state = "STARTED" /\ isConnected /\ registered /\ ~readFailed)
    => <>[](lastRead = node)

\* NodeCache "will watch the node, respond to update/create/delete events, pull
\* down the data, etc." (cache.go:78): a settled cache whose last read found no
\* node, with no older read still to be stored, holds no data.
DeletionNoticed ==
  Settled /\ lastRead = 0 /\ (\A value \in Values : jobs[Store(value)] = 0) => data = 0
=============================================================================
