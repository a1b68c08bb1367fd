-------------------------- MODULE InterProcessMutex --------------------------
(***************************************************************************)
(* recipes/locks.go: InterProcessMutex on top of lockInternals and          *)
(* StandardLockInternalsDriver.                                             *)
(*                                                                          *)
(* Each client (process) has one InterProcessMutex on the same lock path,   *)
(* used by one or more goroutines.  A znode below the lock path is its      *)
(* sequence number and the client whose session owns it; its name is kept   *)
(* in the code's ourPath and lockPath variables, here as the number (0 is   *)
(* the empty path).  Every call to the server is one action; between two    *)
(* calls anything else may happen.                                          *)
(***************************************************************************)
EXTENDS Integers, FiniteSets

CONSTANTS
  Clients,    \* processes, each with a session and an InterProcessMutex
  Threads,    \* goroutines that use the mutexes
  ClientOf,   \* the client of each goroutine
  Timeouts,   \* subset of BOOLEAN: TRUE is AcquireTimeout, FALSE is Acquire
  Faults,     \* subset of {"create", "list", "get", "delete", "expire", "close"}
  MaxCalls    \* bound: Acquire calls by each goroutine

ASSUME MutexAssumption ==
  /\ ClientOf \in [Threads -> Clients]
  /\ Timeouts \subseteq BOOLEAN
  /\ MaxCalls \in Nat

VARIABLES
  nodes,        \* server: the lock nodes, [seq, client]
  nextSeq,      \* server: the next sequence number
  started,      \* per client: client.State() == STARTED
  lockPath,     \* per client: m.lockPath
  lockCount,    \* per client: m.lockCount
  pc,           \* per goroutine: the next step of its call
  ourPath,      \* per goroutine: the path its call works on
  pathToWatch,  \* per goroutine: the node it waits for
  channel,      \* per goroutine: c of this round: "none", "watching", "fired"
  expired,      \* per goroutine: waitTime has passed since startTime
  calls,        \* history: Acquire calls made
  hold,         \* history: successful Acquires not yet released
  lost          \* history: the session ended since the goroutine's last create

serverVars == <<nodes, nextSeq, started>>
mutexVars  == <<lockPath, lockCount>>
waitVars   == <<pathToWatch, channel, expired>>
userVars   == <<calls, hold, lost>>
vars == <<serverVars, mutexVars, pc, ourPath, waitVars, userVars>>

maxLeases == 1

TypeOK ==
  /\ nodes \subseteq [seq : 1 .. nextSeq - 1, client : Clients]
  /\ nextSeq \in Nat \ {0}
  /\ started \in [Clients -> BOOLEAN]
  /\ lockPath \in [Clients -> 0 .. nextSeq - 1]
  /\ lockCount \in [Clients -> Int]
  /\ pc \in [Threads -> {"idle", "reenter", "create", "loop", "list", "watch",
                         "select", "storePath", "storeCount", "decrement",
                         "readPath", "delete", "panicked"}]
  /\ ourPath \in [Threads -> 0 .. nextSeq - 1]
  /\ pathToWatch \in [Threads -> 0 .. nextSeq - 1]
  /\ channel \in [Threads -> {"none", "watching", "fired"}]
  /\ expired \in [Threads -> BOOLEAN]
  /\ calls \in [Threads -> 0 .. MaxCalls]
  /\ hold \in [Threads -> Nat]
  /\ lost \in [Threads -> BOOLEAN]

Init ==
  /\ nodes = {}
  /\ nextSeq = 1
  /\ started = [c \in Clients |-> TRUE]
  /\ lockPath = [c \in Clients |-> 0]
  /\ lockCount = [c \in Clients |-> 0]
  /\ pc = [t \in Threads |-> "idle"]
  /\ ourPath = [t \in Threads |-> 0]
  /\ pathToWatch = [t \in Threads |-> 0]
  /\ channel = [t \in Threads |-> "none"]
  /\ expired = [t \in Threads |-> FALSE]
  /\ calls = [t \in Threads |-> 0]
  /\ hold = [t \in Threads |-> 0]
  /\ lost = [t \in Threads |-> FALSE]

-----------------------------------------------------------------------------
(* Helpers                                                                  *)

\* The call goes on, or returns and its local variables are gone.
Goto(t, label) == pc' = [pc EXCEPT ![t] = label]

Return(t) ==
  /\ Goto(t, "idle")
  /\ ourPath' = [ourPath EXCEPT ![t] = 0]
  /\ pathToWatch' = [pathToWatch EXCEPT ![t] = 0]
  /\ channel' = [channel EXCEPT ![t] = "none"]
  /\ expired' = [expired EXCEPT ![t] = FALSE]

\* Fresh names come from the sequence counter, so a number identifies a node.
Exists(path) == \E n \in nodes : n.seq = path

\* The children that getSortedChildren puts before `path'.
Before(path) == {n \in nodes : n.seq < path}

\* Mutant of GetsTheLock: i <= maxLeases.
GetsTheLockOffByOne(path) == Cardinality(Before(path)) <= maxLeases

\* PredicateResults.GetsTheLock: the index of `path' is below maxLeases.
GetsTheLock(path) == Cardinality(Before(path)) < maxLeases

\* Mutant of IsPathToWatch: every waiter watches children[0].
IsTheFirst(path, p) == p < path /\ Before(p) = {}

\* PredicateResults.PathToWatch: children[i - maxLeases].
IsPathToWatch(path, p) ==
  p < path /\ Cardinality(Before(path) \ Before(p)) = maxLeases

IsAcquiredInThisProcess(c) == lockCount[c] > 0

\* The server removes nodes: every watch on one of them fires, once, and the
\* watcher's callback sends on the channel of the round that registered it.  The
\* channel of a round that the timer has ended has no reader: its callback
\* blocks for ever and is of no further effect.
Remove(gone) ==
  /\ nodes' = nodes \ gone
  /\ channel' = [t \in Threads |->
                   IF channel[t] = "watching" /\ \E n \in gone : n.seq = pathToWatch[t]
                   THEN "fired" ELSE channel[t]]

\* The session of `c' ends: its ephemeral nodes go, and the zookeeper library
\* ends each of its watches with an error event.
EndSession(c) ==
  LET gone == {n \in nodes : n.client = c} IN
  /\ nodes' = nodes \ gone
  /\ channel' = [t \in Threads |->
                   IF /\ channel[t] = "watching"
                      /\ \/ ClientOf[t] = c
                         \/ \E n \in gone : n.seq = pathToWatch[t]
                   THEN "fired" ELSE channel[t]]
  /\ lost' = [t \in Threads |-> lost[t] \/ ClientOf[t] = c]

-----------------------------------------------------------------------------
(* Acquire and AcquireTimeout: internalLock and attemptLock.                *)

\* internalLock up to its test of lockCount.  Acquire passes -1 as the time to
\* wait, so its timer has always expired.
Acquire(t) ==
  /\ pc[t] = "idle"
  /\ calls[t] < MaxCalls
  /\ calls' = [calls EXCEPT ![t] = @ + 1]
  /\ Goto(t, IF IsAcquiredInThisProcess(ClientOf[t]) THEN "reenter" ELSE "create")
  /\ \E timed \in Timeouts : expired' = [expired EXCEPT ![t] = ~timed]
  /\ UNCHANGED <<serverVars, mutexVars, ourPath, pathToWatch, channel,
                 hold, lost>>

Reenter(t) ==
  /\ pc[t] = "reenter"
  /\ lockCount' = [lockCount EXCEPT ![ClientOf[t]] = @ + 1]
  /\ hold' = [hold EXCEPT ![t] = @ + 1]
  /\ Return(t)
  /\ UNCHANGED <<serverVars, lockPath, calls, lost>>

\* The server's part of CreatesTheLock.
NewNode(t) ==
  /\ nodes' = nodes \cup {[seq |-> nextSeq, client |-> ClientOf[t]]}
  /\ nextSeq' = nextSeq + 1

Create(t) ==
  /\ pc[t] = "create"
  /\ started[ClientOf[t]]
  /\ NewNode(t)
  /\ ourPath' = [ourPath EXCEPT ![t] = nextSeq]
  /\ lost' = [lost EXCEPT ![t] = FALSE]
  /\ Goto(t, "loop")
  /\ UNCHANGED <<started, mutexVars, waitVars, calls, hold>>

\* The call fails, before or after the server has made the node, and attemptLock
\* returns the error.  (ErrNoNode with a retry allowed changes nothing.)
CreateFails(t) ==
  /\ "create" \in Faults
  /\ pc[t] = "create"
  /\ started[ClientOf[t]]
  /\ NewNode(t) \/ UNCHANGED <<nodes, nextSeq>>
  /\ Return(t)
  /\ UNCHANGED <<started, mutexVars, userVars>>

\* internalLock stores the path, then the count.
StorePath(t) ==
  /\ pc[t] = "storePath"
  /\ lockPath' = [lockPath EXCEPT ![ClientOf[t]] = ourPath[t]]
  /\ Goto(t, "storeCount")
  /\ UNCHANGED <<serverVars, lockCount, ourPath, waitVars, userVars>>

StoreCount(t) ==
  /\ pc[t] = "storeCount"
  /\ lockCount' = [lockCount EXCEPT ![ClientOf[t]] = 1]
  /\ hold' = [hold EXCEPT ![t] = @ + 1]
  /\ Return(t)
  /\ UNCHANGED <<serverVars, lockPath, calls, lost>>

-----------------------------------------------------------------------------
(* internalLockLoop                                                         *)

\* The loop condition.  When the client is stopped the call returns false and
\* leaves ourPath to the end of the session.
Loop(t) ==
  /\ pc[t] = "loop"
  /\ \/ started[ClientOf[t]] /\ Goto(t, "list") /\ UNCHANGED <<ourPath, waitVars>>
     \/ ~started[ClientOf[t]] /\ Return(t)
  /\ UNCHANGED <<serverVars, mutexVars, userVars>>

\* getSortedChildren and GetsTheLock.  The inner err variables shadow the
\* result, so a node that is not listed makes the call return false, and
\* nothing is deleted.
List(t) ==
  /\ pc[t] = "list"
  /\ started[ClientOf[t]]
  /\ \/ /\ ~Exists(ourPath[t])
        /\ Return(t)
     \/ /\ Exists(ourPath[t])
        /\ GetsTheLock(ourPath[t])
        /\ Goto(t, "storePath")
        /\ UNCHANGED <<ourPath, waitVars>>
     \/ /\ Exists(ourPath[t])
        /\ ~GetsTheLock(ourPath[t])
        /\ \E n \in nodes :
             /\ IsPathToWatch(ourPath[t], n.seq)
             /\ pathToWatch' = [pathToWatch EXCEPT ![t] = n.seq]
        /\ Goto(t, "watch")
        /\ UNCHANGED <<ourPath, channel, expired>>
  /\ UNCHANGED <<serverVars, mutexVars, userVars>>

\* getSortedChildren fails: the loop is left, the call returns false, and the
\* node stays, because err and doDelete are still unset at the end.
ListFails(t) ==
  /\ "list" \in Faults
  /\ pc[t] = "list"
  /\ started[ClientOf[t]]
  /\ Return(t)
  /\ UNCHANGED <<serverVars, mutexVars, userVars>>

\* GetData with a new watcher on the node before ours.  Its error is ignored:
\* when the node has gone, or the call fails, no watch is set.
Watch(t) ==
  /\ pc[t] = "watch"
  /\ started[ClientOf[t]]
  /\ \/ /\ Exists(pathToWatch[t])
        /\ channel' = [channel EXCEPT ![t] = "watching"]
     \/ /\ ~Exists(pathToWatch[t]) \/ "get" \in Faults
        /\ channel' = [channel EXCEPT ![t] = "none"]
  /\ Goto(t, "select")
  /\ UNCHANGED <<serverVars, mutexVars, ourPath, pathToWatch, expired, userVars>>

\* Mutant of WakeUp: the event is taken for the lock.
WakeUpWithTheLock(t) ==
  /\ pc[t] = "select"
  /\ channel[t] = "fired"
  /\ channel' = [channel EXCEPT ![t] = "none"]
  /\ Goto(t, "storePath")
  /\ UNCHANGED <<serverVars, mutexVars, ourPath, pathToWatch, expired,
                 userVars>>

\* case err := <-c: whatever the event says, the loop goes on.
WakeUp(t) ==
  /\ pc[t] = "select"
  /\ channel[t] = "fired"
  /\ channel' = [channel EXCEPT ![t] = "none"]
  /\ Goto(t, "loop")
  /\ UNCHANGED <<serverVars, mutexVars, ourPath, pathToWatch, expired,
                 userVars>>

\* Mutant of TimerFires: the select has no case for the timer.
NoTimer(t) ==
  /\ pc[t] = "select"
  /\ FALSE
  /\ UNCHANGED vars

\* case <-t.C: the loop goes on as well, with a new channel.
TimerFires(t) ==
  /\ pc[t] = "select"
  /\ expired[t]
  /\ channel' = [channel EXCEPT ![t] = "none"]
  /\ Goto(t, "loop")
  /\ UNCHANGED <<serverVars, mutexVars, ourPath, pathToWatch, expired,
                 userVars>>

\* The time given to AcquireTimeout passes.  Only the select looks at the clock.
Expires(t) ==
  /\ pc[t] = "select"
  /\ ~expired[t]
  /\ expired' = [expired EXCEPT ![t] = TRUE]
  /\ UNCHANGED <<serverVars, mutexVars, pc, ourPath, pathToWatch, channel,
                 userVars>>

-----------------------------------------------------------------------------
(* Release                                                                  *)

\* A goroutine balances each successful Acquire with one Release; the critical
\* section ends with the call.
Release(t) ==
  /\ pc[t] = "idle"
  /\ hold[t] > 0
  /\ hold' = [hold EXCEPT ![t] = @ - 1]
  /\ Goto(t, IF IsAcquiredInThisProcess(ClientOf[t]) THEN "decrement" ELSE "idle")
  /\ UNCHANGED <<serverVars, mutexVars, ourPath, waitVars, calls, lost>>

\* Only the count that reaches zero releases; a negative one is an error.
Decrement(t) ==
  /\ pc[t] = "decrement"
  /\ lockCount' = [lockCount EXCEPT ![ClientOf[t]] = @ - 1]
  /\ Goto(t, IF lockCount[ClientOf[t]] = 1 THEN "readPath" ELSE "idle")
  /\ UNCHANGED <<serverVars, lockPath, ourPath, waitVars, userVars>>

ReadPath(t) ==
  /\ pc[t] = "readPath"
  /\ ourPath' = [ourPath EXCEPT ![t] = lockPath[ClientOf[t]]]
  /\ Goto(t, "delete")
  /\ UNCHANGED <<serverVars, mutexVars, waitVars, userVars>>

\* deleteOurPath; a node that has gone already is no error.
Delete(t) ==
  /\ pc[t] = "delete"
  /\ started[ClientOf[t]]
  /\ Remove({n \in nodes : n.seq = ourPath[t]})
  /\ Goto(t, "idle")
  /\ ourPath' = [ourPath EXCEPT ![t] = 0]
  /\ UNCHANGED <<nextSeq, started, mutexVars, pathToWatch, expired, userVars>>

\* The delete fails without effect; lockCount is zero all the same.  (A delete
\* that takes effect and then reports an error is Delete.)
DeleteFails(t) ==
  /\ "delete" \in Faults
  /\ pc[t] = "delete"
  /\ started[ClientOf[t]]
  /\ Return(t)
  /\ UNCHANGED <<serverVars, mutexVars, userVars>>

-----------------------------------------------------------------------------
(* The session and the framework                                            *)

\* Create, GetChildren, GetData and Delete panic on a stopped client.
Panic(t) ==
  /\ pc[t] \in {"create", "list", "watch", "delete"}
  /\ ~started[ClientOf[t]]
  /\ Goto(t, "panicked")
  /\ UNCHANGED <<serverVars, mutexVars, ourPath, waitVars, userVars>>

\* The session expires; later calls of the client use a new one.
Expire(c) ==
  /\ "expire" \in Faults
  /\ \E n \in nodes : n.client = c
  /\ EndSession(c)
  /\ UNCHANGED <<nextSeq, started, mutexVars, pc, ourPath, pathToWatch, expired,
                 calls, hold>>

\* CuratorFramework.Close.
CloseClient(c) ==
  /\ "close" \in Faults
  /\ started[c]
  /\ started' = [started EXCEPT ![c] = FALSE]
  /\ EndSession(c)
  /\ UNCHANGED <<nextSeq, mutexVars, pc, ourPath, pathToWatch, expired, calls,
                 hold>>

AttemptLock(t) ==
  \/ Create(t) \/ CreateFails(t) \/ Loop(t) \/ List(t) \/ ListFails(t) \/ Watch(t)
  \/ WakeUp(t) \/ TimerFires(t) \/ StorePath(t) \/ StoreCount(t)

ReleaseLock(t) ==
  \/ Decrement(t) \/ ReadPath(t) \/ Delete(t) \/ DeleteFails(t)

Next ==
  \/ \E t \in Threads :
       \/ Acquire(t) \/ Reenter(t) \/ AttemptLock(t) \/ Expires(t)
       \/ Release(t) \/ ReleaseLock(t) \/ Panic(t)
  \/ \E c \in Clients : Expire(c) \/ CloseClient(c)

Spec == Init /\ [][Next]_vars

\* The Go scheduler runs every goroutine that can run, timers fire, and each
\* Acquire is balanced by a Release, as the interface asks of its users.
Fairness ==
  \A t \in Threads :
    /\ WF_vars(Reenter(t) \/ AttemptLock(t) \/ ReleaseLock(t) \/ Panic(t))
    /\ WF_vars(Expires(t))
    /\ WF_vars(Release(t))

FairSpec == Spec /\ Fairness

-----------------------------------------------------------------------------
(* Properties                                                               *)

\* Goroutine t is between a successful Acquire and its Release, and the session
\* it got the lock under is alive.
InCriticalSection(t) == hold[t] > 0 /\ ~lost[t]

\* internalLock returns true to goroutines of two processes only one after the
\* other's Release: "All processes that use the same lock path will achieve an
\* inter-process critical section" (locks.go:108).  A client whose session has
\* ended is excepted: the server has given its lock away.
MutualExclusion ==
  \A t, u \in Threads :
    InCriticalSection(t) /\ InCriticalSection(u) => ClientOf[t] = ClientOf[u]

\* internalLockLoop decides on a list that may be old when it acts on it.  Even
\* so, when a goroutine gets the lock every node still there was requested
\* later: "each user will get the mutex in the order requested" (locks.go:109).
Fair ==
  [][\A t \in Threads :
       pc[t] = "storeCount" /\ pc'[t] = "idle" /\ ~lost[t]
         => \A n \in nodes : n.seq >= ourPath[t]]_vars

\* GetsTheLock gives each waiter a node of its own to watch, so that a Release,
\* or a session that ends, wakes one waiter for each node removed.
NoHerd ==
  \A t, u \in Threads :
    /\ channel[t] = "watching" /\ Exists(ourPath[t])
    /\ channel[u] = "watching" /\ Exists(ourPath[u])
    /\ pathToWatch[t] = pathToWatch[u]
    => t = u

\* A lock node that no call works on and no client takes for its own: what a
\* create whose reply is lost, a failed listing and a failed Release leave behind.
Stray(n) ==
  /\ ~(lockPath[n.client] = n.seq /\ lockCount[n.client] > 0)
  /\ \A t \in Threads :
       pc[t] # "idle" => /\ ourPath[t] # n.seq
                         /\ pc[t] = "readPath" => lockPath[ClientOf[t]] # n.seq

\* "Acquire the mutex - blocking until it's available" (locks.go:17): whatever
\* calls fail, sessions end and clients close, an Acquire or AcquireTimeout returns
\* (a watch set too late is made up for by the timer of the select), unless such a
\* failure left a stray node in front of its own.
AcquireReturns ==
  \A t \in Threads :
    pc[t] = "create" ~> \/ pc[t] \in {"idle", "panicked"}
                        \/ \E n \in Before(ourPath[t]) : Stray(n)
=============================================================================
