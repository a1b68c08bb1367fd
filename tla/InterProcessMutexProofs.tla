---------------------- MODULE InterProcessMutexProofs -----------------------
(***************************************************************************)
(* Mutual exclusion, fairness of the queue and the one-to-one watches of   *)
(* InterProcessMutex, for any number of processes, calls and faults, when  *)
(* each process uses its mutex from one goroutine: the inductive           *)
(* invariant, its part about the server and the types, what a step leaves  *)
(* alone, and the invariant of one goroutine, step by step. Then why the   *)
(* queue moves: no wake-up is missed, no node is left behind, and somebody *)
(* in front of a goroutine that waits does not wait.                       *)
(***************************************************************************)
EXTENDS InterProcessMutex, FiniteSetTheorems, TLAPS

\* Each process uses its mutex from one goroutine.
OneGoroutine == \A t, u \in Threads : ClientOf[t] = ClientOf[u] => t = u

Node(path, c) == [seq |-> path, client |-> c]

\* The node of client c is there and no other is before it.
First(path, c) == Node(path, c) \in nodes /\ \A n \in nodes : n.seq >= path

\* A sequence number names one node.
NodeInv ==
  /\ IsFiniteSet(nodes)
  /\ \A m, n \in nodes : m.seq = n.seq => m = n

\* The count is what the goroutine holds, plus a Release in progress.
CountInv(t) ==
  /\ lockCount[ClientOf[t]] = IF pc[t] = "decrement" THEN hold[t] + 1 ELSE hold[t]
  /\ hold[t] > 0 => pc[t] \in {"idle", "reenter", "decrement"}
  /\ pc[t] = "reenter" => hold[t] > 0

\* The paths a goroutine keeps are of nodes of its own.
OwnInv(t) ==
  \A n \in nodes :
    n.seq = ourPath[t] \/ n.seq = lockPath[ClientOf[t]] => n.client = ClientOf[t]

\* From the moment GetsTheLock says yes, the goroutine's node is the first.
FirstInv(t) ==
  /\ hold[t] > 0 /\ ~lost[t] => First(lockPath[ClientOf[t]], ClientOf[t])
  /\ pc[t] \in {"storePath", "storeCount"} /\ ~lost[t]
       => First(ourPath[t], ClientOf[t])
  /\ pc[t] = "storeCount" => lockPath[ClientOf[t]] = ourPath[t]

\* A goroutine waits for the node just before its own.
WatchInv(t) ==
  /\ pc[t] \in {"watch", "select"} =>
       /\ pathToWatch[t] < ourPath[t]
       /\ \A n \in nodes : n.seq <= pathToWatch[t] \/ n.seq >= ourPath[t]
  /\ channel[t] = "watching" => pc[t] = "select"

ThreadInv(t) == CountInv(t) /\ OwnInv(t) /\ FirstInv(t) /\ WatchInv(t)

IInv == TypeOK /\ NodeInv /\ \A t \in Threads : ThreadInv(t)

-----------------------------------------------------------------------------
(* The server                                                               *)

\* A step removes nodes, or adds one with the next number.
LEMMA NodesFrame ==
  ASSUME TypeOK, [Next]_vars
  PROVE  \/ nodes' \subseteq nodes /\ nextSeq' = nextSeq
         \/ \E t \in Threads : /\ nodes' = nodes \cup {Node(nextSeq, ClientOf[t])}
                               /\ nextSeq' = nextSeq + 1
<1>1. ASSUME NEW t \in Threads, Create(t) \/ CreateFails(t)
      PROVE  \/ nodes' \subseteq nodes /\ nextSeq' = nextSeq
             \/ /\ nodes' = nodes \cup {Node(nextSeq, ClientOf[t])}
                /\ nextSeq' = nextSeq + 1
  BY <1>1 DEF Create, CreateFails, NewNode, Node
<1>2. ASSUME NEW t \in Threads, Delete(t)
      PROVE  nodes' \subseteq nodes /\ nextSeq' = nextSeq
  BY <1>2 DEF Delete, Remove
<1>3. ASSUME NEW c \in Clients, Expire(c) \/ CloseClient(c)
      PROVE  nodes' \subseteq nodes /\ nextSeq' = nextSeq
  BY <1>3 DEF Expire, CloseClient, EndSession
<1>4. CASE UNCHANGED <<nodes, nextSeq>>
  BY <1>4
<1>5. \/ \E t \in Threads : Create(t) \/ CreateFails(t) \/ Delete(t)
      \/ \E c \in Clients : Expire(c) \/ CloseClient(c)
      \/ UNCHANGED <<nodes, nextSeq>>
  <2>1. ASSUME NEW t \in Threads,
               Acquire(t) \/ Reenter(t) \/ Expires(t) \/ Release(t) \/ Panic(t)
        PROVE  UNCHANGED <<nodes, nextSeq>>
    BY <2>1 DEF Acquire, Reenter, Expires, Release, Panic, serverVars
  <2>2. ASSUME NEW t \in Threads, AttemptLock(t)
        PROVE  Create(t) \/ CreateFails(t) \/ UNCHANGED <<nodes, nextSeq>>
    BY <2>2 DEF AttemptLock, Loop, List, ListFails, Watch, WakeUp, TimerFires,
                StorePath, StoreCount, serverVars
  <2>3. ASSUME NEW t \in Threads, ReleaseLock(t)
        PROVE  Delete(t) \/ UNCHANGED <<nodes, nextSeq>>
    BY <2>3 DEF ReleaseLock, Decrement, ReadPath, DeleteFails, serverVars
  <2>4. CASE UNCHANGED vars
    BY <2>4 DEF vars, serverVars
  <2> QED BY Zenon, <2>1, <2>2, <2>3, <2>4 DEF Next
<1> QED
  BY <1>1, <1>2, <1>3, <1>4, <1>5

LEMMA NodeStep == TypeOK /\ NodeInv /\ [Next]_vars => NodeInv'
<1> SUFFICES ASSUME TypeOK, NodeInv, [Next]_vars
             PROVE  NodeInv'
  OBVIOUS
<1>1. CASE nodes' \subseteq nodes
  BY <1>1, FS_Subset DEF NodeInv
<1>2. ASSUME NEW t \in Threads, nodes' = nodes \cup {Node(nextSeq, ClientOf[t])}
      PROVE  NodeInv'
  <2>1. IsFiniteSet(nodes')
    BY <1>2, FS_AddElement DEF NodeInv
  <2>2. \A n \in nodes : n.seq < nextSeq
    BY DEF TypeOK
  <2>3. Node(nextSeq, ClientOf[t]).seq = nextSeq /\ nextSeq \in Nat
    BY DEF Node, TypeOK
  <2>4. \A n \in nodes : n.seq \in Nat
    BY DEF TypeOK
  <2>5. \A m, n \in nodes' : m.seq = n.seq => m = n
    BY <1>2, <2>2, <2>3, <2>4 DEF NodeInv
  <2> QED
    BY <2>1, <2>5 DEF NodeInv
<1> QED
  BY <1>1, <1>2, NodesFrame

-----------------------------------------------------------------------------
(* Types                                                                    *)

LEMMA PathsGrow ==
  ASSUME NEW a \in Nat \ {0}, NEW b \in Nat, a <= b
  PROVE  0 .. a - 1 \subseteq 0 .. b - 1 /\ 0 \in 0 .. b - 1
OBVIOUS

LEMMA TypeStep == TypeOK /\ [Next]_vars => TypeOK'
<1> SUFFICES ASSUME TypeOK, [Next]_vars
             PROVE  TypeOK'
  OBVIOUS
<1> USE MutexAssumption
<1>1. nodes' \subseteq [seq : 1 .. nextSeq' - 1, client : Clients]
  <2>1. CASE nodes' \subseteq nodes /\ nextSeq' = nextSeq
    BY <2>1 DEF TypeOK
  <2>2. ASSUME NEW t \in Threads, nodes' = nodes \cup {Node(nextSeq, ClientOf[t])},
               nextSeq' = nextSeq + 1
        PROVE  nodes' \subseteq [seq : 1 .. nextSeq' - 1, client : Clients]
    <3>1. \A n \in nodes : n \in [seq : 1 .. nextSeq' - 1, client : Clients]
      BY <2>2 DEF TypeOK
    <3>2. Node(nextSeq, ClientOf[t]) \in [seq : 1 .. nextSeq' - 1, client : Clients]
      BY <2>2 DEF TypeOK, Node
    <3> QED
      BY <2>2, <3>1, <3>2
  <2> QED
    BY <2>1, <2>2, NodesFrame
<1>2. nextSeq' \in Nat \ {0} /\ nextSeq <= nextSeq'
  BY NodesFrame DEF TypeOK
<1>3. 0 .. nextSeq - 1 \subseteq 0 .. nextSeq' - 1 /\ 0 \in 0 .. nextSeq' - 1
  <2>1. nextSeq \in Nat \ {0} /\ nextSeq' \in Nat
    BY <1>2 DEF TypeOK
  <2> QED
    BY Zenon, <1>2, <2>1, PathsGrow
<1> DEFINE Rest == /\ started' \in [Clients -> BOOLEAN]
                   /\ lockPath' \in [Clients -> 0 .. nextSeq' - 1]
                   /\ lockCount' \in [Clients -> Int]
                   /\ pc' \in [Threads -> {"idle", "reenter", "create", "loop",
                         "list", "watch", "select", "storePath", "storeCount",
                         "decrement", "readPath", "delete", "panicked"}]
                   /\ ourPath' \in [Threads -> 0 .. nextSeq' - 1]
                   /\ pathToWatch' \in [Threads -> 0 .. nextSeq' - 1]
                   /\ channel' \in [Threads -> {"none", "watching", "fired"}]
                   /\ expired' \in [Threads -> BOOLEAN]
                   /\ calls' \in [Threads -> 0 .. MaxCalls]
                   /\ hold' \in [Threads -> Nat]
                   /\ lost' \in [Threads -> BOOLEAN]
<1>4. Rest
  <2> USE <1>2, <1>3 DEF TypeOK, serverVars, mutexVars, waitVars, userVars, Goto, Return
  <2>0. ASSUME NEW t \in Threads, Return(t)
        PROVE  /\ pc' = [pc EXCEPT ![t] = "idle"]
               /\ ourPath' \in [Threads -> 0 .. nextSeq' - 1]
               /\ pathToWatch' \in [Threads -> 0 .. nextSeq' - 1]
               /\ channel' \in [Threads -> {"none", "watching", "fired"}]
               /\ expired' \in [Threads -> BOOLEAN]
    <3>1. /\ pc' = [pc EXCEPT ![t] = "idle"]
          /\ channel' \in [Threads -> {"none", "watching", "fired"}]
          /\ expired' \in [Threads -> BOOLEAN]
      BY <2>0
    <3>2. /\ ourPath' \in [Threads -> 0 .. nextSeq' - 1]
          /\ pathToWatch' \in [Threads -> 0 .. nextSeq' - 1]
      BY Zenon, <2>0, <1>3
    <3> QED
      BY Zenon, <3>1, <3>2
  <2> HIDE DEF Return
  <2>1. ASSUME NEW t \in Threads, Acquire(t)
        PROVE  Rest
    BY <2>1 DEF Acquire
  <2>2. ASSUME NEW t \in Threads, Reenter(t)
        PROVE  Rest
    BY <2>0, <2>2 DEF Reenter
  <2>3. ASSUME NEW t \in Threads, Create(t)
        PROVE  Rest
    BY <2>3 DEF Create, NewNode
  <2>4. ASSUME NEW t \in Threads, CreateFails(t)
        PROVE  Rest
    BY <2>0, <2>4 DEF CreateFails
  <2>5. ASSUME NEW t \in Threads, Loop(t)
        PROVE  Rest
    <3>1. CASE Return(t)
      BY <2>0, <2>5, <3>1 DEF Loop
    <3>2. CASE Goto(t, "list") /\ UNCHANGED <<ourPath, waitVars>>
      BY <2>5, <3>2 DEF Loop
    <3> QED
      BY <2>5, <3>1, <3>2 DEF Loop
  <2>6. ASSUME NEW t \in Threads, List(t)
        PROVE  Rest
    <3>1. CASE Return(t)
      BY <2>0, <2>6, <3>1 DEF List
    <3>2. CASE Goto(t, "storePath") /\ UNCHANGED <<ourPath, waitVars>>
      BY <2>6, <3>2 DEF List
    <3>3. ASSUME NEW n \in nodes,
                 pathToWatch' = [pathToWatch EXCEPT ![t] = n.seq],
                 Goto(t, "watch"), UNCHANGED <<ourPath, channel, expired>>
          PROVE  Rest
      <4>1. n.seq \in 0 .. nextSeq' - 1
        BY <1>3
      <4> QED
        BY <2>6, <3>3, <4>1 DEF List
    <3> QED
      BY <2>6, <3>1, <3>2, <3>3 DEF List
  <2>7. ASSUME NEW t \in Threads, ListFails(t) \/ DeleteFails(t)
        PROVE  Rest
    BY <2>0, <2>7 DEF ListFails, DeleteFails
  <2>8. ASSUME NEW t \in Threads, Watch(t)
        PROVE  Rest
    BY <2>8 DEF Watch
  <2>9. ASSUME NEW t \in Threads, WakeUp(t) \/ TimerFires(t) \/ Expires(t)
        PROVE  Rest
    BY Zenon, <2>9 DEF WakeUp, TimerFires, Expires
  <2>10. ASSUME NEW t \in Threads, StorePath(t)
        PROVE  Rest
    BY <2>10 DEF StorePath
  <2>11. ASSUME NEW t \in Threads, StoreCount(t)
        PROVE  Rest
    BY <2>0, <2>11 DEF StoreCount
  <2>12. ASSUME NEW t \in Threads, Release(t)
        PROVE  Rest
    BY <2>12 DEF Release
  <2>13. ASSUME NEW t \in Threads, Decrement(t)
        PROVE  Rest
    BY <2>13 DEF Decrement
  <2>14. ASSUME NEW t \in Threads, ReadPath(t) \/ Panic(t)
        PROVE  Rest
    BY <2>14 DEF ReadPath, Panic
  <2>15. ASSUME NEW t \in Threads, Delete(t)
        PROVE  Rest
    BY <2>15 DEF Delete, Remove
  <2>16. ASSUME NEW c \in Clients, Expire(c)
        PROVE  Rest
    BY <2>16 DEF Expire, EndSession
  <2>17. ASSUME NEW c \in Clients, CloseClient(c)
        PROVE  Rest
    BY <2>17 DEF CloseClient, EndSession
  <2>18. CASE UNCHANGED vars
    BY <2>18 DEF vars
  <2> QED
    BY Zenon, <2>1, <2>2, <2>3, <2>4, <2>5, <2>6, <2>7, <2>8, <2>9, <2>10, <2>11,
       <2>12, <2>13, <2>14, <2>15, <2>16, <2>17, <2>18 DEF Next, AttemptLock, ReleaseLock
<1> QED
  BY <1>1, <1>2, <1>4 DEF TypeOK

-----------------------------------------------------------------------------
(* One goroutine's view of a step                                           *)

\* The steps of goroutine t, and what t sees of any other step.
StepOf(t) ==
  \/ Acquire(t) \/ Reenter(t) \/ AttemptLock(t) \/ Expires(t)
  \/ Release(t) \/ ReleaseLock(t) \/ Panic(t)

Untouched(t) ==
  /\ pc'[t] = pc[t] /\ hold'[t] = hold[t]
  /\ ourPath'[t] = ourPath[t] /\ pathToWatch'[t] = pathToWatch[t]
  /\ lockPath'[ClientOf[t]] = lockPath[ClientOf[t]]
  /\ lockCount'[ClientOf[t]] = lockCount[ClientOf[t]]
  /\ channel'[t] = channel[t] \/ channel'[t] = "fired"
  /\ \/ lost'[t]
     \/ /\ lost'[t] = lost[t]
        /\ \A n \in nodes : n.client = ClientOf[t] => n \in nodes'

LEMMA StepOrUntouched ==
  ASSUME OneGoroutine, IInv, [Next]_vars, NEW t \in Threads
  PROVE  StepOf(t) \/ Untouched(t)
<1>1. TypeOK
  BY Zenon DEF IInv
<1> USE MutexAssumption
<1>2. ASSUME NEW u \in Threads, u # t, StepOf(u)
      PROVE  Untouched(t)
  <2>1. ClientOf[u] # ClientOf[t] /\ ClientOf[u] \in Clients /\ ClientOf[t] \in Clients
    BY <1>2 DEF OneGoroutine
  <2> USE <1>1, <1>2, <2>1 DEF TypeOK, serverVars, mutexVars, waitVars, userVars,
                               Goto, Return, Untouched
  <2>2. CASE Acquire(u) \/ Release(u)
    BY <2>2 DEF Acquire, Release
  <2>3. CASE Reenter(u) \/ StoreCount(u)
    BY <2>3 DEF Reenter, StoreCount
  <2>4. CASE Create(u)
    BY <2>4, Zenon DEF Create, NewNode
  <2>5. CASE CreateFails(u)
    BY <2>5 DEF CreateFails, NewNode
  <2>6. CASE Loop(u)
    BY <2>6 DEF Loop
  <2>7. CASE List(u)
    BY <2>7 DEF List
  <2>8. CASE ListFails(u) \/ DeleteFails(u)
    BY <2>8 DEF ListFails, DeleteFails
  <2>9. CASE Watch(u)
    BY <2>9 DEF Watch
  <2>10. CASE WakeUp(u) \/ TimerFires(u) \/ Expires(u)
    BY <2>10 DEF WakeUp, TimerFires, Expires
  <2>11. CASE StorePath(u)
    BY <2>11 DEF StorePath
  <2>12. CASE Decrement(u)
    BY <2>12 DEF Decrement
  <2>13. CASE ReadPath(u) \/ Panic(u)
    BY <2>13 DEF ReadPath, Panic
  <2>14. CASE Delete(u)
    <3>1. \A n \in nodes : n.client = ClientOf[t] => n.seq # ourPath[u]
      BY DEF IInv, ThreadInv, OwnInv
    <3> QED
      BY <2>14, <3>1 DEF Delete, Remove
  <2> QED
    BY Zenon, <2>2, <2>3, <2>4, <2>5, <2>6, <2>7, <2>8, <2>9, <2>10, <2>11, <2>12,
       <2>13, <2>14 DEF StepOf, AttemptLock, ReleaseLock
<1>3. ASSUME NEW c \in Clients, Expire(c) \/ CloseClient(c)
      PROVE  Untouched(t)
  <2>1. CASE ClientOf[t] = c
    BY <1>1, <1>3, <2>1, ZenonT(30)
       DEF Expire, CloseClient, EndSession, Untouched, TypeOK, mutexVars
  <2>2. CASE ClientOf[t] # c
    <3>1. EndSession(c) /\ UNCHANGED <<mutexVars, pc, ourPath, pathToWatch, hold>>
      BY <1>3 DEF Expire, CloseClient
    <3>2. channel'[t] = channel[t] \/ channel'[t] = "fired"
      BY <3>1 DEF EndSession
    <3>3. lost'[t] = lost[t]
      BY <1>1, <2>2, <3>1 DEF EndSession, TypeOK
    <3>4. \A n \in nodes : n.client = ClientOf[t] => n \in nodes'
      BY <2>2, <3>1 DEF EndSession
    <3> QED BY Zenon, <3>1, <3>2, <3>3, <3>4 DEF Untouched, mutexVars
  <2> QED
    BY <2>1, <2>2
<1>4. CASE UNCHANGED vars
  BY <1>4 DEF vars, serverVars, mutexVars, waitVars, userVars, Untouched
<1> QED
  BY <1>2, <1>3, <1>4 DEF Next, StepOf

\* Numbers already given out are below the next one.
LEMMA NodesAfter ==
  ASSUME TypeOK, [Next]_vars
  PROVE  /\ \A n \in nodes' : n \in nodes \/ n.seq = nextSeq
         /\ \A n \in nodes : n.seq \in Nat /\ n.seq < nextSeq
         /\ nextSeq \in Nat
<1>1. \A n \in nodes' : n \in nodes \/ n.seq = nextSeq
  BY NodesFrame DEF Node
<1> QED
  BY <1>1 DEF TypeOK

LEMMA BelowNext ==
  ASSUME NEW next \in Nat, NEW path \in 0 .. next - 1
  PROVE  path # next /\ next >= path
OBVIOUS

-----------------------------------------------------------------------------
(* The invariant of one goroutine, step by step                             *)

LEMMA UntouchedInv ==
  ASSUME IInv, [Next]_vars, NEW t \in Threads, Untouched(t)
  PROVE  ThreadInv(t)'
<1> USE MutexAssumption
<1>1. /\ ThreadInv(t) /\ TypeOK /\ ClientOf[t] \in Clients
      /\ ourPath[t] \in 0 .. nextSeq - 1 /\ pathToWatch[t] \in 0 .. nextSeq - 1
      /\ lockPath[ClientOf[t]] \in 0 .. nextSeq - 1
  BY DEF IInv, TypeOK
<1>2. /\ \A n \in nodes' : n \in nodes \/ n.seq = nextSeq
      /\ \A n \in nodes : n.seq \in Nat /\ n.seq < nextSeq
      /\ nextSeq \in Nat
  BY <1>1, NodesAfter
<1>3. CountInv(t)'
  BY Zenon, <1>1 DEF ThreadInv, CountInv, Untouched
<1>4. OwnInv(t)'
  <2>1. OwnInv(t)
    BY <1>1 DEF ThreadInv
  <2>2. ourPath[t] # nextSeq /\ lockPath[ClientOf[t]] # nextSeq
    BY <1>1, <1>2, BelowNext
  <2> QED BY Zenon, <1>2, <2>1, <2>2 DEF OwnInv, Untouched
<1>5. FirstInv(t)'
  <2>1. ASSUME NEW path \in {ourPath[t], lockPath[ClientOf[t]]},
               ~lost'[t], First(path, ClientOf[t])
        PROVE  First(path, ClientOf[t])'
    <3>1. Node(path, ClientOf[t]) \in nodes'
      BY <2>1 DEF First, Node, Untouched
    <3>2. nextSeq >= path
      BY <1>1, <1>2, BelowNext
    <3> QED BY <1>2, <2>1, <3>1, <3>2 DEF First
  <2>2. FirstInv(t)
    BY <1>1 DEF ThreadInv
  <2>3. ~lost'[t] => ~lost[t]
    BY DEF Untouched
  <2> QED BY Zenon, <2>1, <2>2, <2>3 DEF FirstInv, First, Untouched
<1>6. WatchInv(t)'
  <2>1. WatchInv(t)
    BY <1>1 DEF ThreadInv
  <2>2. \A n \in nodes' : n \in nodes \/ n.seq >= ourPath[t]
    BY <1>1, <1>2, BelowNext
  <2> QED BY <2>1, <2>2 DEF WatchInv, Untouched
<1> QED
  BY <1>3, <1>4, <1>5, <1>6 DEF ThreadInv

\* List finds the goroutine's node at the front, or the node just before it.
LEMMA ListChoice ==
  ASSUME TypeOK, NodeInv, NEW t \in Threads, OwnInv(t), Exists(ourPath[t])
  PROVE  /\ GetsTheLock(ourPath[t]) => First(ourPath[t], ClientOf[t])
         /\ \A m \in nodes : IsPathToWatch(ourPath[t], m.seq) =>
              /\ m.seq < ourPath[t]
              /\ \A n \in nodes : n.seq <= m.seq \/ n.seq >= ourPath[t]
<1> DEFINE p == ourPath[t]
<1>1. p \in Int /\ \A n \in nodes : n.seq \in Int
  BY DEF TypeOK
<1>2. IsFiniteSet(Before(p))
  BY FS_Subset DEF NodeInv, Before
<1>3. PICK own \in nodes : own.seq = p
  BY DEF Exists
<1>4. own = Node(p, ClientOf[t])
  BY <1>3 DEF OwnInv, Node, TypeOK
<1>5. ASSUME GetsTheLock(p)
      PROVE  First(p, ClientOf[t])
  <2>1. Cardinality(Before(p)) \in Nat /\ Cardinality(Before(p)) < 1
    BY <1>2, <1>5, FS_CardinalityType DEF GetsTheLock, maxLeases
  <2>2. Cardinality(Before(p)) = 0
    BY <2>1
  <2>3. Before(p) = {}
    BY <1>2, <2>2, FS_EmptySet
  <2> QED
    BY <1>1, <1>3, <1>4, <2>3 DEF First, Before
<1>6. ASSUME NEW m \in nodes, IsPathToWatch(p, m.seq)
      PROVE  m.seq < p /\ \A n \in nodes : n.seq <= m.seq \/ n.seq >= p
  <2> DEFINE S == Before(p) \ Before(m.seq)
  <2>1. m.seq < p /\ Cardinality(S) = 1
    BY <1>6 DEF IsPathToWatch, maxLeases
  <2>2. IsFiniteSet(S)
    BY <1>2, FS_Subset
  <2>3. PICK x : S = {x}
    BY Zenon, <2>1, <2>2, FS_Singleton
  <2>4. m \in S
    <3>1. m \in Before(p)
      BY <2>1 DEF Before
    <3>2. m.seq \in Int /\ ~(m.seq < m.seq)
      BY <1>1
    <3>3. m \notin Before(m.seq)
      BY <3>2 DEF Before
    <3> QED
      BY <3>1, <3>3
  <2>5. ASSUME NEW n \in nodes, n.seq > m.seq, n.seq < p
        PROVE  FALSE
    <3>1. n \in S
      BY <1>1, <2>5 DEF Before
    <3> QED
      BY <1>1, <2>3, <2>4, <2>5, <3>1
  <2> QED
    BY <1>1, <2>1, <2>5
<1> QED
  BY <1>5, <1>6

\* The functions a step of goroutine t updates, and their domains.
Domains(t) ==
  /\ ClientOf[t] \in Clients
  /\ DOMAIN pc = Threads /\ DOMAIN ourPath = Threads
  /\ DOMAIN pathToWatch = Threads /\ DOMAIN channel = Threads
  /\ DOMAIN hold = Threads /\ DOMAIN lost = Threads
  /\ DOMAIN lockPath = Clients /\ DOMAIN lockCount = Clients

\* The numbers of the goroutine and of the nodes.
Numbers(t) ==
  /\ hold[t] \in Nat /\ lockCount[ClientOf[t]] \in Int
  /\ \A n \in nodes : n.seq # 0

LEMMA StepTyping ==
  ASSUME TypeOK, NEW t \in Threads
  PROVE  Domains(t) /\ Numbers(t)
<1>1. ClientOf[t] \in Clients
  BY MutexAssumption
<1>2. Domains(t)
  BY <1>1 DEF TypeOK, Domains
<1>3. hold[t] \in Nat /\ lockCount[ClientOf[t]] \in Int
  BY <1>1 DEF TypeOK
<1>4. \A n \in nodes : n.seq # 0
  BY DEF TypeOK
<1> QED
  BY <1>2, <1>3, <1>4 DEF Numbers

LEMMA CountDown ==
  ASSUME NEW n \in Nat
  PROVE  (n + 1) - 1 = n /\ (n - 1) + 1 = n /\ (n > 0 => n + 1 # 1)
OBVIOUS

\* A step of t that neither takes nor gives up the lock.
Kept(t) ==
  /\ nodes' = nodes /\ hold'[t] = hold[t] /\ lost'[t] = lost[t]
  /\ lockPath'[ClientOf[t]] = lockPath[ClientOf[t]]
  /\ lockCount'[ClientOf[t]] = lockCount[ClientOf[t]]
  /\ pc[t] # "decrement"
  /\ pc'[t] \notin {"decrement", "storeCount"}
  /\ ourPath'[t] \in {ourPath[t], 0, lockPath[ClientOf[t]]}

LEMMA KeptInv ==
  ASSUME NEW t \in Threads, ThreadInv(t), Numbers(t), Kept(t),
         hold[t] > 0 => pc'[t] \in {"idle", "reenter"},
         pc'[t] = "reenter" => hold[t] > 0,
         pc'[t] = "storePath" => First(ourPath[t], ClientOf[t]) /\ ourPath'[t] = ourPath[t],
         WatchInv(t)'
  PROVE  ThreadInv(t)'
<1>1. CountInv(t)'
  BY Zenon DEF ThreadInv, CountInv, Kept
<1>2. OwnInv(t)'
  <2>1. OwnInv(t) /\ \A n \in nodes : n.seq # 0
    BY Zenon DEF ThreadInv, Numbers
  <2> QED BY Zenon, <2>1 DEF OwnInv, Kept
<1>3. FirstInv(t)'
  BY Zenon DEF ThreadInv, FirstInv, First, Kept
<1> QED
  BY <1>1, <1>2, <1>3 DEF ThreadInv

\* The call returns, or goes on to a place where it has no lock and no watch.
LEMMA RestInv ==
  ASSUME NEW t \in Threads, ThreadInv(t), Numbers(t), Kept(t),
         pc'[t] \in {"idle", "create", "loop", "list", "delete", "panicked"},
         hold[t] > 0 => pc'[t] = "idle",
         channel'[t] # "watching"
  PROVE  ThreadInv(t)'
<1>1. WatchInv(t)'
  BY DEF WatchInv
<1> QED
  BY <1>1, KeptInv

\* The goroutine is inside a call that has not the lock.
LEMMA Outside ==
  ASSUME NEW t \in Threads, ThreadInv(t), Numbers(t),
         pc[t] \notin {"idle", "reenter", "decrement"}
  PROVE  ~(hold[t] > 0) /\ hold[t] = 0 /\ lockCount[ClientOf[t]] = 0
<1>1. hold[t] \in Nat
  BY DEF Numbers
<1>2. ~(hold[t] > 0) /\ lockCount[ClientOf[t]] = hold[t]
  BY DEF ThreadInv, CountInv
<1> QED BY <1>1, <1>2

\* No watch is open outside the select.
LEMMA NoWatch ==
  ASSUME NEW t \in Threads, ThreadInv(t), pc[t] # "select"
  PROVE  channel[t] # "watching"
BY DEF ThreadInv, WatchInv

\* Acquire, up to the node.
LEMMA AcquireInv ==
  ASSUME IInv, [Next]_vars, NEW t \in Threads,
         Acquire(t) \/ Create(t) \/ CreateFails(t)
  PROVE  ThreadInv(t)'
<1>1. ThreadInv(t) /\ Domains(t) /\ Numbers(t)
  BY StepTyping DEF IInv
<1>2. CASE Acquire(t)
  <2>1. /\ pc[t] = "idle" /\ channel' = channel /\ ourPath' = ourPath
        /\ pc'[t] = IF lockCount[ClientOf[t]] > 0 THEN "reenter" ELSE "create"
    BY <1>1, <1>2 DEF Domains, Acquire, Goto, IsAcquiredInThisProcess
  <2>2. Kept(t)
    BY Zenon, <1>2, <2>1 DEF Kept, Acquire, serverVars, mutexVars
  <2>3. lockCount[ClientOf[t]] = hold[t]
    BY Zenon, <1>1, <2>1 DEF ThreadInv, CountInv
  <2>4. WatchInv(t)'
    BY Zenon, <1>1, <2>1, NoWatch DEF WatchInv
  <2> QED
    BY Zenon, <1>1, <2>1, <2>2, <2>3, <2>4, KeptInv
<1>3. CASE Create(t) \/ CreateFails(t)
  <2>1. /\ pc[t] = "create" /\ pc'[t] \in {"loop", "idle"}
        /\ hold' = hold /\ lockCount' = lockCount /\ lockPath' = lockPath
        /\ ourPath'[t] \in {0, nextSeq}
    BY Zenon, <1>1, <1>3 DEF Domains, Create, CreateFails, Goto, Return, mutexVars,
       userVars
  <2>2. channel'[t] # "watching"
    BY Zenon, <1>1, <1>3, <2>1, NoWatch
       DEF Domains, Create, CreateFails, Return, waitVars
  <2>3. ~(hold[t] > 0)
    BY <1>1, <2>1, Outside
  <2>4. \A n \in nodes' : n \in nodes \/ n = Node(nextSeq, ClientOf[t])
    BY Zenon, <1>3 DEF Create, CreateFails, NewNode, Node
  <2>5. /\ \A n \in nodes : n.seq \in Nat /\ n.seq < nextSeq
        /\ nextSeq \in Nat
    BY NodesAfter DEF IInv
  <2>6. CountInv(t)'
    BY Zenon, <1>1, <2>1 DEF ThreadInv, CountInv
  <2>7. OwnInv(t)'
    <3>1. OwnInv(t) /\ \A n \in nodes : n.seq # 0
      BY Zenon, <1>1 DEF ThreadInv, Numbers
    <3>2. \A n \in nodes : n.seq # nextSeq
      BY <2>5
    <3>3. ASSUME NEW n \in nodes',
                 n.seq = ourPath'[t] \/ n.seq = lockPath'[ClientOf[t]]
          PROVE  n.client = ClientOf[t]
      <4>1. CASE n \in nodes
        BY <2>1, <3>1, <3>2, <3>3, <4>1 DEF OwnInv
      <4>2. CASE n = Node(nextSeq, ClientOf[t])
        BY <4>2 DEF Node
      <4> QED BY <2>4, <4>1, <4>2
    <3> QED BY <3>3 DEF OwnInv
  <2>8. FirstInv(t)'
    BY <2>1, <2>3 DEF FirstInv
  <2>9. WatchInv(t)'
    BY <2>1, <2>2 DEF WatchInv
  <2> QED
    BY <2>6, <2>7, <2>8, <2>9 DEF ThreadInv
<1> QED
  BY <1>2, <1>3

\* The goroutine takes the lock.
LEMMA TakeInv ==
  ASSUME IInv, NEW t \in Threads, StorePath(t) \/ StoreCount(t) \/ Reenter(t)
  PROVE  ThreadInv(t)'
<1>1. ThreadInv(t) /\ Domains(t) /\ Numbers(t)
  BY StepTyping DEF IInv
<1>2. CASE StorePath(t)
  <2>1. /\ pc[t] = "storePath" /\ pc'[t] = "storeCount" /\ channel' = channel
        /\ hold' = hold /\ lockCount' = lockCount /\ ourPath' = ourPath
        /\ lockPath'[ClientOf[t]] = ourPath[t] /\ nodes' = nodes /\ lost' = lost
    BY Zenon, <1>1, <1>2
       DEF Domains, StorePath, Goto, serverVars, mutexVars, waitVars, userVars
  <2>2. CountInv(t)'
    BY Zenon, <1>1, <2>1 DEF ThreadInv, CountInv
  <2>3. OwnInv(t)'
    BY <1>1, <2>1 DEF ThreadInv, OwnInv
  <2>4. FirstInv(t)'
    BY Zenon, <1>1, <2>1, Outside DEF ThreadInv, FirstInv, First
  <2>5. WatchInv(t)'
    BY Zenon, <1>1, <2>1, NoWatch DEF WatchInv
  <2> QED
    BY <2>2, <2>3, <2>4, <2>5 DEF ThreadInv
<1>3. CASE StoreCount(t) \/ Reenter(t)
  <2>1. /\ pc[t] \in {"storeCount", "reenter"} /\ pc'[t] = "idle"
        /\ hold'[t] = hold[t] + 1 /\ ourPath'[t] = 0 /\ channel'[t] = "none"
        /\ lockPath' = lockPath /\ nodes' = nodes /\ lost' = lost
    BY Zenon, <1>1, <1>3 DEF Domains, StoreCount, Reenter, Goto, Return, serverVars
  <2>2. lockCount'[ClientOf[t]] = hold[t] + 1
    <3>1. CASE StoreCount(t)
      <4>1. lockCount'[ClientOf[t]] = 1 /\ pc[t] = "storeCount"
        BY Zenon, <1>1, <3>1 DEF Domains, StoreCount
      <4> QED
        BY <1>1, <4>1, Outside
    <3>2. CASE Reenter(t)
      <4>1. lockCount'[ClientOf[t]] = lockCount[ClientOf[t]] + 1 /\ pc[t] = "reenter"
        BY Zenon, <1>1, <3>2 DEF Domains, Reenter
      <4> QED
        BY <1>1, <4>1 DEF ThreadInv, CountInv
    <3> QED
      BY <1>3, <3>1, <3>2
  <2>3. CountInv(t)'
    BY Zenon, <2>1, <2>2 DEF CountInv
  <2>4. OwnInv(t)'
    <3>1. \A n \in nodes : n.seq # 0
      BY Zenon, <1>1 DEF Numbers
    <3> QED BY Zenon, <1>1, <2>1, <3>1 DEF ThreadInv, OwnInv
  <2>5. FirstInv(t)'
    <3>1. lost'[t] \/ First(lockPath[ClientOf[t]], ClientOf[t])
      BY Zenon, <1>1, <2>1 DEF ThreadInv, FirstInv, CountInv
    <3> QED
      BY Zenon, <2>1, <3>1 DEF FirstInv, First
  <2>6. WatchInv(t)'
    BY <2>1 DEF WatchInv
  <2> QED
    BY <2>3, <2>4, <2>5, <2>6 DEF ThreadInv
<1> QED
  BY <1>2, <1>3

\* internalLockLoop.
LEMMA LoopInv ==
  ASSUME IInv, NEW t \in Threads,
         \/ Loop(t) \/ List(t) \/ ListFails(t) \/ Watch(t)
         \/ WakeUp(t) \/ TimerFires(t) \/ Expires(t)
  PROVE  ThreadInv(t)'
<1>1. ThreadInv(t) /\ Domains(t) /\ Numbers(t)
  BY StepTyping DEF IInv
<1>2. /\ pc[t] \in {"loop", "list", "watch", "select"}
      /\ UNCHANGED <<serverVars, mutexVars, userVars>>
  BY Zenon DEF Loop, List, ListFails, Watch, WakeUp, TimerFires, Expires
<1>3. /\ ~(hold[t] > 0) /\ nodes' = nodes /\ hold' = hold /\ lost' = lost
      /\ lockPath' = lockPath /\ lockCount' = lockCount
  BY <1>1, <1>2, Outside DEF serverVars, mutexVars, userVars
<1>4. ASSUME Return(t)
      PROVE  ThreadInv(t)'
  <2>1. pc'[t] = "idle" /\ ourPath'[t] = 0 /\ channel'[t] = "none"
    BY Zenon, <1>1, <1>4 DEF Domains, Return, Goto
  <2>2. Kept(t)
    BY Zenon, <1>2, <1>3, <2>1 DEF Kept
  <2> QED
    BY <1>1, <2>1, <2>2, RestInv
<1>5. CASE Loop(t)
  <2>1. CASE Return(t)
    BY <1>4, <2>1
  <2>2. CASE Goto(t, "list") /\ UNCHANGED <<ourPath, waitVars>>
    <3>1. /\ pc[t] = "loop" /\ pc'[t] = "list" /\ ourPath' = ourPath
          /\ channel' = channel
      BY Zenon, <1>1, <1>5, <2>2 DEF Domains, Loop, Goto, waitVars
    <3>2. Kept(t)
      BY Zenon, <1>3, <3>1 DEF Kept
    <3>3. channel'[t] # "watching"
      BY <1>1, <3>1, NoWatch
    <3> QED
      BY Zenon, <1>1, <1>3, <3>1, <3>2, <3>3, RestInv
  <2> QED
    BY Zenon, <1>5, <2>1, <2>2 DEF Loop
<1>6. CASE List(t)
  <2>1. CASE Return(t)
    BY <1>4, <2>1
  <2>2. CASE /\ Exists(ourPath[t]) /\ GetsTheLock(ourPath[t])
             /\ Goto(t, "storePath") /\ UNCHANGED <<ourPath, waitVars>>
    <3>1. First(ourPath[t], ClientOf[t])
      BY Zenon, <1>1, <2>2, ListChoice DEF IInv, ThreadInv
    <3>2. /\ pc[t] = "list" /\ pc'[t] = "storePath" /\ ourPath' = ourPath
          /\ channel' = channel
      BY Zenon, <1>1, <1>6, <2>2 DEF Domains, List, Goto, waitVars
    <3>3. Kept(t)
      BY Zenon, <1>3, <3>2 DEF Kept
    <3>4. WatchInv(t)'
      BY Zenon, <1>1, <3>2, NoWatch DEF WatchInv
    <3> QED
      BY Zenon, <1>1, <1>3, <3>1, <3>2, <3>3, <3>4, KeptInv
  <2>3. ASSUME Exists(ourPath[t]), NEW m \in nodes, IsPathToWatch(ourPath[t], m.seq),
               pathToWatch' = [pathToWatch EXCEPT ![t] = m.seq],
               Goto(t, "watch"), UNCHANGED <<ourPath, channel, expired>>
        PROVE  ThreadInv(t)'
    <3>1. m.seq < ourPath[t] /\ \A n \in nodes : n.seq <= m.seq \/ n.seq >= ourPath[t]
      BY Zenon, <1>1, <2>3, ListChoice DEF IInv, ThreadInv
    <3>2. /\ pc[t] = "list" /\ pc'[t] = "watch" /\ ourPath' = ourPath
          /\ channel' = channel /\ pathToWatch'[t] = m.seq
      BY Zenon, <1>1, <1>6, <2>3 DEF Domains, List, Goto
    <3>3. Kept(t)
      BY Zenon, <1>3, <3>2 DEF Kept
    <3>4. channel'[t] # "watching"
      BY Zenon, <1>1, <3>2, NoWatch
    <3>5. WatchInv(t)'
      BY <1>3, <3>1, <3>2, <3>4 DEF WatchInv
    <3> QED
      BY Zenon, <1>1, <1>3, <3>2, <3>3, <3>5, KeptInv
  <2> QED
    BY Zenon, <1>6, <2>1, <2>2, <2>3 DEF List
<1>7. CASE ListFails(t)
  BY Zenon, <1>4, <1>7 DEF ListFails
<1>8. CASE Watch(t) \/ Expires(t)
  <2>1. /\ pc[t] \in {"watch", "select"} /\ pc'[t] = "select"
        /\ ourPath' = ourPath /\ pathToWatch' = pathToWatch
    BY Zenon, <1>1, <1>8 DEF Domains, Watch, Expires, Goto
  <2>2. Kept(t)
    BY Zenon, <1>3, <2>1 DEF Kept
  <2>3. WatchInv(t)'
    BY Zenon, <1>1, <1>3, <2>1 DEF ThreadInv, WatchInv
  <2> QED
    BY Zenon, <1>1, <1>3, <2>1, <2>2, <2>3, KeptInv
<1>9. CASE WakeUp(t) \/ TimerFires(t)
  <2>1. /\ pc[t] = "select" /\ pc'[t] = "loop" /\ ourPath' = ourPath
        /\ channel'[t] = "none"
    BY Zenon, <1>1, <1>9 DEF Domains, WakeUp, TimerFires, Goto
  <2>2. Kept(t)
    BY Zenon, <1>3, <2>1 DEF Kept
  <2> QED
    BY Zenon, <1>1, <1>3, <2>1, <2>2, RestInv
<1> QED
  BY <1>5, <1>6, <1>7, <1>8, <1>9

LEMMA ReleaseInv ==
  ASSUME IInv, NEW t \in Threads, Release(t) \/ ReleaseLock(t) \/ Panic(t)
  PROVE  ThreadInv(t)'
<1>1. ThreadInv(t) /\ Domains(t) /\ Numbers(t)
  BY StepTyping DEF IInv
<1>2. CASE Release(t)
  <2>1. /\ pc[t] = "idle" /\ hold[t] > 0 /\ hold'[t] = hold[t] - 1
        /\ pc'[t] = IF lockCount[ClientOf[t]] > 0 THEN "decrement" ELSE "idle"
        /\ nodes' = nodes /\ lost' = lost /\ lockPath' = lockPath
        /\ lockCount' = lockCount /\ ourPath' = ourPath /\ channel' = channel
    BY Zenon, <1>1, <1>2
       DEF Domains, Release, Goto, IsAcquiredInThisProcess, serverVars, mutexVars, waitVars
  <2>2. lockCount[ClientOf[t]] = hold[t] /\ pc'[t] = "decrement"
    BY Zenon, <1>1, <2>1 DEF ThreadInv, CountInv
  <2>3. CountInv(t)'
    <3>1. hold[t] \in Nat
      BY <1>1 DEF Numbers
    <3>2. (hold[t] - 1) + 1 = hold[t]
      BY <3>1, CountDown
    <3> QED BY <2>1, <2>2, <3>2 DEF CountInv
  <2>4. OwnInv(t)'
    BY <1>1, <2>1 DEF ThreadInv, OwnInv
  <2>5. FirstInv(t)'
    BY Zenon, <1>1, <2>1, <2>2 DEF ThreadInv, FirstInv, First
  <2>6. WatchInv(t)'
    BY Zenon, <1>1, <2>1, <2>2, NoWatch DEF WatchInv
  <2> QED
    BY <2>3, <2>4, <2>5, <2>6 DEF ThreadInv
<1>3. CASE Decrement(t)
  <2>1. /\ pc[t] = "decrement" /\ hold' = hold
        /\ lockCount'[ClientOf[t]] = lockCount[ClientOf[t]] - 1
        /\ pc'[t] = IF lockCount[ClientOf[t]] = 1 THEN "readPath" ELSE "idle"
        /\ nodes' = nodes /\ lost' = lost /\ lockPath' = lockPath
        /\ ourPath' = ourPath /\ channel' = channel
    BY Zenon, <1>1, <1>3 DEF Domains, Decrement, Goto, serverVars, waitVars, userVars
  <2>2. lockCount[ClientOf[t]] = hold[t] + 1
    BY <1>1, <2>1 DEF ThreadInv, CountInv
  <2>3. CountInv(t)'
    <3>1. hold[t] \in Nat
      BY <1>1 DEF Numbers
    <3>2. /\ (hold[t] + 1) - 1 = hold[t]
          /\ hold[t] > 0 => hold[t] + 1 # 1
      BY <3>1, CountDown
    <3>3. lockCount'[ClientOf[t]] = hold[t] /\ hold'[t] = hold[t]
      BY <2>1, <2>2, <3>2
    <3>4. pc'[t] \in {"readPath", "idle"} /\ (hold[t] > 0 => pc'[t] = "idle")
      BY <2>1, <2>2, <3>2
    <3> QED BY <3>3, <3>4 DEF CountInv
  <2>4. OwnInv(t)'
    BY <1>1, <2>1 DEF ThreadInv, OwnInv
  <2>5. FirstInv(t)'
    BY Zenon, <1>1, <2>1 DEF ThreadInv, FirstInv, First
  <2>6. WatchInv(t)'
    BY Zenon, <1>1, <2>1, NoWatch DEF WatchInv
  <2> QED
    BY <2>3, <2>4, <2>5, <2>6 DEF ThreadInv
<1>4. CASE ReadPath(t) \/ DeleteFails(t) \/ Panic(t)
  <2>1. /\ pc[t] \in {"readPath", "delete", "create", "list", "watch"}
        /\ pc'[t] \in {"delete", "idle", "panicked"}
        /\ ourPath'[t] \in {ourPath[t], 0, lockPath[ClientOf[t]]}
    BY Zenon, <1>1, <1>4 DEF Domains, ReadPath, DeleteFails, Panic, Goto, Return
  <2>2. channel'[t] \in {channel[t], "none"}
    BY Zenon, <1>1, <1>4 DEF Domains, ReadPath, DeleteFails, Panic, Return, waitVars
  <2>3. UNCHANGED <<serverVars, mutexVars, userVars>>
    BY Zenon, <1>4 DEF ReadPath, DeleteFails, Panic
  <2>4. Kept(t)
    BY <2>1, <2>3 DEF Kept, serverVars, mutexVars, userVars
  <2>5. channel'[t] # "watching" /\ ~(hold[t] > 0)
    BY Zenon, <1>1, <2>1, <2>2, NoWatch, Outside
  <2> QED
    BY <1>1, <2>1, <2>4, <2>5, RestInv
<1>5. CASE Delete(t)
  <2>1. /\ pc[t] = "delete" /\ pc'[t] = "idle" /\ ourPath'[t] = 0
        /\ hold' = hold /\ lockCount' = lockCount /\ lockPath' = lockPath
    BY Zenon, <1>1, <1>5 DEF Domains, Delete, Goto, mutexVars, userVars
  <2>2. nodes' \subseteq nodes /\ channel'[t] \in {channel[t], "fired"}
    BY Zenon, <1>5 DEF Delete, Remove
  <2>3. ~(hold[t] > 0) /\ channel[t] # "watching"
    BY <1>1, <2>1, Outside, NoWatch
  <2>4. CountInv(t)'
    BY Zenon, <1>1, <2>1 DEF ThreadInv, CountInv
  <2>5. OwnInv(t)'
    <3>1. \A n \in nodes : n.seq # 0
      BY <1>1 DEF Numbers
    <3> QED BY Zenon, <1>1, <2>1, <2>2, <3>1 DEF ThreadInv, OwnInv
  <2>6. FirstInv(t)'
    BY Zenon, <2>1, <2>3 DEF FirstInv
  <2>7. WatchInv(t)'
    BY <2>1, <2>2, <2>3 DEF WatchInv
  <2> QED
    BY <2>4, <2>5, <2>6, <2>7 DEF ThreadInv
<1> QED
  BY <1>2, <1>3, <1>4, <1>5 DEF ReleaseLock

-----------------------------------------------------------------------------
(* The theorems                                                             *)

LEMMA InitIInv == Init => IInv
<1> SUFFICES ASSUME Init
             PROVE  IInv
  OBVIOUS
<1> USE MutexAssumption DEF Init
<1>1. TypeOK
  BY DEF TypeOK
<1>2. NodeInv
  BY FS_EmptySet DEF NodeInv
<1>3. \A t \in Threads : ThreadInv(t)
  BY DEF ThreadInv, CountInv, OwnInv, FirstInv, WatchInv
<1> QED
  BY <1>1, <1>2, <1>3 DEF IInv

LEMMA NextIInv == OneGoroutine /\ IInv /\ [Next]_vars => IInv'
<1> SUFFICES ASSUME OneGoroutine, IInv, [Next]_vars
             PROVE  IInv'
  OBVIOUS
<1>1. ASSUME NEW t \in Threads
      PROVE  ThreadInv(t)'
  BY StepOrUntouched, UntouchedInv, AcquireInv, TakeInv, LoopInv, ReleaseInv
     DEF StepOf, AttemptLock
<1>2. TypeOK' /\ NodeInv'
  BY TypeStep, NodeStep DEF IInv
<1> QED
  BY <1>1, <1>2 DEF IInv

\* The types hold however many goroutines share a mutex: no path a goroutine
\* keeps is of a node the server has not made.
THEOREM TypeCorrect == Spec => []TypeOK
<1>1. Init => TypeOK
  BY InitIInv DEF IInv
<1> QED
  BY <1>1, TypeStep, PTL DEF Spec

\* With one goroutine per process the invariant holds in every state.
THEOREM Invariance == ASSUME OneGoroutine PROVE Spec => []IInv
BY InitIInv, NextIInv, PTL DEF Spec

\* InterProcessMutex is an inter-process critical section: whatever calls fail
\* and whichever sessions end, two processes with live sessions never both hold
\* the lock.
THEOREM Exclusion == ASSUME OneGoroutine PROVE Spec => []MutualExclusion
<1>1. IInv => MutualExclusion
  <2> SUFFICES ASSUME IInv, NEW t \in Threads, NEW u \in Threads,
                      InCriticalSection(t), InCriticalSection(u)
               PROVE  ClientOf[t] = ClientOf[u]
    BY DEF MutualExclusion
  <2> DEFINE p == lockPath[ClientOf[t]]
             q == lockPath[ClientOf[u]]
  <2>1. First(p, ClientOf[t]) /\ First(q, ClientOf[u])
    BY DEF IInv, ThreadInv, FirstInv, InCriticalSection
  <2>2. Node(p, ClientOf[t]).seq = p /\ Node(q, ClientOf[u]).seq = q
    BY DEF Node
  <2>3. p \in Int /\ q \in Int
    BY MutexAssumption DEF IInv, TypeOK
  <2> HIDE DEF p, q
  <2>4. p = q
    BY <2>1, <2>2, <2>3 DEF First
  <2>5. Node(p, ClientOf[t]) = Node(q, ClientOf[u])
    BY <2>1, <2>2, <2>4 DEF First, IInv, NodeInv
  <2> QED
    BY <2>5 DEF Node
<1> QED
  BY <1>1, Invariance, PTL

\* The mutex is fair: the list on which internalLockLoop decided may be old, but
\* no node that was created before the winner's is still there.
THEOREM FirstComeFirstServed == ASSUME OneGoroutine PROVE Spec => Fair
<1>1. IInv /\ [Next]_vars =>
        [\A t \in Threads :
           pc[t] = "storeCount" /\ pc'[t] = "idle" /\ ~lost[t]
             => \A n \in nodes : n.seq >= ourPath[t]]_vars
  BY Zenon DEF IInv, ThreadInv, FirstInv, First
<1> QED
  BY <1>1, Invariance, PTL DEF Spec, Fair

\* No two waiters watch the same node, so a node that goes wakes at most one.
THEOREM OneWatcher == ASSUME OneGoroutine PROVE Spec => []NoHerd
<1>1. IInv => NoHerd
  <2> SUFFICES ASSUME IInv, NEW t \in Threads, NEW u \in Threads,
                      channel[t] = "watching", Exists(ourPath[t]),
                      channel[u] = "watching", Exists(ourPath[u]),
                      pathToWatch[t] = pathToWatch[u]
               PROVE  t = u
    BY Zenon DEF NoHerd
  <2>1. /\ pathToWatch[t] < ourPath[t]
        /\ pathToWatch[u] < ourPath[u]
        /\ \A n \in nodes : n.seq <= pathToWatch[t] \/ n.seq >= ourPath[t]
        /\ \A n \in nodes : n.seq <= pathToWatch[u] \/ n.seq >= ourPath[u]
    BY Zenon DEF IInv, ThreadInv, WatchInv
  <2>2. ourPath[t] \in Int /\ ourPath[u] \in Int /\ pathToWatch[t] \in Int
    BY DEF IInv, TypeOK
  <2>3. ourPath[t] = ourPath[u]
    BY <2>1, <2>2 DEF Exists
  <2>4. ClientOf[t] = ClientOf[u]
    BY Zenon, <2>3 DEF Exists, IInv, ThreadInv, OwnInv
  <2> QED
    BY Zenon, <2>4 DEF OneGoroutine
<1> QED
  BY <1>1, Invariance, PTL

-----------------------------------------------------------------------------
(* Why a goroutine that waits does not wait in vain                         *)

\* A goroutine with a watch waits for a node that is there.
WakeInv(t) == channel[t] = "watching" => pc[t] = "select" /\ Exists(pathToWatch[t])

\* A step that removes no node.
LEMMA WakeFrame ==
  ASSUME NEW t \in Threads, WakeInv(t), nodes \subseteq nodes',
         \/ channel'[t] # "watching"
         \/ /\ channel'[t] = channel[t] /\ pc'[t] = pc[t]
            /\ pathToWatch'[t] = pathToWatch[t]
  PROVE  WakeInv(t)'
BY DEF WakeInv, Exists

\* A step of one goroutine, seen by one.
LEMMA WakeThread ==
  ASSUME TypeOK, NEW t \in Threads, WakeInv(t), NEW u \in Threads, StepOf(u)
  PROVE  WakeInv(t)'
<1>0. /\ DOMAIN pc = Threads /\ DOMAIN channel = Threads /\ DOMAIN pathToWatch = Threads
      /\ pc[t] # "select" => channel[t] # "watching"
  BY DEF TypeOK, WakeInv
<1> USE <1>0, WakeFrame DEF Goto, Return, serverVars, waitVars
<1>1. CASE Acquire(u) \/ Reenter(u)
  BY <1>1 DEF Acquire, Reenter
<1>2. CASE Create(u) \/ CreateFails(u)
  BY <1>2 DEF Create, CreateFails, NewNode
<1>3. CASE StorePath(u) \/ StoreCount(u)
  BY <1>3 DEF StorePath, StoreCount
<1>4. CASE Loop(u)
  BY <1>4 DEF Loop
<1>5. CASE List(u) \/ ListFails(u)
  BY <1>5 DEF List, ListFails
<1>6. CASE Watch(u)
  <2>1. CASE u = t
    BY <1>6, <2>1 DEF Watch, WakeInv, Exists
  <2>2. CASE u # t
    BY <1>6, <2>2 DEF Watch
  <2> QED BY <2>1, <2>2
<1>7. CASE WakeUp(u) \/ TimerFires(u) \/ Expires(u)
  BY <1>7 DEF WakeUp, TimerFires, Expires
<1>8. CASE Release(u) \/ Decrement(u) \/ ReadPath(u) \/ DeleteFails(u) \/ Panic(u)
  BY <1>8 DEF Release, Decrement, ReadPath, DeleteFails, Panic
<1>9. CASE Delete(u)
  <2>1. /\ pc'[t] = "select" \/ pc[t] # "select"
        /\ pathToWatch' = pathToWatch
    BY <1>9 DEF Delete
  <2>2. ASSUME channel'[t] = "watching"
        PROVE  /\ channel[t] = "watching"
               /\ \A n \in nodes : n.seq = pathToWatch[t] => n \in nodes'
    BY <1>9, <2>2 DEF Delete, Remove
  <2> QED BY <2>1, <2>2 DEF WakeInv, Exists
<1> QED
  BY Zenon, <1>1, <1>2, <1>3, <1>4, <1>5, <1>6, <1>7, <1>8, <1>9
     DEF StepOf, AttemptLock, ReleaseLock

\* Every watch is on a node that is there, however many goroutines share a mutex
\* and whatever fails: the watch and the test of the node are one call, a node
\* that goes fires the watches on it, and a round that ends gives its watch up
\* (locks.go, internalLockLoop).
WatchesLive == \A t \in Threads : WakeInv(t)

\* No wake-up is missed (locks.go, internalLockLoop): between the list on which a
\* goroutine decides to wait and its select, the node in front may have gone, and
\* then the goroutine has no watch and does not count on one.
THEOREM NoMissedWakeup == Spec => []WatchesLive
<1>1. Init => WatchesLive
  BY DEF Init, WatchesLive, WakeInv
<1>2. TypeOK /\ WatchesLive /\ [Next]_vars => WatchesLive'
  <2> SUFFICES ASSUME TypeOK, WatchesLive, [Next]_vars, NEW t \in Threads
               PROVE  WakeInv(t)'
    BY DEF WatchesLive
  <2>0. WakeInv(t)
    BY DEF WatchesLive
  <2>1. CASE UNCHANGED vars
    BY <2>0, <2>1 DEF vars, serverVars, waitVars, WakeInv, Exists
  <2>2. ASSUME NEW u \in Threads, StepOf(u) PROVE WakeInv(t)'
    BY <2>0, <2>2, WakeThread
  <2>3. ASSUME NEW c \in Clients, Expire(c) \/ CloseClient(c) PROVE WakeInv(t)'
    <3>1. EndSession(c) /\ UNCHANGED <<pc, pathToWatch>>
      BY <2>3 DEF Expire, CloseClient
    <3>2. ASSUME channel'[t] = "watching"
          PROVE  /\ channel[t] = "watching"
                 /\ \A n \in nodes : n.seq = pathToWatch[t] => n \in nodes'
      BY <3>1, <3>2 DEF EndSession
    <3> QED BY <2>0, <3>1, <3>2 DEF WakeInv, Exists
  <2> QED BY <2>1, <2>2, <2>3 DEF Next, StepOf
<1> QED BY <1>1, <1>2, TypeCorrect, PTL DEF Spec

\* Creates, lists and deletes do not fail.  Sessions may end, clients be closed and
\* the calls that set a watch fail.
CallsSucceed == Faults \cap {"create", "list", "delete"} = {}

\* Node n is goroutine t's: of its attempt to get the lock or of its Release, or it
\* is the lock that t has.
Mine(t, n) ==
  \/ /\ n.seq = ourPath[t]
     /\ pc[t] \in {"loop", "list", "watch", "select", "storePath", "storeCount", "delete"}
  \/ /\ n.seq = lockPath[ClientOf[t]]
     /\ hold[t] > 0 \/ pc[t] \in {"decrement", "readPath"}

\* Every node of a goroutine's client is the goroutine's.
MineInv(t) == \A n \in nodes : n.client = ClientOf[t] => Mine(t, n)

\* Every node is of a client that is started and that some goroutine uses.
ClientInv ==
  \A n \in nodes : started[n.client] /\ \E t \in Threads : ClientOf[t] = n.client

\* Of the steps of a goroutine only Create and Delete change the server.
LEMMA ServerKept ==
  ASSUME NEW u \in Threads, StepOf(u), ~Create(u), ~CreateFails(u), ~Delete(u)
  PROVE  nodes' = nodes /\ started' = started
<1> USE DEF serverVars
<1>1. CASE Acquire(u) \/ Reenter(u) \/ Expires(u) \/ Release(u) \/ Panic(u)
  BY <1>1 DEF Acquire, Reenter, Expires, Release, Panic
<1>2. CASE AttemptLock(u)
  BY <1>2 DEF AttemptLock, Loop, List, ListFails, Watch, WakeUp, TimerFires,
              StorePath, StoreCount
<1>3. CASE ReleaseLock(u)
  BY <1>3 DEF ReleaseLock, Decrement, ReadPath, DeleteFails
<1> QED BY <1>1, <1>2, <1>3 DEF StepOf

\* A step of another goroutine, or the end of a session, makes t no node.
LEMMA NoNewNode ==
  ASSUME OneGoroutine, TypeOK, [Next]_vars, NEW t \in Threads
  PROVE  StepOf(t) \/ \A n \in nodes' : n \in nodes \/ n.client # ClientOf[t]
<1>1. ASSUME NEW u \in Threads, u # t, Create(u) \/ CreateFails(u)
      PROVE  \A n \in nodes' : n \in nodes \/ n.client # ClientOf[t]
  <2>1. ClientOf[u] # ClientOf[t]
    BY <1>1 DEF OneGoroutine
  <2> QED BY <1>1, <2>1 DEF Create, CreateFails, NewNode
<1>2. ASSUME NEW u \in Threads, Delete(u) PROVE nodes' \subseteq nodes
  BY <1>2 DEF Delete, Remove
<1>3. ASSUME NEW c \in Clients, Expire(c) \/ CloseClient(c) PROVE nodes' \subseteq nodes
  BY <1>3 DEF Expire, CloseClient, EndSession
<1>4. ASSUME NEW u \in Threads, StepOf(u), ~Create(u), ~CreateFails(u), ~Delete(u)
      PROVE  nodes' = nodes
  BY <1>4, ServerKept
<1>5. CASE UNCHANGED vars
  BY <1>5 DEF vars, serverVars
<1> QED BY <1>1, <1>2, <1>3, <1>4, <1>5 DEF Next, StepOf

\* Only Create adds a node, and only for a client that is started; Close takes the
\* nodes of its client away.
LEMMA ClientStep ==
  ASSUME TypeOK, ClientInv, [Next]_vars
  PROVE  ClientInv'
<1> USE MutexAssumption
<1>1. ASSUME NEW u \in Threads, Create(u) \/ CreateFails(u) PROVE ClientInv'
  <2>1. started[ClientOf[u]] /\ started' = started
    BY <1>1 DEF Create, CreateFails
  <2>2. \A n \in nodes' : n \in nodes \/ n.client = ClientOf[u]
    BY <1>1 DEF Create, CreateFails, NewNode
  <2> QED BY <2>1, <2>2 DEF ClientInv
<1>2. ASSUME nodes' \subseteq nodes, started' = started PROVE ClientInv'
  BY <1>2 DEF ClientInv
<1>3. ASSUME NEW c \in Clients, CloseClient(c) PROVE ClientInv'
  <2>1. \A n \in nodes' : n \in nodes /\ n.client # c /\ n.client \in Clients
    BY <1>3 DEF CloseClient, EndSession, TypeOK
  <2>2. \A d \in Clients : d # c => started'[d] = started[d]
    BY <1>3 DEF CloseClient, TypeOK
  <2> QED BY <2>1, <2>2 DEF ClientInv
<1>4. ASSUME NEW c \in Clients, Expire(c) PROVE ClientInv'
  BY <1>2, <1>4 DEF Expire, EndSession
<1>5. ASSUME NEW u \in Threads, Delete(u) PROVE ClientInv'
  BY <1>2, <1>5 DEF Delete, Remove
<1>6. ASSUME NEW u \in Threads, StepOf(u), ~Create(u), ~CreateFails(u), ~Delete(u)
      PROVE  nodes' = nodes /\ started' = started
  BY <1>6, ServerKept
<1>7. CASE UNCHANGED vars
  BY <1>2, <1>7 DEF vars, serverVars
<1> QED BY <1>1, <1>2, <1>3, <1>4, <1>5, <1>6, <1>7 DEF Next, StepOf

\* A step of t that leaves the nodes alone, and the lock path if t has the lock.
LEMMA MineFrame ==
  ASSUME NEW t \in Threads, MineInv(t), nodes' = nodes,
         \A n \in nodes : Mine(t, n) => Mine(t, n)'
  PROVE  MineInv(t)'
BY DEF MineInv

\* In a call without the lock a node of the goroutine's client is the call's.
LEMMA NodeOfCall ==
  ASSUME IInv, NEW t \in Threads, MineInv(t),
         pc[t] \notin {"idle", "reenter", "decrement", "readPath"},
         NEW n \in nodes, n.client = ClientOf[t]
  PROVE  /\ n.seq = ourPath[t]
         /\ pc[t] \in {"loop", "list", "watch", "select", "storePath", "storeCount", "delete"}
<1>1. ~(hold[t] > 0)
  BY StepTyping, Outside DEF IInv
<1> QED BY <1>1 DEF MineInv, Mine

\* The steps of Acquire keep the nodes of t its own.
LEMMA MineAcquire ==
  ASSUME IInv, ClientInv, CallsSucceed, NEW t \in Threads, MineInv(t),
         Acquire(t) \/ Reenter(t) \/ AttemptLock(t) \/ Expires(t)
  PROVE  MineInv(t)'
<1>0. ThreadInv(t) /\ Domains(t) /\ Numbers(t)
  BY StepTyping DEF IInv
<1>1. CASE Acquire(t)
  <2>1. /\ pc[t] = "idle" /\ nodes' = nodes /\ hold' = hold /\ lockPath' = lockPath
    BY <1>1 DEF Acquire, serverVars, mutexVars
  <2> QED BY <2>1, MineFrame DEF Mine
<1>2. CASE Reenter(t)
  <2>1. /\ pc[t] = "reenter" /\ nodes' = nodes /\ hold'[t] = hold[t] + 1
        /\ lockPath' = lockPath
    BY Zenon, <1>0, <1>2 DEF Domains, Reenter, serverVars
  <2>2. hold[t] \in Nat
    BY <1>0 DEF Numbers
  <2>3. hold'[t] > 0
    BY <2>1, <2>2
  <2> QED BY <2>1, <2>3, MineFrame DEF Mine
<1>3. CASE Create(t)
  <2>1. /\ pc[t] = "create" /\ pc'[t] = "loop" /\ ourPath'[t] = nextSeq
        /\ nodes' = nodes \cup {Node(nextSeq, ClientOf[t])}
    BY Zenon, <1>0, <1>3 DEF Domains, Create, NewNode, Goto, Node
  <2>2. \A n \in nodes : n.client # ClientOf[t]
    BY <2>1, NodeOfCall
  <2>3. Node(nextSeq, ClientOf[t]).seq = nextSeq
    BY DEF Node
  <2> QED BY <2>1, <2>2, <2>3 DEF MineInv, Mine
<1>4. CASE Loop(t) \/ List(t)
  <2>1. /\ pc[t] \in {"loop", "list"} /\ nodes' = nodes
    BY <1>4 DEF Loop, List, serverVars
  <2>2. CASE Return(t)
    <3>1. ~started[ClientOf[t]] \/ ~Exists(ourPath[t]) \/ ~(Loop(t) \/ List(t))
      <4>1. pc'[t] = "idle"
        BY <1>0, <2>2 DEF Domains, Return, Goto
      <4> QED BY <1>0, <4>1 DEF Domains, Loop, List, Goto
    <3>2. \A n \in nodes : n.client # ClientOf[t]
      BY <1>4, <2>1, <3>1, NodeOfCall DEF ClientInv, Exists
    <3> QED BY <2>1, <3>2 DEF MineInv
  <2>3. CASE pc'[t] \in {"list", "storePath", "watch"} /\ ourPath' = ourPath
    BY <2>1, <2>3, NodeOfCall DEF MineInv, Mine
  <2>4. Return(t) \/ (pc'[t] \in {"list", "storePath", "watch"} /\ ourPath' = ourPath)
    BY Zenon, <1>0, <1>4 DEF Domains, Loop, List, Goto
  <2> QED BY <2>2, <2>3, <2>4
<1>5. CASE Watch(t) \/ WakeUp(t) \/ TimerFires(t) \/ Expires(t) \/ StorePath(t)
  <2>1. /\ pc[t] \in {"watch", "select", "storePath"} /\ nodes' = nodes
        /\ pc'[t] \in {"select", "loop", "storeCount"} /\ ourPath' = ourPath
    BY Zenon, <1>0, <1>5 DEF Domains, Watch, WakeUp, TimerFires, Expires, StorePath, Goto,
                             serverVars
  <2> QED BY <2>1, NodeOfCall DEF MineInv, Mine
<1>6. CASE StoreCount(t)
  <2>1. /\ pc[t] = "storeCount" /\ nodes' = nodes /\ hold'[t] = hold[t] + 1
        /\ lockPath' = lockPath
    BY Zenon, <1>0, <1>6 DEF Domains, StoreCount, serverVars
  <2>2. lockPath[ClientOf[t]] = ourPath[t]
    BY <1>0, <2>1 DEF ThreadInv, FirstInv
  <2>3. hold[t] \in Nat
    BY <1>0 DEF Numbers
  <2>4. hold'[t] > 0
    BY <2>1, <2>3
  <2> QED BY <2>1, <2>2, <2>4, NodeOfCall DEF MineInv, Mine
<1>7. ~CreateFails(t) /\ ~ListFails(t)
  BY DEF CallsSucceed, CreateFails, ListFails
<1> QED BY <1>1, <1>2, <1>3, <1>4, <1>5, <1>6, <1>7 DEF AttemptLock

\* The steps of Release too, and the last of them leaves none.
LEMMA MineRelease ==
  ASSUME IInv, ClientInv, CallsSucceed, NEW t \in Threads, MineInv(t),
         Release(t) \/ ReleaseLock(t) \/ Panic(t)
  PROVE  MineInv(t)'
<1>0. ThreadInv(t) /\ Domains(t) /\ Numbers(t)
  BY StepTyping DEF IInv
<1>1. CASE Release(t)
  <2>1. /\ pc[t] = "idle" /\ hold[t] > 0 /\ nodes' = nodes /\ lockPath' = lockPath
        /\ pc'[t] = IF lockCount[ClientOf[t]] > 0 THEN "decrement" ELSE "idle"
    BY Zenon, <1>0, <1>1 DEF Domains, Release, Goto, IsAcquiredInThisProcess, serverVars,
                             mutexVars
  <2>2. lockCount[ClientOf[t]] = hold[t] /\ pc'[t] = "decrement"
    BY Zenon, <1>0, <2>1 DEF ThreadInv, CountInv
  <2> QED BY <2>1, <2>2, MineFrame DEF Mine
<1>2. CASE Decrement(t)
  <2>1. /\ pc[t] = "decrement" /\ nodes' = nodes /\ lockPath' = lockPath /\ hold' = hold
        /\ pc'[t] = IF lockCount[ClientOf[t]] = 1 THEN "readPath" ELSE "idle"
    BY Zenon, <1>0, <1>2 DEF Domains, Decrement, Goto, serverVars, userVars
  <2>2. lockCount[ClientOf[t]] = hold[t] + 1 /\ hold[t] \in Nat
    BY <1>0, <2>1 DEF ThreadInv, CountInv, Numbers
  <2>3. hold'[t] > 0 \/ pc'[t] = "readPath"
    BY <2>1, <2>2
  <2> QED BY <2>1, <2>3, MineFrame DEF Mine
<1>3. CASE ReadPath(t)
  <2>1. /\ pc[t] = "readPath" /\ pc'[t] = "delete" /\ nodes' = nodes
        /\ ourPath'[t] = lockPath[ClientOf[t]]
    BY Zenon, <1>0, <1>3 DEF Domains, ReadPath, Goto, serverVars
  <2> QED BY <2>1, MineFrame DEF Mine
<1>4. CASE Delete(t)
  <2>1. pc[t] = "delete" /\ nodes' = nodes \ {n \in nodes : n.seq = ourPath[t]}
    BY <1>4 DEF Delete, Remove
  <2> QED BY <2>1, NodeOfCall DEF MineInv
<1>5. CASE Panic(t)
  <2>1. ~started[ClientOf[t]] /\ nodes' = nodes
    BY <1>5 DEF Panic, serverVars
  <2> QED BY <2>1 DEF MineInv, ClientInv
<1>6. ~DeleteFails(t)
  BY DEF CallsSucceed, DeleteFails
<1> QED BY <1>1, <1>2, <1>3, <1>4, <1>5, <1>6 DEF ReleaseLock

\* Every lock node belongs to a goroutine that is using it: that attempts to get the
\* lock, has it, or is releasing it.
NoOrphan ==
  \A n \in nodes : \E t \in Threads : ClientOf[t] = n.client /\ Mine(t, n)

\* What makes NoOrphan inductive: a goroutine accounts for every node of its client.
QueueInv == ClientInv /\ \A t \in Threads : MineInv(t)

\* Every step keeps it.
LEMMA QueueStep ==
  ASSUME OneGoroutine, CallsSucceed, IInv, QueueInv, [Next]_vars
  PROVE  QueueInv'
<1>1. ASSUME NEW t \in Threads PROVE MineInv(t)'
  <2>0. MineInv(t) /\ ClientInv
    BY DEF QueueInv
  <2>1. CASE StepOf(t)
    BY <2>0, <2>1, MineAcquire, MineRelease DEF StepOf
  <2>2. CASE ~StepOf(t)
    <3>1. Untouched(t)
      BY <2>2, StepOrUntouched
    <3>2. \A n \in nodes' : n \in nodes \/ n.client # ClientOf[t]
      BY <2>2, NoNewNode DEF IInv
    <3>3. \A n : Mine(t, n) => Mine(t, n)'
      BY <3>1 DEF Mine, Untouched
    <3> QED BY <2>0, <3>2, <3>3 DEF MineInv
  <2> QED BY <2>1, <2>2
<1>2. ClientInv'
  BY ClientStep DEF IInv, QueueInv
<1> QED BY <1>1, <1>2 DEF QueueInv

\* The queue is accounted for in every state.
LEMMA QueueAccounted == ASSUME OneGoroutine, CallsSucceed PROVE Spec => []QueueInv
<1>1. Init => QueueInv
  BY DEF Init, QueueInv, ClientInv, MineInv
<1>2. IInv /\ QueueInv /\ [Next]_vars => QueueInv'
  BY QueueStep
<1> QED BY <1>1, <1>2, Invariance, PTL DEF Spec

\* No node is left behind in the queue when creates, lists and deletes succeed: not
\* by a Release, a session that ends while its goroutine waits, a wait that goes
\* through any number of rounds, or a client that is closed (locks.go,
\* internalLockLoop and releaseLock).  With a call that fails there may be one, and
\* everybody behind it waits for its session to end.
THEOREM NothingLeftBehind == ASSUME OneGoroutine, CallsSucceed PROVE Spec => []NoOrphan
<1>1. QueueInv => NoOrphan
  BY DEF QueueInv, ClientInv, MineInv, NoOrphan
<1> QED BY <1>1, QueueAccounted, PTL

\* A set of numbers has a least one.
LEMMA LeastExists ==
  ASSUME NEW T, T \subseteq Nat, T # {}
  PROVE  \E x \in T : \A y \in T : x <= y
<1>1. PICK x \in T : \A y \in T : ~ (<<y, x>> \in OpToRel(<, Nat))
  BY Zenon, NatLessThanWellFounded, WFMin
<1>2. \A a, b \in Nat : <<a, b>> \in OpToRel(<, Nat) <=> a < b
  BY DEF OpToRel
<1>3. \A y \in T : ~ (y < x)
  BY Zenon, <1>1, <1>2
<1> QED BY <1>3

\* A goroutine that waits has somebody in front of it who does not.
NoStandstill ==
  \A t \in Threads : channel[t] = "watching" =>
    \E u \in Threads, n \in nodes :
      n.seq < ourPath[t] /\ Mine(u, n) /\ channel[u] # "watching"

\* The goroutine of the first node waits for nobody.
LEMMA FirstMoves ==
  ASSUME IInv, QueueInv, WatchesLive, NEW n \in nodes, \A m \in nodes : n.seq <= m.seq
  PROVE  \E u \in Threads : Mine(u, n) /\ channel[u] # "watching"
<1>1. PICK u \in Threads : ClientOf[u] = n.client /\ Mine(u, n)
  BY DEF QueueInv, ClientInv, MineInv
<1>2. ASSUME channel[u] = "watching" PROVE FALSE
  <2>1. pc[u] = "select" /\ Exists(pathToWatch[u])
    BY <1>2 DEF WatchesLive, WakeInv
  <2>2. n.seq = ourPath[u]
    BY <1>1, <2>1, NodeOfCall DEF QueueInv
  <2>3. pathToWatch[u] < ourPath[u]
    BY <2>1 DEF IInv, ThreadInv, WatchInv
  <2>4. pathToWatch[u] \in Int /\ ourPath[u] \in Int
    BY DEF IInv, TypeOK
  <2> QED BY <2>1, <2>2, <2>3, <2>4 DEF Exists
<1> QED BY <1>1, <1>2

\* The waits of the goroutines never close a circle and never end at nobody: in
\* front of every goroutine that waits is one that has the lock, gives it back, or
\* is in the middle of a round.  That is the deadlock freedom behind AcquireReturns
\* (locks.go, internalLockLoop and StandardLockInternalsDriver.GetsTheLock).
THEOREM QueueMoves == ASSUME OneGoroutine, CallsSucceed PROVE Spec => []NoStandstill
<1>1. IInv /\ QueueInv /\ WatchesLive => NoStandstill
  <2> SUFFICES ASSUME IInv, QueueInv, WatchesLive,
                      NEW t \in Threads, channel[t] = "watching"
               PROVE  \E u \in Threads, n \in nodes :
                        n.seq < ourPath[t] /\ Mine(u, n) /\ channel[u] # "watching"
    BY DEF NoStandstill
  <2> DEFINE T == {n.seq : n \in nodes}
  <2>1. T \subseteq Nat /\ \A n \in nodes : n.seq \in T /\ n.seq \in Nat
    BY DEF IInv, TypeOK
  <2>2. PICK m \in nodes : m.seq = pathToWatch[t]
    BY DEF WatchesLive, WakeInv, Exists
  <2>3. T # {} /\ \A x \in T : \E n \in nodes : n.seq = x
    BY <2>2
  <2> HIDE DEF T
  <2>4. PICK x \in T : \A y \in T : x <= y
    BY <2>1, <2>3, LeastExists
  <2>5. PICK n \in nodes : n.seq = x
    BY <2>3
  <2>6. \A k \in nodes : n.seq <= k.seq
    BY <2>1, <2>4, <2>5
  <2>7. PICK u \in Threads : Mine(u, n) /\ channel[u] # "watching"
    BY <2>6, FirstMoves
  <2>8. n.seq < ourPath[t]
    <3>1. pc[t] = "select"
      BY DEF WatchesLive, WakeInv
    <3>2. pathToWatch[t] < ourPath[t]
      BY <3>1 DEF IInv, ThreadInv, WatchInv
    <3>3. ourPath[t] \in Int
      BY DEF IInv, TypeOK
    <3> QED BY <2>1, <2>2, <2>6, <3>2, <3>3
  <2> QED BY <2>7, <2>8
<1> QED BY <1>1, Invariance, QueueAccounted, NoMissedWakeup, PTL
=============================================================================
