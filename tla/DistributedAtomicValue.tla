----------------------- MODULE DistributedAtomicValue -----------------------
(***************************************************************************)
(* recipes/atomic.go: DistributedAtomicValue, used by several processes at  *)
(* once.                                                                    *)
(*                                                                          *)
(* GetData, SetData and Create go through the retry loop (RetryLoop): an    *)
(* update whose reply is lost may have been made, and is then either made   *)
(* again or reported as an error.  Of the promoted mutex there is the queue *)
(* of its lock nodes; how a process watches the node before its own, and    *)
(* what the end of a session does, is InterProcessMutex.  The empty value   *)
(* and nil, which bytes.Equal does not tell apart, are Nil.                 *)
(***************************************************************************)
EXTENDS Integers, Sequences

CONSTANTS
  Procs,       \* processes, each with a DistributedAtomicValue of its own
  Values,      \* the values they write and expect
  DefaultData, \* the client's default data
  Operations,  \* the methods they call
  Promoted,    \* whether promotedToLock is given
  N,           \* the N of retryPolicy
  PromotedN,   \* the N of promotedToLock.retryPolicy
  MaxCalls,    \* bound: methods called
  MaxFaults,   \* bound: lost replies and failed calls
  MaxDeletes   \* bound: deletions of the node or its parent by others

Nil == 0
NoProc == "none"
Left == "left"   \* a lock node that no process knows of any more
AnyVersion == -1

ASSUME ValueAssumption ==
  /\ Values \cup {DefaultData} \subseteq Nat
  /\ Operations \subseteq {"Get", "ForceSet", "CompareAndSet", "TrySet", "Initialize"}
  /\ Promoted \in BOOLEAN
  /\ {N, PromotedN, MaxCalls, MaxFaults, MaxDeletes} \subseteq Nat
  /\ NoProc \notin Procs /\ Left \notin Procs

VARIABLES
  node,     \* the server's node; birth counts its creations
  parent,   \* whether the node's parent is there
  queue,    \* the promoted mutex: whose lock nodes there are, in order
  holder,   \* the process that has the promoted mutex
  faults,   \* failures so far
  deletes,  \* deletions so far
  op,       \* per process: the method called and its arguments
  pc,       \* per process: the call it makes next
  calls,    \* methods called so far
  tries,    \* per process: OptimisticTries, or PromotedTries with the mutex
  read,     \* per process: what currentValue found
  result,   \* per process: what the method returned
  applied,  \* history: updates this method has made
  found,    \* history: the node that its last update replaced
  touched,  \* history: whether the node or its parent changed since currentValue
  repeated  \* history: whether an update was made again

serverVars == <<node, parent, queue>>
vars == <<serverVars, holder, faults, deletes, op, pc, calls, tries, read, result,
          applied, found, touched, repeated>>

Data == Values \cup {Nil, DefaultData}
Nodes == [exists : BOOLEAN, value : Data, version : Nat, birth : Nat]
NoNode(birth) == [exists |-> FALSE, value |-> Nil, version |-> 0, birth |-> birth]
NoOp == [name |-> "none", expected |-> Nil, new |-> Nil]
Updating == {"write", "force", "forceCreate", "forceAgain", "initialize"}

\* The types, and the loops of tryOptimistic and tryWithMutex go round again
\* only as often as each one's own policy allows.
TypeOK ==
  /\ node \in Nodes /\ parent \in BOOLEAN
  /\ queue \in Seq(Procs \cup {Left})
  /\ holder \in Procs \cup {NoProc}
  /\ faults \in 0 .. MaxFaults /\ deletes \in 0 .. MaxDeletes
  /\ op \in [Procs -> [name : Operations \cup {"none"}, expected : Data, new : Data]]
  /\ pc \in [Procs -> Updating \cup {"idle", "read", "lock", "queued", "unlock"}]
  /\ calls \in 0 .. MaxCalls
  /\ tries \in [Procs -> Nat]
  /\ read \in [Procs -> Nodes] /\ found \in [Procs -> Nodes]
  /\ result \in [Procs -> {"none", "true", "false", "error"}]
  /\ applied \in [Procs -> Nat]
  /\ touched \in [Procs -> BOOLEAN] /\ repeated \in [Procs -> BOOLEAN]
  /\ \A p \in Procs :
       pc[p] = "read" /\ tries[p] > 0 => tries[p] < IF holder = p THEN PromotedN ELSE N

Init ==
  /\ node \in {NoNode(0), [NoNode(0) EXCEPT !.exists = TRUE, !.value = DefaultData]}
  /\ parent \in BOOLEAN /\ (node.exists => parent)
  /\ queue = <<>> /\ holder = NoProc
  /\ faults = 0 /\ deletes = 0
  /\ op = [p \in Procs |-> NoOp]
  /\ pc = [p \in Procs |-> "idle"]
  /\ calls = 0
  /\ tries = [p \in Procs |-> 0]
  /\ read = [p \in Procs |-> NoNode(0)]
  /\ result = [p \in Procs |-> "none"]
  /\ applied = [p \in Procs |-> 0]
  /\ found = [p \in Procs |-> NoNode(0)]
  /\ touched = [p \in Procs |-> FALSE]
  /\ repeated = [p \in Procs |-> FALSE]

-----------------------------------------------------------------------------
(***************************************************************************)
(* The server.                                                              *)
(***************************************************************************)
\* Mutant: WithVersion is left out.
RequestAnyVersion(p) ==
  CASE pc[p] = "write" -> [create |-> ~read[p].exists, value |-> op[p].new,
                           version |-> AnyVersion]
    [] pc[p] \in {"force", "forceAgain"} ->
         [create |-> FALSE, value |-> op[p].new, version |-> AnyVersion]
    [] pc[p] = "forceCreate" ->
         [create |-> TRUE, value |-> op[p].new, version |-> AnyVersion]
    [] pc[p] = "initialize" ->
         [create |-> TRUE, value |-> DefaultData, version |-> AnyVersion]

\* The update that process p asks for.
Request(p) ==
  CASE pc[p] = "write" -> [create |-> ~read[p].exists, value |-> op[p].new,
                           version |-> read[p].version]
    [] pc[p] \in {"force", "forceAgain"} ->
         [create |-> FALSE, value |-> op[p].new, version |-> AnyVersion]
    [] pc[p] = "forceCreate" ->
         [create |-> TRUE, value |-> op[p].new, version |-> AnyVersion]
    [] pc[p] = "initialize" ->
         [create |-> TRUE, value |-> DefaultData, version |-> AnyVersion]

Reply(p) ==
  LET r == Request(p) IN
  CASE r.create /\ node.exists -> "NodeExists"
    [] ~node.exists /\ (r.create => ~parent) -> "NoNode"
    [] ~r.create /\ node.exists /\ r.version \notin {AnyVersion, node.version} -> "BadVersion"
    [] OTHER -> "ok"

Touch == touched' = [q \in Procs |-> TRUE]

Update(p) ==
  IF Reply(p) = "ok"
  THEN LET r == Request(p) IN
       /\ node' = [exists |-> TRUE, value |-> r.value,
                   version |-> IF r.create THEN 0 ELSE node.version + 1,
                   birth |-> IF r.create THEN node.birth + 1 ELSE node.birth]
       /\ applied' = [applied EXCEPT ![p] = @ + 1]
       /\ found' = [found EXCEPT ![p] = node]
       /\ Touch
       /\ UNCHANGED <<parent, queue>>
  ELSE UNCHANGED <<serverVars, applied, found, touched>>

\* Someone else deletes the node, or its parent.
Delete ==
  /\ parent /\ deletes < MaxDeletes
  /\ node' = NoNode(node.birth)
  /\ parent' = node.exists
  /\ deletes' = deletes + 1
  /\ Touch
  /\ UNCHANGED <<queue, holder, faults, op, pc, calls, tries, read, result, applied, found,
                 repeated>>

\* Someone else creates the parent.
CreateParent ==
  /\ ~parent
  /\ parent' = TRUE
  /\ Touch
  /\ UNCHANGED <<node, queue, holder, deletes, faults, op, pc, calls, tries, read, result, applied, found, repeated>>

-----------------------------------------------------------------------------
(***************************************************************************)
(* The methods.                                                             *)
(***************************************************************************)
Goto(p, label) == pc' = [pc EXCEPT ![p] = label] /\ UNCHANGED result

\* The deferred Release is the last thing that tryWithMutex does.
Return(p, r) ==
  /\ result' = [result EXCEPT ![p] = r]
  /\ pc' = [pc EXCEPT ![p] = IF holder = p THEN "unlock" ELSE "idle"]

First(name) ==
  CASE name = "ForceSet" -> "force"
    [] name = "Initialize" -> "initialize"
    [] OTHER -> "read"

\* The arguments of a method; what it does not take is Nil.
Arguments(name) ==
  CASE name = "Get" -> {<<Nil, Nil>>}
    [] name = "CompareAndSet" -> {args \in Values \X Values : args[1] # args[2]}
    [] OTHER -> {Nil} \X Values

Call(p) ==
  /\ pc[p] = "idle" /\ calls < MaxCalls
  /\ calls' = calls + 1
  /\ \E name \in Operations :
       /\ \E args \in Arguments(name) :
            op' = [op EXCEPT ![p] = [name |-> name, expected |-> args[1], new |-> args[2]]]
       /\ pc' = [pc EXCEPT ![p] = First(name)]
  /\ tries' = [tries EXCEPT ![p] = 0]
  /\ read' = [read EXCEPT ![p] = NoNode(0)]
  /\ result' = [result EXCEPT ![p] = "none"]
  /\ applied' = [applied EXCEPT ![p] = 0]
  /\ found' = [found EXCEPT ![p] = NoNode(0)]
  /\ touched' = [touched EXCEPT ![p] = FALSE]
  /\ repeated' = [repeated EXCEPT ![p] = FALSE]
  /\ UNCHANGED <<serverVars, holder, faults, deletes>>

\* Mutant: CompareAndSet compares when the node is to be created.
CurrentValueUnchecked(p) ==
  /\ pc[p] = "read"
  /\ read' = [read EXCEPT ![p] = node]
  /\ touched' = [touched EXCEPT ![p] = FALSE]
  /\ \/ op[p].name = "Get" /\ Return(p, "true")
     \/ /\ op[p].name = "CompareAndSet"
        /\ IF ~node.exists /\ op[p].expected = node.value
           THEN Goto(p, "write") ELSE Return(p, "false")
     \/ op[p].name = "TrySet" /\ Goto(p, "write")
  /\ UNCHANGED <<serverVars, holder, faults, deletes, op, calls, tries, applied, found, repeated>>

\* currentValue, and what Get, CompareAndSet and tryOnce do with it.
CurrentValue(p) ==
  /\ pc[p] = "read"
  /\ read' = [read EXCEPT ![p] = node]
  /\ touched' = [touched EXCEPT ![p] = FALSE]
  /\ \/ op[p].name = "Get" /\ Return(p, "true")
     \/ /\ op[p].name = "CompareAndSet"
        /\ IF node.exists /\ op[p].expected = node.value
           THEN Goto(p, "write") ELSE Return(p, "false")
     \/ op[p].name = "TrySet" /\ Goto(p, "write")
  /\ UNCHANGED <<serverVars, holder, faults, deletes, op, calls, tries, applied, found, repeated>>

CompareAndSet(p) ==
  /\ pc[p] = "write" /\ op[p].name = "CompareAndSet"
  /\ Update(p)
  /\ Return(p, IF Reply(p) = "ok" THEN "true" ELSE "false")
  /\ UNCHANGED <<holder, faults, deletes, op, calls, tries, read, repeated>>

AllowRetry(p, count) == count < IF holder = p THEN PromotedN ELSE N

\* Mutant: the loop does not stop at a success.
TryOnceGoesOn(p) ==
  /\ pc[p] = "write" /\ op[p].name = "TrySet"
  /\ Update(p)
  /\ LET count == tries[p] + 1 IN
     IF AllowRetry(p, count)
     THEN Goto(p, "read") /\ tries' = [tries EXCEPT ![p] = count]
     ELSE IF Promoted /\ holder # p
     THEN Goto(p, "lock") /\ tries' = [tries EXCEPT ![p] = 0]
     ELSE Return(p, IF Reply(p) = "ok" THEN "true" ELSE "false") /\ UNCHANGED tries
  /\ UNCHANGED <<holder, faults, deletes, op, calls, read, repeated>>

\* The update of tryOnce and the loop around it, of tryOptimistic or, with
\* the mutex, of tryWithMutex.
TryOnce(p) ==
  /\ pc[p] = "write" /\ op[p].name = "TrySet"
  /\ Update(p)
  /\ LET count == tries[p] + 1 IN
     IF Reply(p) = "ok" THEN Return(p, "true") /\ UNCHANGED tries
     ELSE IF AllowRetry(p, count)
     THEN Goto(p, "read") /\ tries' = [tries EXCEPT ![p] = count]
     ELSE IF Promoted /\ holder # p
     THEN Goto(p, "lock") /\ tries' = [tries EXCEPT ![p] = 0]
     ELSE Return(p, "false") /\ UNCHANGED tries
  /\ UNCHANGED <<holder, faults, deletes, op, calls, read, repeated>>

ForceSet(p) ==
  /\ op[p].name = "ForceSet" /\ pc[p] \in Updating
  /\ Update(p)
  /\ \/ Reply(p) = "ok" /\ Return(p, "true")
     \/ Reply(p) = "NoNode" /\ pc[p] = "force" /\ Goto(p, "forceCreate")
     \/ Reply(p) = "NodeExists" /\ Goto(p, "forceAgain")
     \/ Reply(p) = "NoNode" /\ pc[p] # "force" /\ Return(p, "error")
  /\ UNCHANGED <<holder, faults, deletes, op, calls, tries, read, repeated>>

\* Mutant: a repeated create that finds the node takes it for its own.
InitializeAssumesOwn(p) ==
  /\ pc[p] = "initialize"
  /\ Update(p)
  /\ Return(p, CASE Reply(p) = "NoNode" -> "error"
                 [] Reply(p) = "ok" \/ repeated[p] -> "true" [] OTHER -> "false")
  /\ UNCHANGED <<holder, faults, deletes, op, calls, tries, read, repeated>>

Initialize(p) ==
  /\ pc[p] = "initialize"
  /\ Update(p)
  /\ Return(p, CASE Reply(p) = "NoNode" -> "error"
                 [] Reply(p) = "ok" -> "true" [] OTHER -> "false")
  /\ UNCHANGED <<holder, faults, deletes, op, calls, tries, read, repeated>>

\* tryWithMutex: AcquireTimeout creates a lock node.
CreatesTheLock(p) ==
  /\ pc[p] = "lock"
  /\ queue' = Append(queue, p)
  /\ Goto(p, "queued")
  /\ UNCHANGED <<node, parent, holder, faults, deletes, op, calls, tries, read, applied, found,
                 touched, repeated>>

\* It returns with the mutex when its lock node is the first, however long that takes.
AcquireTimeout(p) ==
  /\ pc[p] = "queued" /\ queue # <<>> /\ Head(queue) = p
  /\ holder' = p
  /\ Goto(p, "read")
  /\ UNCHANGED <<serverVars, faults, deletes, op, calls, tries, read, applied, found,
                 touched, repeated>>

\* The listing fails: it returns without the mutex and without an error, and leaves
\* its lock node.
NotLocked(p) ==
  /\ pc[p] = "queued" /\ faults < MaxFaults
  /\ faults' = faults + 1
  /\ queue' = [i \in DOMAIN queue |-> IF queue[i] = p THEN Left ELSE queue[i]]
  /\ Return(p, "false")
  /\ UNCHANGED <<node, parent, holder, deletes, op, calls, tries, read, applied, found, touched,
                 repeated>>

\* The lock node is created and the reply lost: the process makes another or returns
\* the error.
LockReplyLost(p) ==
  /\ pc[p] = "lock" /\ faults < MaxFaults
  /\ faults' = faults + 1
  /\ queue' = Append(queue, Left)
  /\ Return(p, "error") \/ UNCHANGED <<pc, result>>
  /\ UNCHANGED <<node, parent, holder, deletes, op, calls, tries, read, applied, found, touched,
                 repeated>>

\* Mutant: Release is not deferred, and a method that returns keeps the mutex.
ReleaseForgotten(p) ==
  /\ pc[p] = "unlock"
  /\ holder' = NoProc
  /\ Goto(p, "idle")
  /\ UNCHANGED <<serverVars, faults, deletes, op, calls, tries, read, applied, found, touched,
                 repeated>>

Release(p) ==
  /\ pc[p] = "unlock"
  /\ holder' = NoProc
  /\ queue' = Tail(queue)
  /\ Goto(p, "idle")
  /\ UNCHANGED <<node, parent, faults, deletes, op, calls, tries, read, applied, found,
                 touched, repeated>>

\* Its delete fails, and the error is ignored: the lock node stays.
ReleaseFails(p) ==
  /\ pc[p] = "unlock" /\ faults < MaxFaults
  /\ faults' = faults + 1
  /\ holder' = NoProc
  /\ queue' = [queue EXCEPT ![1] = Left]
  /\ Goto(p, "idle")
  /\ UNCHANGED <<node, parent, deletes, op, calls, tries, read, applied, found, touched, repeated>>

\* A call fails, and was not made; every method returns the error.
CallFails(p) ==
  /\ pc[p] \in Updating \cup {"read", "lock"} /\ faults < MaxFaults
  /\ faults' = faults + 1
  /\ Return(p, "error")
  /\ UNCHANGED <<serverVars, holder, deletes, op, calls, tries, read, applied, found, touched,
                 repeated>>

\* An update is made and its reply is lost.  CallWithRetry makes it again if
\* ShouldRetry accepts the error; its policy it does not ask.
ReplyLost(p) ==
  /\ pc[p] \in Updating /\ faults < MaxFaults
  /\ faults' = faults + 1
  /\ Update(p)
  /\ \/ repeated' = [repeated EXCEPT ![p] = TRUE] /\ UNCHANGED <<pc, result>>
     \/ Return(p, "error") /\ UNCHANGED repeated
  /\ UNCHANGED <<holder, deletes, op, calls, tries, read>>

Step(p) ==
  \/ CurrentValue(p) \/ CompareAndSet(p) \/ TryOnce(p) \/ ForceSet(p)
  \/ Initialize(p) \/ CreatesTheLock(p) \/ AcquireTimeout(p) \/ Release(p)

Fault(p) ==
  CallFails(p) \/ ReplyLost(p) \/ NotLocked(p) \/ LockReplyLost(p) \/ ReleaseFails(p)

Next ==
  \/ Delete \/ CreateParent
  \/ \E p \in Procs : Call(p) \/ Step(p) \/ Fault(p)

Spec == Init /\ [][Next]_vars

\* The goroutines that run the methods are scheduled, and the server answers.
FairSpec == Spec /\ \A p \in Procs : WF_vars(Step(p))

-----------------------------------------------------------------------------
(***************************************************************************)
(* Properties.                                                              *)
(***************************************************************************)
\* CompareAndSet and TrySet that report success replaced exactly the node
\* that currentValue read, and so PreValue, whatever other processes did in
\* between, unless the node was deleted and created anew in the meantime.
SuccessReplacesPreValue ==
  \A p \in Procs :
    /\ result[p] = "true" /\ op[p].name \in {"CompareAndSet", "TrySet"}
    /\ found[p].birth = read[p].birth
    => found[p] = read[p]

\* When no update of the call was made twice, success means that the value
\* was set exactly once, and Succeeded() false that "the atomic was not
\* updated", through all the tries with and without the mutex.
UpdatedIffSucceeded ==
  \A p \in Procs :
    ~repeated[p] /\ op[p].name # "Get" =>
      /\ result[p] = "true" => applied[p] = 1
      /\ result[p] = "false" => applied[p] = 0

\* A call reports failure only for a reason: the value was not the expected one, the
\* node existed, there was no parent to create it under, or the node or its parent
\* changed between currentValue and the update of the last try.
FailureHasCause ==
  \A p \in Procs :
    result[p] = "false" =>
      \/ op[p].name = "Initialize"
      \/ touched[p]
      \/ op[p].name = "TrySet" /\ ~read[p].exists /\ ~parent
      \/ op[p].name = "CompareAndSet"
         /\ (~read[p].exists \/ read[p].value # op[p].expected)

\* Of the processes that initialize the same node at most one is told that it
\* did.
OneInitializer ==
  \A p, q \in Procs :
    /\ op[p].name = "Initialize" /\ result[p] = "true"
    /\ op[q].name = "Initialize" /\ result[q] = "true"
    /\ found[p].birth = found[q].birth
    => p = q

\* Every method returns: the tries end, and the mutex is passed on, unless a failed
\* listing, a lost reply or a failed Release has left a lock node, behind which every
\* later AcquireTimeout waits.
MethodsReturn ==
  \A p \in Procs :
    pc[p] # "idle" ~> pc[p] = "idle" \/ \E i \in DOMAIN queue : queue[i] = Left
=============================================================================
