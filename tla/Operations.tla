----------------------------- MODULE Operations -----------------------------
(***************************************************************************)
(* The operations of a CuratorFramework on a tree that several goroutines   *)
(* change: the builders (create.go, delete.go, exists.go, data.go,          *)
(* children.go, acl.go, sync.go) with MakeDirs, DeleteChildren and          *)
(* EnsurePath (paths.go), and the namespace that every path goes through    *)
(* (namespace.go).                                                          *)
(*                                                                          *)
(* A path is the sequence of its names, a process a goroutine that runs one *)
(* operation at a time, and a step one call to the server or one access to  *)
(* the namespace's EnsurePath.  Data, ACLs, stats, watches and sequential   *)
(* nodes are left out; of a node its two versions are kept.                 *)
(***************************************************************************)
EXTENDS Integers, Sequences

CONSTANTS
  Procs,      \* goroutines
  Namespace,  \* the namespace, <<>> for none
  Given,      \* the paths that callers give
  Trees,      \* the nodes that there may be at first
  MaxCalls,   \* bound: operations
  MaxFaults   \* bound: calls to the server that fail

NoProc == "none"

\* The node that a node is a child of, and a node with all that it is below.
Parent(path) == SubSeq(path, 1, Len(path) - 1)
Above(path) == {SubSeq(path, 1, n) : n \in 0 .. Len(path)}

ASSUME OperationsAssumption ==
  /\ MaxCalls \in Nat /\ MaxFaults \in Nat
  /\ Namespace \in Seq(STRING) /\ Given \subseteq Seq(STRING)
  /\ Given # {} /\ <<>> \notin Given
  /\ \A nodes \in Trees : /\ nodes \subseteq Seq(STRING) /\ <<>> \in nodes
                          /\ \A path \in nodes \ {<<>>} : Parent(path) \in nodes
  /\ NoProc \notin Procs

AnyVersion == -1

VARIABLES
  tree,          \* the server: the versions of the nodes there are
  helper,        \* ensurePath.helper is not nil
  started, lock, \* ensurePathHelper.started, and the holder of its lock
  ensureFailed,  \* history: Ensure has returned an error
  op, at,        \* per process: its operation, and where it is in it
  result,        \* per process: how the operation ended
  absent,        \* history: its node or one above was missing as it began
  removed,       \* history: nodes above, at and below its own, deleted since
  calls, faults

ensureVars == <<helper, started, lock, ensureFailed>>
vars == <<tree, ensureVars, op, at, result, absent, removed, calls, faults>>

fixForNamespace(path) == Namespace \o path

Paths == (UNION Trees) \cup (UNION {Above(fixForNamespace(path)) : path \in Given})

Kinds == {"Create", "Delete", "CheckExists", "GetData", "SetData", "GetChildren",
          "GetACL", "SetACL", "Sync"}
Results == {"none", "ok", "NoNode", "NodeExists", "NotEmpty", "BadVersion", "error"}

\* deep: CreatingParentsIfNeeded, or DeletingChildrenIfNeeded.
Operation == {o \in [kind : Kinds, path : Given, deep : BOOLEAN, version : {AnyVersion, 0}] :
                /\ o.deep => o.kind \in {"Create", "Delete"}
                /\ o.version # AnyVersion => o.kind \in {"Delete", "SetData", "SetACL"}}

Conn == {"exists", "mkdir", "request", "again", "children", "deleteSelf"}
Labels == Conn \cup {"idle", "ensure", "helper", "lock", "panicked"}

\* Where a process is: its next step, how many names of the path MakeDirs has
\* got to, and the nested calls of DeleteChildren, the innermost first, with the
\* children they have left.
At(label) == [label |-> label, dir |-> 0, stack |-> <<>>]
AtDir(n) == [At("exists") EXCEPT !.dir = n]
AtStack(label, stack) == [At(label) EXCEPT !.stack = stack]

Path(p) == fixForNamespace(op[p].path)
Busy(p) == at[p].label \notin {"idle", "panicked"}
Panicked == \E p \in Procs : at[p].label = "panicked"

\* Types; the calls of DeleteChildren go down the tree from the operation's own
\* node, each for a child of the one before, and MakeDirs stays on its path.
TypeOK ==
  /\ DOMAIN tree \subseteq Paths
  /\ \A path \in DOMAIN tree : tree[path].data \in Nat /\ tree[path].acl \in Nat
  /\ {helper, started, ensureFailed} \subseteq BOOLEAN
  /\ lock \in Procs \cup {NoProc}
  /\ op \in [Procs -> Operation]
  /\ \A p \in Procs :
       /\ at[p].label \in Labels
       /\ at[p].dir \in 0 .. Len(Path(p))
       /\ \A i \in DOMAIN at[p].stack :
            LET call == at[p].stack[i] IN
            /\ call.todo \subseteq Paths
            /\ IF i = Len(at[p].stack) THEN call.path = Path(p)
               ELSE Parent(call.path) = at[p].stack[i + 1].path
  /\ result \in [Procs -> Results]
  /\ absent \in [Procs -> BOOLEAN] /\ removed \in [Procs -> SUBSET Paths]
  /\ calls \in 0 .. MaxCalls /\ faults \in 0 .. MaxFaults

NewNode == [data |-> 0, acl |-> 0]

Init ==
  /\ \E nodes \in Trees : tree = [path \in nodes |-> NewNode]
  /\ helper = TRUE /\ started = FALSE /\ lock = NoProc /\ ensureFailed = FALSE
  /\ op \in [Procs -> {CHOOSE o \in Operation : TRUE}]
  /\ at = [p \in Procs |-> At("idle")]
  /\ result = [p \in Procs |-> "none"]
  /\ absent = [p \in Procs |-> FALSE]
  /\ removed = [p \in Procs |-> {}]
  /\ calls = 0 /\ faults = 0

-----------------------------------------------------------------------------
(* The server                                                               *)

Exists(path) == path \in DOMAIN tree
Children(path) == {child \in DOMAIN tree \ {<<>>} : Parent(child) = path}

Created(path) == IF ~Exists(Parent(path)) THEN "NoNode"
                 ELSE IF Exists(path) THEN "NodeExists" ELSE "ok"

Got(path) == IF Exists(path) THEN "ok" ELSE "NoNode"

Changed(path, field, version) ==
  IF Exists(path) /\ version \notin {AnyVersion, tree[path][field]} THEN "BadVersion"
  ELSE Got(path)

Deleted(path, version) ==
  IF Changed(path, "data", version) = "ok" /\ Children(path) # {} THEN "NotEmpty"
  ELSE Changed(path, "data", version)

\* The effect of a call whose outcome is r.
NoChange == UNCHANGED <<tree, removed>>

DoCreate(path, r) ==
  /\ tree' = IF r = "ok" THEN [q \in DOMAIN tree \cup {path} |->
                                 IF q = path THEN NewNode ELSE tree[q]]
             ELSE tree
  /\ UNCHANGED removed

DoDelete(path, r) ==
  IF r # "ok" THEN NoChange
  ELSE /\ tree' = [q \in DOMAIN tree \ {path} |-> tree[q]]
       /\ removed' = [p \in Procs |->
            IF Busy(p) /\ (path \in Above(Path(p)) \/ Path(p) \in Above(path))
            THEN removed[p] \cup {path} ELSE removed[p]]

DoChange(path, field, r) ==
  /\ tree' = IF r = "ok" THEN [tree EXCEPT ![path][field] = @ + 1] ELSE tree
  /\ UNCHANGED removed

-----------------------------------------------------------------------------
(* The start and the end of an operation                                    *)

Goto(p, place) == at' = [at EXCEPT ![p] = place] /\ UNCHANGED result
Finish(p, r) == at' = [at EXCEPT ![p] = At("idle")] /\ result' = [result EXCEPT ![p] = r]

\* ForPath: in the background too, fixForNamespace is called by the caller.
Call(p) ==
  /\ at[p].label = "idle" /\ calls < MaxCalls
  /\ calls' = calls + 1
  /\ \E o \in Operation :
       /\ op' = [op EXCEPT ![p] = o]
       /\ absent' = [absent EXCEPT ![p] = ~(Above(fixForNamespace(o.path)) \subseteq DOMAIN tree)]
  /\ at' = [at EXCEPT ![p] = At(IF Namespace = <<>> THEN "request" ELSE "ensure")]
  /\ result' = [result EXCEPT ![p] = "none"]
  /\ removed' = [removed EXCEPT ![p] = {}]
  /\ UNCHANGED <<tree, ensureVars, faults>>

-----------------------------------------------------------------------------
(* EnsurePath and MakeDirs                                                  *)

\* Ensure reads p.helper, and to call it reads it again, without a lock: if it
\* was set to nil in between, the second read finds that, and panics, or not,
\* where the compiler has combined the reads.
Ensure(p) ==
  /\ \/ at[p].label = "ensure" /\ Goto(p, At(IF helper THEN "helper" ELSE "request"))
     \/ at[p].label = "helper" /\ Goto(p, At("lock"))
     \/ at[p].label = "helper" /\ ~helper /\ Goto(p, At("panicked"))
  /\ UNCHANGED <<tree, ensureVars, op, absent, removed, calls, faults>>

\* Mutant: the owner's helper is cleared before MakeDirs runs.
LockClears(p) ==
  /\ at[p].label = "lock" /\ lock = NoProc
  /\ \/ started /\ Goto(p, At("request")) /\ UNCHANGED <<lock, helper>>
     \/ ~started /\ Goto(p, AtDir(1)) /\ lock' = p /\ helper' = FALSE
  /\ UNCHANGED <<tree, started, ensureFailed, op, absent, removed, calls, faults>>

\* The helper's Ensure, as far as MakeDirs.
Lock(p) ==
  /\ at[p].label = "lock" /\ lock = NoProc
  /\ \/ started /\ Goto(p, At("request")) /\ UNCHANGED lock
     \/ ~started /\ Goto(p, AtDir(1)) /\ lock' = p
  /\ UNCHANGED <<tree, helper, started, ensureFailed, op, absent, removed, calls, faults>>

\* Mutant: an error returns without Unlock.
EnsuredLocked(p, ok) ==
  /\ started' = TRUE /\ helper' = FALSE
  /\ lock' = IF ok THEN NoProc ELSE lock
  /\ ensureFailed' = (ensureFailed \/ ~ok)
  /\ Goto(p, At("request"))

\* The helper's Ensure, after MakeDirs; fixForNamespace ignores its error.
Ensured(p, ok) ==
  /\ started' = TRUE /\ helper' = FALSE
  /\ lock' = NoProc
  /\ ensureFailed' = (ensureFailed \/ ~ok)
  /\ Goto(p, At("request"))

\* What MakeDirs makes last: the namespace, or the parent of the node to create.
LastDir(p) == IF lock = p THEN Namespace ELSE Parent(Path(p))
SubPath(p) == SubSeq(LastDir(p), 1, at[p].dir)

\* Mutant: MakeDirs leaves out every other directory.
NextDirSkips(p) ==
  IF at[p].dir + 1 < Len(LastDir(p))
  THEN Goto(p, AtDir(at[p].dir + 2)) /\ UNCHANGED ensureVars
  ELSE IF lock = p THEN Ensured(p, TRUE)
  ELSE Goto(p, At("again")) /\ UNCHANGED ensureVars

NextDir(p) ==
  IF at[p].dir < Len(LastDir(p))
  THEN Goto(p, AtDir(at[p].dir + 1)) /\ UNCHANGED ensureVars
  ELSE IF lock = p THEN Ensured(p, TRUE)
  ELSE Goto(p, At("again")) /\ UNCHANGED ensureVars

\* The retry loop that process p is in, Ensure's or the operation's, gives up.
Fails(p, err) ==
  IF lock = p THEN Ensured(p, FALSE) ELSE Finish(p, err) /\ UNCHANGED ensureVars

MakeDirsExists(p) ==
  /\ at[p].label = "exists"
  /\ \/ Exists(SubPath(p)) /\ NextDir(p)
     \/ ~Exists(SubPath(p)) /\ Goto(p, [at[p] EXCEPT !.label = "mkdir"]) /\ UNCHANGED ensureVars
  /\ UNCHANGED <<tree, op, absent, removed, calls, faults>>

\* That the node exists by now is no error.
MakeDirsCreate(p) ==
  /\ at[p].label = "mkdir"
  /\ DoCreate(SubPath(p), Created(SubPath(p)))
  /\ \/ Created(SubPath(p)) \in {"ok", "NodeExists"} /\ NextDir(p)
     \/ Created(SubPath(p)) = "NoNode" /\ Fails(p, "NoNode")
  /\ UNCHANGED <<op, absent, calls, faults>>

-----------------------------------------------------------------------------
(* The builders                                                             *)

Requests(p, kind) == at[p].label = "request" /\ op[p].kind = kind
Rest == UNCHANGED <<ensureVars, op, absent, calls, faults>>

Creates(p) == Requests(p, "Create") \/ at[p].label = "again"

Create(p) ==
  /\ Creates(p)
  /\ LET r == Created(Path(p)) IN
     /\ DoCreate(Path(p), r)
     /\ IF r = "NoNode" /\ op[p].deep /\ at[p].label = "request"
        THEN Goto(p, AtDir(1)) ELSE Finish(p, r)
  /\ Rest

\* A call of DeleteChildren for a node, with the children todo to go.
Frame(path, todo) == [path |-> path, todo |-> todo]

\* The version is for the first call; DeleteChildren deletes any version.
Delete(p) ==
  /\ Requests(p, "Delete")
  /\ LET r == Deleted(Path(p), op[p].version) IN
     /\ DoDelete(Path(p), r)
     /\ IF r = "NotEmpty" /\ op[p].deep
        THEN Goto(p, AtStack("children", <<Frame(Path(p), {})>>)) ELSE Finish(p, r)
  /\ Rest

\* The call of DeleteChildren for path, inside the calls outer, goes on: it
\* calls itself for one of the children left, or deletes its own node.
Descend(p, outer, path, todo) ==
  \/ todo = {} /\ Goto(p, AtStack("deleteSelf", <<Frame(path, {})>> \o outer))
  \/ \E child \in todo :
       Goto(p, AtStack("children",
              <<Frame(child, {}), Frame(path, todo \ {child})>> \o outer))

DeleteChildrenList(p) ==
  /\ at[p].label = "children"
  /\ LET path == Head(at[p].stack).path IN
     IF Exists(path) THEN Descend(p, Tail(at[p].stack), path, Children(path))
     ELSE Finish(p, "NoNode")
  /\ NoChange /\ Rest

\* Mutant: a child that has come in the meantime is taken for success.
DeleteSelfOnce(p) ==
  /\ at[p].label = "deleteSelf"
  /\ LET path == Head(at[p].stack).path
         outer == Tail(at[p].stack)
     IN /\ DoDelete(path, Deleted(path, AnyVersion))
        /\ IF outer = <<>> THEN Finish(p, "ok")
           ELSE Descend(p, Tail(outer), Head(outer).path, Head(outer).todo)
  /\ Rest

\* Children that have come in the meantime are deleted in their turn, and a
\* node that has gone is no error.
DeleteChildrenSelf(p) ==
  /\ at[p].label = "deleteSelf"
  /\ LET path == Head(at[p].stack).path
         outer == Tail(at[p].stack)
         r == Deleted(path, AnyVersion)
     IN /\ DoDelete(path, r)
        /\ IF r = "NotEmpty" THEN Goto(p, AtStack("children", at[p].stack))
           ELSE IF outer = <<>> THEN Finish(p, "ok")
           ELSE Descend(p, Tail(outer), Head(outer).path, Head(outer).todo)
  /\ Rest

SetData(p) ==
  /\ Requests(p, "SetData")
  /\ LET r == Changed(Path(p), "data", op[p].version) IN
     DoChange(Path(p), "data", r) /\ Finish(p, r)
  /\ Rest

SetACL(p) ==
  /\ Requests(p, "SetACL")
  /\ LET r == Changed(Path(p), "acl", op[p].version) IN
     DoChange(Path(p), "acl", r) /\ Finish(p, r)
  /\ Rest

\* With Decompressed, what is not compressed data is an error, and so is the nil of
\* a missing node.
GetData(p) ==
  /\ Requests(p, "GetData")
  /\ \E r \in {Got(Path(p)), "error"} : Finish(p, r)
  /\ NoChange /\ Rest

\* That there is no node is no error: the stat is nil.
CheckExists(p) == Requests(p, "CheckExists") /\ Finish(p, "ok") /\ NoChange /\ Rest
GetChildren(p) == Requests(p, "GetChildren") /\ Finish(p, Got(Path(p))) /\ NoChange /\ Rest
GetACL(p) == Requests(p, "GetACL") /\ Finish(p, Got(Path(p))) /\ NoChange /\ Rest
Sync(p) == Requests(p, "Sync") /\ Finish(p, "ok") /\ NoChange /\ Rest

-----------------------------------------------------------------------------
(* Failures                                                                 *)

\* What the call of process p does to the tree, if it changes it.
Effect(p) ==
  \/ at[p].label = "mkdir" /\ DoCreate(SubPath(p), Created(SubPath(p)))
  \/ Creates(p) /\ DoCreate(Path(p), Created(Path(p)))
  \/ Requests(p, "Delete") /\ DoDelete(Path(p), Deleted(Path(p), op[p].version))
  \/ /\ at[p].label = "deleteSelf"
     /\ LET path == Head(at[p].stack).path IN DoDelete(path, Deleted(path, AnyVersion))
  \/ Requests(p, "SetData") /\ DoChange(Path(p), "data", Changed(Path(p), "data", op[p].version))
  \/ Requests(p, "SetACL") /\ DoChange(Path(p), "acl", Changed(Path(p), "acl", op[p].version))

\* A call fails with an error that is not retried, before or after the server
\* has carried it out.
CallFails(p) ==
  /\ at[p].label \in Conn /\ faults < MaxFaults
  /\ faults' = faults + 1
  /\ Effect(p) \/ NoChange
  /\ Fails(p, "error")
  /\ UNCHANGED <<op, absent, calls>>

\* The same with an error that is retried: CallWithRetry runs its procedure from
\* the start.
Retry(p) ==
  /\ at[p].label \in Conn /\ faults < MaxFaults
  /\ faults' = faults + 1
  /\ Effect(p) \/ NoChange
  /\ Goto(p, IF lock = p THEN AtDir(1) ELSE At("request"))
  /\ UNCHANGED <<ensureVars, op, absent, calls>>

\* A step of the code; a panic ends the program.
Step(p) ==
  /\ ~Panicked
  /\ \/ Ensure(p) \/ Lock(p) \/ MakeDirsExists(p) \/ MakeDirsCreate(p)
     \/ Create(p) \/ Delete(p) \/ DeleteChildrenList(p) \/ DeleteChildrenSelf(p)
     \/ CheckExists(p) \/ GetData(p) \/ SetData(p) \/ GetChildren(p)
     \/ GetACL(p) \/ SetACL(p) \/ Sync(p)

Next ==
  \E p \in Procs : \/ Step(p)
                   \/ ~Panicked /\ (Call(p) \/ CallFails(p) \/ Retry(p))

Spec == Init /\ [][Next]_vars

\* The goroutines run, and the server answers.
FairSpec == Spec /\ \A p \in Procs : WF_vars(Step(p))

-----------------------------------------------------------------------------
(* Properties                                                               *)

\* No operation calls the server for its path before the namespace is there,
\* although the goroutines share one EnsurePath that only the first carries
\* out (fixForNamespace, ensurePathHelper.Ensure); unless that Ensure failed,
\* as its error is ignored and it is not tried again.  Nor does the program end
\* in ensurePath.Ensure, which reads helper twice, before the namespace is there.
NamespaceEnsured ==
  ~ensureFailed =>
    \A p \in Procs : at[p].label \in Conn \cup {"panicked"} /\ lock # p => Exists(Namespace)

\* A Delete that returns no error has seen its node go while it ran, whatever
\* was created below it or deleted by others meanwhile, and one that deletes
\* the children does not report that there are some (DeleteChildren).
DeleteRemoves ==
  \A p \in Procs : op[p].kind = "Delete" =>
    /\ result[p] = "ok" => Path(p) \in removed[p]
    /\ op[p].deep => result[p] # "NotEmpty"

\* An operation says that there is no node only if its own or one above it was
\* missing as it began or was deleted while it ran.  A Create that makes the
\* parents says so only if one of them was deleted under it (MakeDirs); for a
\* Delete that deletes children it can also be a child that somebody else has
\* deleted (DeleteChildren).
NoNodeHasCause ==
  \A p \in Procs : result[p] = "NoNode" =>
    \/ removed[p] \cap Above(Path(p)) # {}
    \/ absent[p] /\ ~(op[p].kind = "Create" /\ op[p].deep)
    \/ removed[p] # {} /\ op[p].kind = "Delete" /\ op[p].deep

\* Every operation ends, if the program does not: nobody waits for the lock of
\* the EnsurePath for ever, and DeleteChildren begins again only when something
\* was created.
OperationsEnd == \A p \in Procs : Busy(p) ~> (~Busy(p) \/ Panicked)
=============================================================================
