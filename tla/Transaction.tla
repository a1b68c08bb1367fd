----------------------------- MODULE Transaction -----------------------------
(***************************************************************************)
(* transaction.go: a curatorTransaction, from its builders to what Commit   *)
(* returns, on top of the retry loop that Commit runs the multi request in. *)
(* An attempt of the loop (RetryLoop) is one call of conn.Multi.            *)
(*                                                                          *)
(* A node is its data version; payloads, ACLs and create modes are left     *)
(* out, and so is the creation of the namespace by fixForNamespace, which   *)
(* Operations has.  No other client changes the nodes meanwhile.            *)
(***************************************************************************)
EXTENDS RetryLoop, Sequences

CONSTANTS
  Paths,  \* paths that operations are given
  MaxOps  \* bound: operations of the transaction

ASSUME TransactionAssumption == MaxOps \in Nat

VARIABLES
  operations,
  nodes,    \* the versions of the nodes on the server
  results,  \* what Commit returns next to the error
  before,   \* history: nodes when Commit was called
  lost      \* history: a multi was done and its reply did not arrive

transactionVars == <<operations, nodes, results, before, lost>>
allVars == <<vars, transactionVars>>

Absent     == -1
AnyVersion == -1

\* fixForNamespace and its inverse
Fixed(path) == <<"namespace", path>>
Unfixed(path) == path[2]
Nodes == {Fixed(p) : p \in Paths}

\* The requests of go-zookeeper: an operation and the version it is for.
Requests == [type : {"create"}, path : Nodes, version : {AnyVersion}]
              \cup [type : {"delete", "setData", "check"}, path : Nodes,
                    version : {AnyVersion, 0}]

\* A TransactionResult without its stat
Result == [type : {"create", "delete", "setData", "check"}, forPath : Nodes,
           resultPath : Paths \cup {"none"}]

TransactionTypeOK ==
  /\ TypeOK
  /\ operations \in Seq(Requests) /\ Len(operations) <= MaxOps
  /\ lost \in BOOLEAN
  /\ nodes \in [Nodes -> Nat \cup {Absent}]
  /\ before \in [Nodes -> {Absent, 0}]
  /\ results \in Seq(Result)

TransactionInit ==
  /\ Init
  /\ operations = <<>>
  /\ nodes \in [Nodes -> {Absent, 0}]
  /\ results = <<>>
  /\ before = nodes
  /\ lost = FALSE

-----------------------------------------------------------------------------
(* The server: a multi request is done as a whole or not at all.            *)

Allowed(ns, op) ==
  IF op.type = "create" THEN ns[op.path] = Absent
  ELSE ns[op.path] # Absent /\ op.version \in {AnyVersion, ns[op.path]}

Effect(ns, op) ==
  [ns EXCEPT ![op.path] = CASE op.type = "create"  -> 0
                            [] op.type = "delete"  -> Absent
                            [] op.type = "setData" -> @ + 1
                            [] op.type = "check"   -> @]

\* One request more: the first that is not allowed ends the run.
Step(s, op) ==
  IF s.ok /\ Allowed(s.nodes, op)
  THEN [ok |-> TRUE, nodes |-> Effect(s.nodes, op)]
  ELSE [ok |-> FALSE, nodes |-> s.nodes]

\* What the first i requests come to, one after the other.
After(ns, ops) ==
  LET after[i \in 0 .. Len(ops)] ==
        IF i = 0 THEN [ok |-> TRUE, nodes |-> ns] ELSE Step(after[i - 1], ops[i])
  IN  after

Run(ns, ops) == After(ns, ops)[Len(ops)]

\* Mutant of Multi: the requests are sent one by one.
OneByOne(ns, ops) == Run(ns, ops)

Multi(ns, ops) ==
  IF Run(ns, ops).ok THEN Run(ns, ops) ELSE [ok |-> FALSE, nodes |-> ns]

-----------------------------------------------------------------------------
(* The builders                                                             *)

\* Create, Delete, SetData and Check with their ForPath: the request is added.
Add(op) ==
  /\ attempts = 0 /\ Len(operations) < MaxOps
  /\ operations' = Append(operations, op)
  /\ UNCHANGED <<vars, nodes, results, before, lost>>

-----------------------------------------------------------------------------
(* Commit: its first attempt ends the building.                             *)

\* The result for a request, and whether it was done
ResultOf(op, done) ==
  [type |-> op.type, forPath |-> op.path,
   resultPath |-> IF done /\ op.type = "create" THEN Unfixed(op.path) ELSE "none"]

\* The switch over the responses to a multi
ResultsOf(done) == [i \in DOMAIN operations |-> ResultOf(operations[i], done)]

\* The server answers that all is done.
Done ==
  LET multi == Multi(nodes, operations) IN
  /\ multi.ok
  /\ Returns /\ result' = "ok"
  /\ nodes' = multi.nodes
  /\ results' = ResultsOf(TRUE)
  /\ UNCHANGED <<operations, before, lost>>

\* Mutant of Refused: the error that goes with the responses is passed over.
RefusedSilently ==
  LET multi == Multi(nodes, operations) IN
  /\ ~multi.ok
  /\ Returns /\ result' = "ok"
  /\ nodes' = multi.nodes
  /\ results' = ResultsOf(FALSE)
  /\ UNCHANGED <<operations, before, lost>>

\* The server answers that an operation is not allowed, an error that is not
\* retried.  Next to it the library gives a response for each request, or none.
Refused ==
  LET multi == Multi(nodes, operations) IN
  /\ ~multi.ok
  /\ Returns /\ result' = "fatal"
  /\ nodes' = multi.nodes
  /\ results' \in {ResultsOf(FALSE), <<>>}
  /\ UNCHANGED <<operations, before, lost>>

\* Mutant of Broken: the call that fails has sent the multi again by itself.
BrokenAfterTwo ==
  LET multi == Multi(nodes, operations) IN
  /\ Fails \/ (Returns /\ result' = "fatal")
  /\ \/ UNCHANGED <<nodes, lost>>
     \/ nodes' = Multi(multi.nodes, operations).nodes /\ lost' = TRUE
  /\ results' = <<>>
  /\ UNCHANGED <<operations, before>>

\* Conn or Multi fails, with an error that is retried or with another.  The server
\* may have done the operations.
Broken ==
  LET multi == Multi(nodes, operations) IN
  /\ Fails \/ (Returns /\ result' = "fatal")
  /\ \/ UNCHANGED <<nodes, lost>>
     \/ nodes' = multi.nodes /\ lost' = TRUE
  /\ results' = <<>>
  /\ UNCHANGED <<operations, before>>

\* The steps of the loop between two attempts
Loop ==
  /\ RetryAtOnce \/ Retry \/ GiveUp
  /\ UNCHANGED transactionVars

TransactionNext ==
  \/ \E op \in Requests : Add(op)
  \/ Done \/ Refused \/ Broken \/ Loop

TransactionSpec == TransactionInit /\ [][TransactionNext]_allVars

-----------------------------------------------------------------------------
(* Properties                                                               *)

\* A transaction that Commit reports as failed has left no trace, unless the reply
\* to a multi was lost on the way (transaction.go, Commit).
ErrorMeansUndone == pc = "done" /\ result # "ok" /\ ~lost => nodes = before

\* Operations whose own effect forbids to repeat them: on a path that no other
\* operation touches a create, a delete, or a setData for a version.
Guarded ==
  \E i \in DOMAIN operations :
    /\ \/ operations[i].type \in {"create", "delete"}
       \/ operations[i].type = "setData" /\ operations[i].version # AnyVersion
    /\ \A j \in DOMAIN operations \ {i} : operations[j].path # operations[i].path

\* A guarded transaction that Commit reports as done was done exactly once, however
\* often the loop repeated the multi and whatever replies were lost: a repetition
\* is refused (transaction.go, Commit; retry.go, CallWithRetry).
DoneOnce ==
  pc = "done" /\ result = "ok" /\ Guarded =>
    Multi(before, operations).ok /\ nodes = Multi(before, operations).nodes

\* Reference: all the operations are done, or none, and that a number of times.
AllOrNone(ns, ops) == IF Run(ns, ops).ok THEN Run(ns, ops).nodes ELSE ns

Repeated(ns, ops) ==
  LET repeated[k \in 0 .. MaxAttempts] ==
        IF k = 0 THEN ns ELSE AllOrNone(repeated[k - 1], ops)
  IN  repeated

\* Whatever replies are lost and however often the loop sends the multi again, the
\* transaction is never done in part, and at most once for each attempt: the nodes
\* are those from before it, or those after so many whole runs (transaction.go,
\* Commit; retry.go, CallWithRetry).
AppliedWhole == \E k \in 0 .. attempts : nodes = Repeated(before, operations)[k]
=============================================================================
