--------------------- MODULE DistributedAtomicValueProofs ---------------------
(***************************************************************************)
(* What DistributedAtomicValue reports is true, for any number of          *)
(* processes and values, with and without a promoted mutex, whatever calls *)
(* fail and however often others delete the node or its parent; and the    *)
(* lock nodes of the mutex are those of methods under way, unless a call   *)
(* has failed.                                                             *)
(*                                                                         *)
(* The argument: the version identifies what the node was, as long as it   *)
(* is not created anew. What a process has read is thus either behind the  *)
(* node or the node itself (Seen), and an update with its version replaces *)
(* nothing else.                                                           *)
(***************************************************************************)
EXTENDS DistributedAtomicValue, SequenceTheorems, TLAPS

\* A node that is not there has no value and no version.
Server == ~node.exists => node = NoNode(node.birth)

\* What a process has read, r, is of an earlier life of node n, or is what n was
\* before an update, before its deletion, or still is.
Seen(r, n) ==
  /\ r.birth <= n.birth
  /\ ~r.exists => r = NoNode(r.birth)
  /\ r.birth = n.birth =>
       /\ ~r.exists => ~n.exists
       /\ r.exists /\ n.exists => r.version < n.version \/ r = n

\* A try of TrySet fails when the node or its parent has changed since it was read, or
\* there was nothing to create the node under.
Lost(p) == touched[p] \/ (op[p].name = "TrySet" /\ ~read[p].exists /\ ~parent)

\* How the variables of a process fit together, and to the node.
Fits(p) ==
  /\ pc[p] = "write" => Seen(read[p], node)
  /\ pc[p] \notin {"idle", "unlock"} => result[p] = "none"
  /\ pc[p] = "unlock" => holder = p
  /\ pc[p] \in {"lock", "queued"} => tries[p] = 0
  /\ pc[p] = "initialize" => op[p].name = "Initialize"
  /\ ~repeated[p] /\ result[p] = "none" => applied[p] = 0
  /\ op[p].name = "Initialize" /\ result[p] = "true" => found[p].birth < node.birth
  /\ pc[p] = "write" => touched[p] \/ read[p] = node
  /\ pc[p] = "write" => read[p].exists \/ op[p].name = "TrySet"
  /\ pc[p] \in {"lock", "queued"} => Lost(p)

\* SuccessReplacesPreValue, UpdatedIffSucceeded and FailureHasCause, of one process.
Honest(p) ==
  /\ /\ result[p] = "true" /\ op[p].name \in {"CompareAndSet", "TrySet"}
     /\ found[p].birth = read[p].birth
     => found[p] = read[p]
  /\ ~repeated[p] /\ op[p].name # "Get" =>
       /\ result[p] = "true" => applied[p] = 1
       /\ result[p] = "false" => applied[p] = 0
  /\ result[p] = "false" =>
       \/ op[p].name = "Initialize" \/ Lost(p)
       \/ op[p].name = "CompareAndSet"
          /\ (~read[p].exists \/ read[p].value # op[p].expected)

IInv ==
  /\ TypeOK /\ Server
  /\ \A p \in Procs : Fits(p) /\ Honest(p)
  /\ OneInitializer

-----------------------------------------------------------------------------
(* The server                                                               *)

\* The node goes from one life to the next, and within a life from one version
\* to the next.
Moves ==
  /\ node' \in Nodes /\ Server'
  /\ node.birth <= node'.birth
  /\ \A r \in Nodes : Seen(r, node) => Seen(r, node')

\* A node that stays as it is has moved, too.
LEMMA StaysMoves ==
  ASSUME TypeOK, Server, node' = node
  PROVE  Moves
<1>1. node \in Nodes /\ node.birth \in Nat
  BY DEF TypeOK, Nodes
<1>2. Server'
  BY DEF Server
<1>3. \A r \in Nodes : Seen(r, node) => Seen(r, node')
  BY DEF Seen
<1> QED BY <1>1, <1>2, <1>3 DEF Moves

\* A process asks for an update of the right types.
LEMMA RequestType ==
  ASSUME TypeOK, NEW p \in Procs, pc[p] \in Updating
  PROVE  Request(p) \in [create : BOOLEAN, value : Data, version : Int]
<1>1. op[p].new \in Data /\ DefaultData \in Data
  BY DEF TypeOK, Data
<1>2. (~read[p].exists) \in BOOLEAN /\ read[p].version \in Int /\ AnyVersion \in Int
  <2>1. read[p] \in Nodes
    BY DEF TypeOK
  <2> QED BY <2>1 DEF Nodes, AnyVersion
<1>3. CASE pc[p] = "write"
  BY <1>1, <1>2, <1>3 DEF Request
<1>4. CASE pc[p] \in {"force", "forceAgain"}
  BY <1>1, <1>2, <1>4 DEF Request
<1>5. CASE pc[p] = "forceCreate"
  BY <1>1, <1>2, <1>5 DEF Request
<1>6. CASE pc[p] = "initialize"
  BY <1>1, <1>2, <1>6 DEF Request
<1> QED BY <1>3, <1>4, <1>5, <1>6 DEF Updating

\* The server makes a creation where there is no node, and a change where there
\* is one of the right version.
LEMMA ReplyOk ==
  ASSUME TypeOK, NEW p \in Procs, pc[p] \in Updating, Reply(p) = "ok"
  PROVE  IF Request(p).create THEN ~node.exists
         ELSE node.exists /\ Request(p).version \in {AnyVersion, node.version}
<1>1. Request(p).create \in BOOLEAN /\ node.exists \in BOOLEAN
  BY RequestType DEF TypeOK, Nodes
<1> QED BY <1>1 DEF Reply

\* An update moves the node.
LEMMA UpdateMoves ==
  ASSUME TypeOK, Server, NEW p \in Procs, pc[p] \in Updating, Update(p)
  PROVE  Moves
<1>1. CASE Reply(p) # "ok"
  BY <1>1, StaysMoves DEF Update, serverVars
<1>2. CASE Reply(p) = "ok"
  <2> DEFINE r == Request(p)
  <2>1. /\ r.create \in BOOLEAN /\ r.value \in Data
        /\ IF r.create THEN ~node.exists ELSE node.exists
    BY <1>2, RequestType, ReplyOk
  <2>2. node' = [exists |-> TRUE, value |-> r.value,
                 version |-> IF r.create THEN 0 ELSE node.version + 1,
                 birth |-> IF r.create THEN node.birth + 1 ELSE node.birth]
    BY <1>2 DEF Update
  <2>3. node.version \in Nat /\ node.birth \in Nat
    BY DEF TypeOK, Nodes
  <2> HIDE DEF r
  <2>4. node' \in Nodes /\ node.birth <= node'.birth /\ node'.exists
    BY <2>1, <2>2, <2>3 DEF Nodes
  <2>5. Server'
    BY <2>4 DEF Server
  <2>6. ASSUME NEW s \in Nodes, Seen(s, node) PROVE Seen(s, node')
    <3>1. s.birth \in Nat /\ s.version \in Nat
      BY DEF Nodes
    <3>2. CASE r.create
      <4>1. node'.birth = node.birth + 1
        BY <2>2, <3>2
      <4> QED BY <2>3, <2>6, <3>1, <4>1 DEF Seen
    <3>3. CASE ~r.create
      <4>1. node'.birth = node.birth /\ node'.version = node.version + 1 /\ node.exists
        BY <2>1, <2>2, <3>3
      <4> QED BY <2>3, <2>4, <2>6, <3>1, <4>1 DEF Seen
    <3> QED BY <2>1, <3>2, <3>3
  <2> QED BY <2>4, <2>5, <2>6 DEF Moves
<1> QED BY <1>1, <1>2

\* So does a deletion.
LEMMA DeleteMoves ==
  ASSUME TypeOK, Delete
  PROVE  Moves
<1>1. node' = NoNode(node.birth) /\ node.birth \in Nat
  BY DEF Delete, TypeOK, Nodes
<1>2. /\ node' \in Nodes
      /\ ~node'.exists /\ node'.birth = node.birth
  BY <1>1 DEF NoNode, Nodes, Data
<1>3. Server'
  BY <1>1, <1>2 DEF Server
<1>4. ASSUME NEW s \in Nodes, Seen(s, node) PROVE Seen(s, node')
  BY <1>1, <1>2, <1>4 DEF Seen
<1> QED BY <1>1, <1>2, <1>3, <1>4 DEF Moves

-----------------------------------------------------------------------------
(* Steps of one process                                                     *)

Labels == Updating \cup {"idle", "read", "lock", "queued", "unlock"}

\* What a step of another process leaves as it is.
Same(q) ==
  /\ pc'[q] = pc[q] /\ op'[q] = op[q] /\ tries'[q] = tries[q] /\ read'[q] = read[q]
  /\ result'[q] = result[q] /\ applied'[q] = applied[q] /\ found'[q] = found[q]
  /\ repeated'[q] = repeated[q]
  /\ (holder' = q) <=> (holder = q)
  /\ touched[q] => touched'[q]
  /\ (node' = node /\ parent' = parent) \/ touched'[q]

\* A process that takes no step still fits, wherever the node has moved.
LEMMA OthersFit ==
  ASSUME IInv, Moves, NEW q \in Procs, Same(q)
  PROVE  Fits(q)' /\ Honest(q)'
<1>1. Fits(q) /\ Honest(q)
  BY DEF IInv
<1>2. read[q] \in Nodes /\ found[q] \in Nodes /\ node \in Nodes /\ node' \in Nodes
  BY DEF IInv, TypeOK, Moves
<1>0. Lost(q) => Lost(q)'
  BY DEF Same, Lost
<1>3. Honest(q)'
  BY <1>0, <1>1 DEF Same, Honest
<1>4. pc'[q] = "write" => Seen(read'[q], node')
  BY <1>1, <1>2 DEF Fits, Moves, Same
<1>5. op'[q].name = "Initialize" /\ result'[q] = "true" => found'[q].birth < node'.birth
  <2>1. node.birth \in Nat /\ node'.birth \in Nat /\ found[q].birth \in Nat
    BY <1>2 DEF Nodes
  <2> QED BY <1>1, <2>1 DEF Same, Fits, Moves
<1>6. /\ pc'[q] \notin {"idle", "unlock"} => result'[q] = "none"
      /\ pc'[q] = "unlock" => holder' = q
      /\ pc'[q] \in {"lock", "queued"} => tries'[q] = 0
      /\ pc'[q] = "initialize" => op'[q].name = "Initialize"
      /\ ~repeated'[q] /\ result'[q] = "none" => applied'[q] = 0
  BY <1>1 DEF Same, Fits
<1>7. /\ pc'[q] = "write" => touched'[q] \/ read'[q] = node'
      /\ pc'[q] = "write" => read'[q].exists \/ op'[q].name = "TrySet"
      /\ pc'[q] \in {"lock", "queued"} => Lost(q)'
  BY <1>0, <1>1 DEF Same, Fits
<1> QED BY <1>3, <1>4, <1>5, <1>6, <1>7 DEF Fits

\* It is enough to look at the process that takes the step.  What it initializes
\* is of a later life than what others have.
LEMMA OneProcess ==
  ASSUME IInv, TypeOK', Moves, NEW p \in Procs, Fits(p)', Honest(p)',
         \A q \in Procs \ {p} : Same(q),
         op'[p].name = "Initialize" /\ result'[p] = "true" =>
           \/ found'[p].birth = node.birth
           \/ op'[p] = op[p] /\ result'[p] = result[p] /\ found'[p] = found[p]
  PROVE  IInv'
<1>1. \A q \in Procs : Fits(q)' /\ Honest(q)'
  BY OthersFit
<1>2. ASSUME NEW q \in Procs \ {p},
             op'[p].name = "Initialize" /\ result'[p] = "true",
             op'[q].name = "Initialize" /\ result'[q] = "true"
      PROVE  found'[p].birth # found'[q].birth
  <2>1. found'[q].birth < node.birth
    BY <1>2 DEF Same, IInv, Fits
  <2>2. node.birth \in Nat
    BY DEF IInv, TypeOK, Nodes
  <2>3. CASE found'[p].birth = node.birth
    BY <2>1, <2>2, <2>3
  <2>4. CASE op'[p] = op[p] /\ result'[p] = result[p] /\ found'[p] = found[p]
    BY <1>2, <2>4 DEF Same, IInv, OneInitializer
  <2> QED BY <1>2, <2>3, <2>4
<1>3. OneInitializer'
  <2> SUFFICES ASSUME NEW q \in Procs, NEW r \in Procs, q # r,
                      op'[q].name = "Initialize" /\ result'[q] = "true",
                      op'[r].name = "Initialize" /\ result'[r] = "true",
                      found'[q].birth = found'[r].birth
               PROVE  FALSE
    BY DEF OneInitializer
  <2>1. CASE q = p
    BY <1>2, <2>1
  <2>2. CASE r = p
    BY <1>2, <2>2
  <2>3. CASE q # p /\ r # p
    BY <2>3 DEF Same, IInv, OneInitializer
  <2> QED BY <2>1, <2>2, <2>3
<1> QED BY <1>1, <1>3 DEF IInv, Moves

\* Where a process is after Return.
LEMMA ReturnType ==
  ASSUME TypeOK, NEW p \in Procs, NEW r \in {"none", "true", "false", "error"}, Return(p, r)
  PROVE  /\ pc' \in [Procs -> Labels]
         /\ result' \in [Procs -> {"none", "true", "false", "error"}]
         /\ pc'[p] = IF holder = p THEN "unlock" ELSE "idle"
         /\ result'[p] = r
         /\ \A q \in Procs \ {p} : pc'[q] = pc[q] /\ result'[q] = result[q]
BY DEF Return, TypeOK, Labels

\* The same for Goto.
LEMMA GotoType ==
  ASSUME TypeOK, NEW p \in Procs, NEW label \in Labels, Goto(p, label)
  PROVE  /\ pc' \in [Procs -> Labels]
         /\ result' = result
         /\ pc'[p] = label
         /\ \A q \in Procs \ {p} : pc'[q] = pc[q]
BY DEF Goto, TypeOK, Labels

\* What Update changes apart from the node.
LEMMA UpdateType ==
  ASSUME TypeOK, NEW p \in Procs, Update(p)
  PROVE  /\ applied' \in [Procs -> Nat] /\ found' \in [Procs -> Nodes]
         /\ touched' \in [Procs -> BOOLEAN]
         /\ \A q \in Procs \ {p} : applied'[q] = applied[q] /\ found'[q] = found[q]
         /\ Reply(p) = "ok" => applied'[p] = applied[p] + 1 /\ found'[p] = node
         /\ Reply(p) # "ok" => applied'[p] = applied[p] /\ found'[p] = found[p]
         /\ \A q \in Procs : /\ touched[q] => touched'[q]
                             /\ node' = node \/ touched'[q]
         /\ UNCHANGED <<parent, queue>>
<1>0. /\ \A q \in Procs : touched[q] => touched'[q]
      /\ \A q \in Procs : node' = node \/ touched'[q]
      /\ UNCHANGED <<parent, queue>>
  <2>1. CASE Reply(p) = "ok"
    BY Zenon, <2>1 DEF Update, Touch
  <2>2. CASE Reply(p) # "ok"
    BY <2>2 DEF Update, serverVars
  <2> QED BY <2>1, <2>2
<1>1. touched' \in [Procs -> BOOLEAN]
  <2>1. CASE Reply(p) = "ok"
    <3>1. Touch
      BY <2>1 DEF Update
    <3> QED BY Zenon, <3>1 DEF Touch
  <2>2. CASE Reply(p) # "ok"
    BY Zenon, <2>2 DEF Update, TypeOK
  <2> QED BY <2>1, <2>2
<1>2. CASE Reply(p) = "ok"
  <2>1. applied' = [applied EXCEPT ![p] = @ + 1] /\ found' = [found EXCEPT ![p] = node]
    BY <1>2 DEF Update
  <2>2. applied \in [Procs -> Nat] /\ found \in [Procs -> Nodes] /\ node \in Nodes
    BY DEF TypeOK
  <2> QED BY <1>0, <1>1, <1>2, <2>1, <2>2
<1>3. CASE Reply(p) # "ok"
  BY <1>0, <1>1, <1>3 DEF Update, TypeOK, serverVars
<1> QED BY <1>2, <1>3

-----------------------------------------------------------------------------
(* Updates                                                                  *)

\* An update with the version that was read replaces what was read, unless the
\* node was created anew.
LEMMA ReplacesRead ==
  ASSUME IInv, NEW p \in Procs, pc[p] = "write", Reply(p) = "ok",
         node.birth = read[p].birth
  PROVE  node = read[p]
<1>1. Seen(read[p], node) /\ read[p] \in Nodes /\ node \in Nodes
  BY DEF IInv, Fits, TypeOK
<1>2. /\ Request(p).create = ~read[p].exists
      /\ Request(p).version = read[p].version
  BY DEF Request
<1>3. IF Request(p).create THEN ~node.exists
      ELSE node.exists /\ Request(p).version \in {AnyVersion, node.version}
  BY Zenon, ReplyOk DEF IInv, Updating
<1>4. CASE read[p].exists
  <2>1. node.exists /\ read[p].version \in {AnyVersion, node.version}
    BY Zenon, <1>2, <1>3, <1>4
  <2>2. read[p].version \in Nat /\ node.version \in Nat
    BY <1>1 DEF Nodes
  <2>3. read[p].version = node.version
    BY <2>1, <2>2 DEF AnyVersion
  <2> QED BY <1>1, <1>4, <2>1, <2>2, <2>3 DEF Seen
<1>5. CASE ~read[p].exists
  <2>1. ~node.exists
    BY Zenon, <1>2, <1>3, <1>5
  <2>2. node = NoNode(node.birth) /\ read[p] = NoNode(read[p].birth)
    BY <1>1, <1>5, <2>1 DEF IInv, Server, Seen
  <2> QED BY <2>2
<1> QED BY <1>4, <1>5

\* The server refuses it only if the node has changed since it was read, or a node to
\* be created has no parent.
LEMMA RefusedIsLost ==
  ASSUME IInv, NEW p \in Procs, pc[p] = "write", Reply(p) # "ok"
  PROVE  touched[p] \/ (~read[p].exists /\ ~parent)
<1>1. node.exists \in BOOLEAN /\ (touched[p] \/ read[p] = node)
  BY DEF IInv, TypeOK, Nodes, Fits
<1>2. CASE read[p] = node /\ (node.exists \/ parent)
  <2>1. Request(p).create = ~node.exists /\ Request(p).version = node.version
    BY <1>2 DEF Request
  <2>2. Reply(p) = "ok"
    BY Zenon, <1>1, <1>2, <2>1 DEF Reply
  <2> QED BY <2>2
<1> QED BY <1>1, <1>2

\* Arithmetic, for what an update adds to
LEMMA OneMore == 0 + 1 = 1 /\ \A n \in Nat : n < n + 1
OBVIOUS

\* Initialize begins a new life of the node.
LEMMA InitializeBegins ==
  ASSUME TypeOK, NEW p \in Procs, pc[p] = "initialize", Update(p), Reply(p) = "ok"
  PROVE  node'.birth = node.birth + 1
<1>1. Request(p).create = TRUE
  BY DEF Request
<1> QED BY <1>1 DEF Update

\* An update was made or refused, and the method returns, goes on, or does not
\* know and asks for it again.
LEMMA UpdateStep ==
  ASSUME IInv, NEW p \in Procs, pc[p] \in Updating, Update(p),
         UNCHANGED <<holder, deletes, op, calls, read>>, faults' \in 0 .. MaxFaults,
         tries' \in [Procs -> Nat], \A q \in Procs \ {p} : tries'[q] = tries[q],
         repeated' \in [Procs -> BOOLEAN],
         \A q \in Procs \ {p} : repeated'[q] = repeated[q],
         \/ /\ Return(p, "true") /\ Reply(p) = "ok" /\ repeated'[p] = repeated[p]
            /\ op[p].name \in {"CompareAndSet", "TrySet"} => pc[p] = "write"
            /\ op[p].name = "Initialize" => pc[p] = "initialize"
         \/ /\ Return(p, "false") /\ Reply(p) # "ok" /\ repeated'[p] = repeated[p]
            /\ pc[p] = "write" \/ op[p].name = "Initialize"
         \/ Return(p, "error") /\ repeated'[p] = repeated[p]
         \/ /\ \E label \in {"read", "lock", "forceCreate", "forceAgain"} :
                 /\ Goto(p, label)
                 /\ label = "lock" => tries'[p] = 0 /\ pc[p] = "write"
                 /\ label = "read" => tries'[p] < IF holder = p THEN PromotedN ELSE N
            /\ Reply(p) # "ok" /\ repeated'[p] = repeated[p]
         \/ UNCHANGED <<pc, result, tries>> /\ repeated'[p] = TRUE
  PROVE  IInv'
<1>1. TypeOK /\ Server /\ Fits(p)
  BY DEF IInv
<1>2. Moves
  BY <1>1, UpdateMoves
<1>3. /\ applied' \in [Procs -> Nat] /\ found' \in [Procs -> Nodes]
      /\ touched' \in [Procs -> BOOLEAN]
      /\ \A q \in Procs \ {p} : applied'[q] = applied[q] /\ found'[q] = found[q]
      /\ Reply(p) = "ok" => applied'[p] = applied[p] + 1 /\ found'[p] = node
      /\ Reply(p) # "ok" => applied'[p] = applied[p] /\ found'[p] = found[p]
      /\ \A q \in Procs : /\ touched[q] => touched'[q]
                          /\ node' = node \/ touched'[q]
      /\ UNCHANGED <<parent, queue>>
  BY Zenon, <1>1, UpdateType
<1>4. result[p] = "none" /\ (~repeated[p] => applied[p] = 0)
  BY Zenon, <1>1 DEF Fits, Updating
<1>5. node' \in Nodes
  BY Zenon, <1>2 DEF Moves
<1>6. ASSUME pc' \in [Procs -> Labels],
             result' \in [Procs -> {"none", "true", "false", "error"}],
             \A q \in Procs \ {p} : pc'[q] = pc[q] /\ result'[q] = result[q],
             pc'[p] = "read" => tries'[p] < IF holder = p THEN PromotedN ELSE N,
             Fits(p)', Honest(p)',
             op[p].name = "Initialize" /\ result'[p] = "true" => found'[p] = node
      PROVE  IInv'
  <2>1. \A q \in Procs \ {p} : Same(q)
    BY Zenon, <1>3, <1>6 DEF Same
  <2>2. \A q \in Procs : pc'[q] = "read" /\ tries'[q] > 0
                          => tries'[q] < IF holder' = q THEN PromotedN ELSE N
    BY <1>1, <1>6 DEF TypeOK
  <2>3. TypeOK'
    BY Zenon, <1>1, <1>3, <1>5, <1>6, <2>2 DEF TypeOK, Labels
  <2> QED BY Zenon, <1>2, <1>6, <2>1, <2>3, OneProcess
<1>7. CASE /\ Return(p, "true") /\ Reply(p) = "ok" /\ repeated'[p] = repeated[p]
           /\ op[p].name \in {"CompareAndSet", "TrySet"} => pc[p] = "write"
           /\ op[p].name = "Initialize" => pc[p] = "initialize"
  <2>1. /\ pc' \in [Procs -> Labels]
        /\ result' \in [Procs -> {"none", "true", "false", "error"}]
        /\ pc'[p] = IF holder = p THEN "unlock" ELSE "idle"
        /\ result'[p] = "true"
        /\ \A q \in Procs \ {p} : pc'[q] = pc[q] /\ result'[q] = result[q]
    BY <1>1, <1>7, ReturnType
  <2>2. op[p].name = "Initialize" => found'[p].birth < node'.birth
    <3> SUFFICES ASSUME op[p].name = "Initialize" PROVE found'[p].birth < node'.birth
      BY Zenon
    <3>1. node.birth \in Nat
      BY <1>1 DEF TypeOK, Nodes
    <3>2. Reply(p) = "ok" /\ pc[p] = "initialize"
      BY Zenon, <1>7
    <3>3. node'.birth = node.birth + 1
      BY Zenon, <1>1, <3>2, InitializeBegins
    <3>4. found'[p] = node
      BY Zenon, <1>3, <3>2
    <3> QED BY Zenon, <3>1, <3>3, <3>4, OneMore
  <2>3. Fits(p)'
    BY Zenon, <2>1, <2>2 DEF Fits
  <2>4. op[p].name \in {"CompareAndSet", "TrySet"} /\ node.birth = read[p].birth
          => node = read[p]
    BY Zenon, <1>7, ReplacesRead
  <2>5. ~repeated[p] => applied'[p] = 1
    <3>1. applied'[p] = applied[p] + 1
      BY Zenon, <1>3, <1>7
    <3> QED BY Zenon, <1>4, <3>1, OneMore
  <2>6. Honest(p)'
    BY Zenon, <1>3, <1>7, <2>1, <2>4, <2>5 DEF Honest
  <2> QED BY Zenon, <1>3, <1>6, <1>7, <2>1, <2>3, <2>6
<1>8. ASSUME NEW r \in {"false", "error"}, Return(p, r), repeated'[p] = repeated[p],
             r = "false" => Reply(p) # "ok" /\ (pc[p] = "write" \/ op[p].name = "Initialize")
      PROVE  IInv'
  <2>1. /\ pc' \in [Procs -> Labels]
        /\ result' \in [Procs -> {"none", "true", "false", "error"}]
        /\ pc'[p] = IF holder = p THEN "unlock" ELSE "idle"
        /\ result'[p] = r
        /\ \A q \in Procs \ {p} : pc'[q] = pc[q] /\ result'[q] = result[q]
    BY Zenon, <1>1, <1>8, ReturnType
  <2>2. Fits(p)'
    BY Zenon, <2>1 DEF Fits
  <2>3. r = "false" => op[p].name = "Initialize" \/ Lost(p)'
    BY Zenon, <1>1, <1>3, <1>8, RefusedIsLost DEF Lost, Fits
  <2>4. Honest(p)'
    BY Zenon, <1>3, <1>4, <1>8, <2>1, <2>3 DEF Honest
  <2> QED BY Zenon, <1>6, <2>1, <2>2, <2>4
<1>9. ASSUME NEW label \in {"read", "lock", "forceCreate", "forceAgain"}, Goto(p, label),
             label = "lock" => tries'[p] = 0 /\ pc[p] = "write",
             label = "read" => tries'[p] < IF holder = p THEN PromotedN ELSE N,
             Reply(p) # "ok", repeated'[p] = repeated[p]
      PROVE  IInv'
  <2>1. /\ pc' \in [Procs -> Labels] /\ result' = result /\ pc'[p] = label
        /\ \A q \in Procs \ {p} : pc'[q] = pc[q]
    BY Zenon, <1>1, <1>9, GotoType DEF Labels, Updating
  <2>2. label = "lock" => Lost(p)'
    BY Zenon, <1>1, <1>3, <1>9, RefusedIsLost DEF Lost, Fits
  <2>3. Fits(p)' /\ Honest(p)'
    BY Zenon, <1>3, <1>4, <1>9, <2>1, <2>2 DEF Fits, Honest
  <2> QED BY Zenon, <1>1, <1>4, <1>6, <1>9, <2>1, <2>3 DEF TypeOK
<1>10. CASE UNCHANGED <<pc, result, tries>> /\ repeated'[p] = TRUE
  <2>1. pc'[p] = "write" => Seen(read'[p], node')
    BY Zenon, <1>1, <1>2, <1>10 DEF Fits, Moves, TypeOK
  <2>2. Fits(p)' /\ Honest(p)'
    BY Zenon, <1>1, <1>3, <1>4, <1>10, <2>1 DEF Fits, Honest, Updating
  <2>3. pc[p] # "read"
    BY Zenon DEF Updating
  <2> QED BY Zenon, <1>1, <1>4, <1>6, <1>10, <2>2, <2>3 DEF TypeOK, Labels
<1> QED BY Zenon, <1>7, <1>8, <1>9, <1>10

\* The actions that update the node.
LEMMA UpdatesKeep ==
  ASSUME IInv, NEW p \in Procs,
         \/ CompareAndSet(p) \/ TryOnce(p) \/ ForceSet(p) \/ Initialize(p)
         \/ ReplyLost(p)
  PROVE  IInv'
<1>1. /\ faults \in 0 .. MaxFaults /\ tries \in [Procs -> Nat]
      /\ repeated \in [Procs -> BOOLEAN] /\ MaxFaults \in Nat
  BY Zenon, ValueAssumption DEF IInv, TypeOK
<1>2. CASE CompareAndSet(p)
  BY Zenon, <1>1, <1>2, UpdateStep DEF CompareAndSet, Updating
<1>3. CASE TryOnce(p)
  <2> DEFINE count == tries[p] + 1
  <2>1. /\ pc[p] \in Updating /\ pc[p] = "write" /\ op[p].name = "TrySet" /\ Update(p)
        /\ UNCHANGED <<holder, faults, deletes, op, calls, read, repeated>>
    BY Zenon, <1>3 DEF TryOnce, Updating
  <2>2. CASE Reply(p) = "ok"
    <3>1. Return(p, "true") /\ tries' = tries
      BY Zenon, <1>3, <2>2 DEF TryOnce
    <3> QED BY Zenon, <1>1, <2>1, <2>2, <3>1, UpdateStep
  <2>3. CASE Reply(p) # "ok" /\ AllowRetry(p, count)
    <3>1. Goto(p, "read") /\ tries' = [tries EXCEPT ![p] = count]
      BY Zenon, <1>3, <2>3 DEF TryOnce
    <3>2. /\ tries' \in [Procs -> Nat] /\ tries'[p] = count
          /\ \A q \in Procs \ {p} : tries'[q] = tries[q]
      BY <1>1, <3>1
    <3>3. tries'[p] < IF holder = p THEN PromotedN ELSE N
      BY <2>3, <3>2 DEF AllowRetry
    <3> QED BY Zenon, <1>1, <2>1, <2>3, <3>1, <3>2, <3>3, UpdateStep
  <2>4. CASE Reply(p) # "ok" /\ ~AllowRetry(p, count) /\ Promoted /\ holder # p
    <3>1. Goto(p, "lock") /\ tries' = [tries EXCEPT ![p] = 0]
      BY Zenon, <1>3, <2>4 DEF TryOnce
    <3>2. /\ tries' \in [Procs -> Nat] /\ tries'[p] = 0
          /\ \A q \in Procs \ {p} : tries'[q] = tries[q]
      BY <1>1, <3>1
    <3> QED BY Zenon, <1>1, <2>1, <2>4, <3>1, <3>2, UpdateStep
  <2>5. CASE Reply(p) # "ok" /\ ~AllowRetry(p, count) /\ ~(Promoted /\ holder # p)
    <3>1. Return(p, "false") /\ tries' = tries
      BY Zenon, <1>3, <2>5 DEF TryOnce
    <3> QED BY Zenon, <1>1, <2>1, <2>5, <3>1, UpdateStep
  <2> QED BY <2>2, <2>3, <2>4, <2>5
<1>4. CASE ForceSet(p)
  <2>1. \/ Reply(p) = "ok" /\ Return(p, "true")
        \/ Reply(p) # "ok" /\ (Goto(p, "forceCreate") \/ Goto(p, "forceAgain"))
        \/ Return(p, "error")
    BY Zenon, <1>4 DEF ForceSet
  <2>2. /\ pc[p] \in Updating /\ op[p].name = "ForceSet" /\ Update(p)
        /\ UNCHANGED <<holder, faults, deletes, op, calls, tries, read, repeated>>
    BY Zenon, <1>4 DEF ForceSet
  <2> QED BY Zenon, <1>1, <2>1, <2>2, UpdateStep
<1>5. CASE Initialize(p)
  <2>1. op[p].name = "Initialize" /\ pc[p] \in Updating
    BY Zenon, <1>5 DEF Initialize, IInv, Fits, Updating
  <2>2. \/ Reply(p) = "ok" /\ Return(p, "true")
        \/ Reply(p) # "ok" /\ Return(p, "false")
        \/ Return(p, "error")
    BY <1>5 DEF Initialize
  <2> QED BY Zenon, <1>1, <1>5, <2>1, <2>2, UpdateStep DEF Initialize
<1>6. CASE ReplyLost(p)
  <2>1. /\ pc[p] \in Updating /\ Update(p)
        /\ UNCHANGED <<holder, deletes, op, calls, tries, read>>
        /\ faults' \in 0 .. MaxFaults
    <3>1. faults < MaxFaults /\ faults' = faults + 1
      BY <1>6 DEF ReplyLost
    <3>2. faults' \in 0 .. MaxFaults
      BY <1>1, <3>1
    <3> QED BY <1>6, <3>2 DEF ReplyLost
  <2>2. CASE repeated' = [repeated EXCEPT ![p] = TRUE] /\ UNCHANGED <<pc, result>>
    <3>1. /\ repeated' \in [Procs -> BOOLEAN] /\ repeated'[p] = TRUE
          /\ \A q \in Procs \ {p} : repeated'[q] = repeated[q]
      BY <1>1, <2>2
    <3> QED BY Zenon, <1>1, <2>1, <2>2, <3>1, UpdateStep
  <2>3. CASE Return(p, "error") /\ UNCHANGED repeated
    BY Zenon, <1>1, <2>1, <2>3, UpdateStep
  <2> QED BY <1>6, <2>2, <2>3 DEF ReplyLost
<1> QED BY <1>2, <1>3, <1>4, <1>5, <1>6

-----------------------------------------------------------------------------
(* The other actions                                                        *)

\* A method begins afresh.
LEMMA CallKeeps ==
  ASSUME IInv, NEW p \in Procs, Call(p)
  PROVE  IInv'
<1>1. TypeOK /\ Server
  BY DEF IInv
<1>0. PICK name \in Operations :
        /\ \E args \in Arguments(name) :
             op' = [op EXCEPT ![p] = [name |-> name, expected |-> args[1], new |-> args[2]]]
        /\ pc' = [pc EXCEPT ![p] = First(name)]
  BY Zenon DEF Call
<1>2. PICK args \in Arguments(name) :
        op' = [op EXCEPT ![p] = [name |-> name, expected |-> args[1], new |-> args[2]]]
  BY Zenon, <1>0
<1>3. args[1] \in Data /\ args[2] \in Data
  BY DEF Arguments, Data
<1>4. /\ First(name) \in {"force", "initialize", "read"}
      /\ First(name) = "initialize" => name = "Initialize"
  BY DEF First
<1>5. NoNode(0) \in Nodes
  BY DEF NoNode, Nodes, Data
<1>6. /\ tries' = [tries EXCEPT ![p] = 0] /\ read' = [read EXCEPT ![p] = NoNode(0)]
      /\ result' = [result EXCEPT ![p] = "none"] /\ applied' = [applied EXCEPT ![p] = 0]
      /\ found' = [found EXCEPT ![p] = NoNode(0)]
      /\ touched' = [touched EXCEPT ![p] = FALSE] /\ repeated' = [repeated EXCEPT ![p] = FALSE]
      /\ calls' \in 0 .. MaxCalls
      /\ UNCHANGED <<node, parent, queue, holder, faults, deletes>>
  <2>1. calls \in 0 .. MaxCalls /\ calls < MaxCalls /\ calls' = calls + 1
    BY Zenon, <1>1 DEF Call, TypeOK
  <2>2. calls' \in 0 .. MaxCalls
    BY <2>1, ValueAssumption
  <2> QED BY Zenon, <2>2 DEF Call, serverVars
<1>7. /\ op' \in [Procs -> [name : Operations \cup {"none"}, expected : Data, new : Data]]
      /\ op'[p].name = name
      /\ \A q \in Procs \ {p} : op'[q] = op[q]
  BY <1>1, <1>2, <1>3 DEF TypeOK
<1>8. /\ pc' \in [Procs -> Labels] /\ pc'[p] = First(name)
      /\ \A q \in Procs \ {p} : pc'[q] = pc[q]
  BY Zenon, <1>0, <1>1, <1>4 DEF TypeOK, Labels, Updating
<1>9. /\ tries'[p] = 0 /\ result'[p] = "none" /\ applied'[p] = 0
      /\ \A q \in Procs \ {p} : Same(q)
  BY <1>1, <1>6, <1>7, <1>8 DEF Same, TypeOK
<1>10. TypeOK'
  <2>1. \A q \in Procs : pc'[q] = "read" /\ tries'[q] > 0
                         => tries'[q] < IF holder' = q THEN PromotedN ELSE N
    <3> TAKE q \in Procs
    <3>1. CASE q = p
      BY <1>9, <3>1
    <3>2. CASE q # p
      <4>1. pc'[q] = pc[q] /\ tries'[q] = tries[q] /\ holder' = holder
        BY Zenon, <1>6, <1>9, <3>2 DEF Same
      <4> QED BY Zenon, <1>1, <4>1 DEF TypeOK
    <3> QED BY <3>1, <3>2
  <2>2. /\ tries' \in [Procs -> Nat] /\ read' \in [Procs -> Nodes]
        /\ result' \in [Procs -> {"none", "true", "false", "error"}]
        /\ applied' \in [Procs -> Nat] /\ found' \in [Procs -> Nodes]
    BY <1>1, <1>5, <1>6 DEF TypeOK
  <2>3. touched' \in [Procs -> BOOLEAN] /\ repeated' \in [Procs -> BOOLEAN]
    BY <1>1, <1>6 DEF TypeOK
  <2> QED BY Zenon, <1>1, <1>6, <1>7, <1>8, <2>1, <2>2, <2>3 DEF TypeOK, Labels
<1>11. Fits(p)' /\ Honest(p)'
  BY Zenon, <1>4, <1>7, <1>8, <1>9 DEF Fits, Honest
<1>12. Moves
  BY <1>1, <1>6, StaysMoves
<1> QED BY Zenon, <1>9, <1>10, <1>11, <1>12, OneProcess

\* What a process reads is the node.
LEMMA CurrentValueKeeps ==
  ASSUME IInv, NEW p \in Procs, CurrentValue(p)
  PROVE  IInv'
<1>1. TypeOK /\ Server /\ Fits(p) /\ pc[p] = "read"
  BY Zenon DEF IInv, CurrentValue
<1>2. /\ read' = [read EXCEPT ![p] = node] /\ touched' = [touched EXCEPT ![p] = FALSE]
      /\ UNCHANGED <<node, parent, queue, holder, faults, deletes, op, calls, tries, applied,
                     found, repeated>>
  BY DEF CurrentValue, serverVars
<1>3. /\ read' \in [Procs -> Nodes] /\ read'[p] = node
      /\ \A q \in Procs \ {p} : read'[q] = read[q]
  BY <1>1, <1>2 DEF TypeOK
<1>4. touched' \in [Procs -> BOOLEAN]
  BY <1>1, <1>2 DEF TypeOK
<1>5. result[p] = "none" /\ (~repeated[p] => applied[p] = 0)
  BY Zenon, <1>1 DEF Fits
<1>6. Seen(node, node)
  <2>1. node.birth \in Nat
    BY <1>1 DEF TypeOK, Nodes
  <2> QED BY <1>1, <2>1 DEF Seen, Server
<1>7. /\ pc' \in [Procs -> Labels]
      /\ result' \in [Procs -> {"none", "true", "false", "error"}]
      /\ \A q \in Procs \ {p} : pc'[q] = pc[q] /\ result'[q] = result[q]
      /\ \/ /\ pc'[p] = IF holder = p THEN "unlock" ELSE "idle"
            /\ \/ op[p].name = "Get" /\ result'[p] = "true"
               \/ /\ op[p].name = "CompareAndSet" /\ result'[p] = "false"
                  /\ ~node.exists \/ node.value # op[p].expected
         \/ /\ pc'[p] = "write" /\ result'[p] = "none"
            /\ node.exists \/ op[p].name = "TrySet"
  <2>1. \/ op[p].name = "Get" /\ Return(p, "true")
        \/ /\ op[p].name = "CompareAndSet" /\ Return(p, "false")
           /\ ~node.exists \/ node.value # op[p].expected
        \/ Goto(p, "write") /\ (node.exists \/ op[p].name = "TrySet")
    BY Zenon DEF CurrentValue
  <2>2. "write" \in Labels
    BY DEF Labels, Updating
  <2>3. CASE op[p].name = "Get" /\ Return(p, "true")
    BY Zenon, <1>1, <2>3, ReturnType
  <2>4. CASE /\ op[p].name = "CompareAndSet" /\ Return(p, "false")
             /\ ~node.exists \/ node.value # op[p].expected
    BY Zenon, <1>1, <2>4, ReturnType
  <2>5. CASE Goto(p, "write") /\ (node.exists \/ op[p].name = "TrySet")
    <3>1. result \in [Procs -> {"none", "true", "false", "error"}]
      BY <1>1 DEF TypeOK
    <3> QED BY <1>1, <1>5, <2>2, <2>5, <3>1, GotoType
  <2> QED BY Zenon, <2>1, <2>3, <2>4, <2>5
<1>8. TypeOK'
  <2>1. \A q \in Procs : pc'[q] = "read" /\ tries'[q] > 0
                         => tries'[q] < IF holder' = q THEN PromotedN ELSE N
    BY <1>1, <1>2, <1>7 DEF TypeOK
  <2> QED BY Zenon, <1>1, <1>2, <1>3, <1>4, <1>7, <2>1 DEF TypeOK, Labels
<1>9. \A q \in Procs \ {p} : Same(q)
  <2> TAKE q \in Procs \ {p}
  <2>1. pc'[q] = pc[q] /\ result'[q] = result[q] /\ read'[q] = read[q]
    BY Zenon, <1>3, <1>7
  <2>2. touched'[q] = touched[q]
    BY <1>1, <1>2 DEF TypeOK
  <2> QED BY Zenon, <1>2, <2>1, <2>2 DEF Same
<1>10. Fits(p)'
  BY Zenon, <1>2, <1>3, <1>5, <1>6, <1>7 DEF Fits
<1>11. Honest(p)'
  BY Zenon, <1>2, <1>3, <1>5, <1>7 DEF Honest
<1>12. Moves
  BY <1>1, <1>2, StaysMoves
<1> QED BY Zenon, <1>2, <1>7, <1>8, <1>9, <1>10, <1>11, <1>12, OneProcess

\* What others delete or create changes nothing that a process has.
LEMMA DeleteKeeps ==
  ASSUME IInv, Delete \/ CreateParent
  PROVE  IInv'
<1>1. TypeOK /\ Server
  BY DEF IInv
<1>2. Moves /\ parent' \in BOOLEAN
  <2>1. CASE Delete
    BY <1>1, <2>1, DeleteMoves DEF Delete, TypeOK, Nodes
  <2>2. CASE CreateParent
    BY <1>1, <2>2, StaysMoves DEF CreateParent
  <2> QED BY <2>1, <2>2
<1>3. /\ UNCHANGED <<queue, holder, faults, op, pc, calls, tries, read, result, applied, found,
                     repeated>>
      /\ Touch
  BY DEF Delete, CreateParent
<1>4. touched' \in [Procs -> BOOLEAN] /\ \A q \in Procs : touched'[q]
  BY Zenon, <1>3 DEF Touch
<1>5. deletes' \in 0 .. MaxDeletes
  <2>1. (deletes < MaxDeletes /\ deletes' = deletes + 1) \/ deletes' = deletes
    BY DEF Delete, CreateParent
  <2>2. deletes \in 0 .. MaxDeletes /\ MaxDeletes \in Nat
    BY <1>1, ValueAssumption DEF TypeOK
  <2> QED BY <2>1, <2>2
<1>6. TypeOK'
  BY <1>1, <1>2, <1>3, <1>4, <1>5 DEF TypeOK, Moves
<1>7. \A q \in Procs : Fits(q)' /\ Honest(q)'
  BY Zenon, <1>2, <1>3, <1>4, OthersFit DEF Same
<1>8. OneInitializer'
  BY Zenon, <1>3 DEF IInv, OneInitializer
<1> QED BY <1>2, <1>6, <1>7, <1>8 DEF IInv, Moves

-----------------------------------------------------------------------------
(* The promoted mutex                                                       *)

\* The mutex is held only by a TrySet that makes its tries with it or is about to
\* release it; none waits for the mutex that it holds.
HolderWorks ==
  /\ holder # NoProc =>
       holder \in Procs /\ pc[holder] \in {"read", "write", "unlock"}
         /\ op[holder].name = "TrySet"
  /\ \A p \in Procs : pc[p] \in {"lock", "queued"} => op[p].name = "TrySet" /\ holder # p

\* The first lock node is the holder's; each of the others is of a process that waits,
\* or was left by a call that failed; and no process has two.
QueueInv ==
  /\ holder # NoProc => queue # <<>> /\ queue[1] = holder
  /\ \A i \in 1 .. Len(queue) :
       IF queue[i] = Left THEN faults > 0
       ELSE pc[queue[i]] = "queued" \/ holder = queue[i]
  /\ \A i, j \in 1 .. Len(queue) : queue[i] = queue[j] /\ queue[i] # Left => i = j

\* What a step of process p shows, when it leaves the mutex alone.
LEMMA HolderFrame ==
  ASSUME TypeOK, HolderWorks, NEW p \in Procs, holder' = holder,
         \A q \in Procs \ {p} : pc'[q] = pc[q] /\ op'[q] = op[q],
         holder = p => pc'[p] \in {"read", "write", "unlock"} /\ op'[p] = op[p],
         pc'[p] \in {"lock", "queued"} => op'[p].name = "TrySet" /\ holder # p
  PROVE  HolderWorks'
<1>1. ASSUME holder # NoProc
      PROVE  /\ holder \in Procs /\ pc'[holder] \in {"read", "write", "unlock"}
             /\ op'[holder].name = "TrySet"
  BY <1>1 DEF HolderWorks
<1>2. ASSUME NEW q \in Procs, pc'[q] \in {"lock", "queued"}
      PROVE  op'[q].name = "TrySet" /\ holder # q
  BY <1>2 DEF HolderWorks
<1> QED BY <1>1, <1>2 DEF HolderWorks

\* Where a process is after Goto and Return
LEMMA GotoIs ==
  ASSUME TypeOK, NEW p \in Procs
  PROVE  /\ \A l : Goto(p, l) => pc'[p] = l /\ \A q \in Procs \ {p} : pc'[q] = pc[q]
         /\ \A r : Return(p, r) =>
              /\ pc'[p] = IF holder = p THEN "unlock" ELSE "idle"
              /\ \A q \in Procs \ {p} : pc'[q] = pc[q]
<1>1. pc \in [Procs -> Updating \cup {"idle", "read", "lock", "queued", "unlock"}]
  BY DEF TypeOK
<1> QED BY <1>1 DEF Goto, Return

\* What happens to the lock nodes leaves a queue of them.
LEMMA QueueType ==
  ASSUME TypeOK, QueueInv, NEW p \in Procs, Fits(p),
         \/ CreatesTheLock(p) \/ AcquireTimeout(p) \/ Release(p) \/ NotLocked(p)
         \/ LockReplyLost(p) \/ ReleaseFails(p) \/ CallFails(p)
  PROVE  queue' \in Seq(Procs \cup {Left})
<1>1. queue \in Seq(Procs \cup {Left}) /\ NoProc \notin Procs
  BY ValueAssumption DEF TypeOK
<1>2. CASE CreatesTheLock(p) \/ LockReplyLost(p)
  <2>1. queue' \in {Append(queue, p), Append(queue, Left)}
    BY Zenon, <1>2 DEF CreatesTheLock, LockReplyLost
  <2> QED BY <1>1, <2>1, AppendProperties
<1>3. CASE AcquireTimeout(p) \/ CallFails(p)
  BY <1>1, <1>3 DEF AcquireTimeout, CallFails, serverVars
<1>4. CASE NotLocked(p)
  <2>1. queue' = [i \in DOMAIN queue |-> IF queue[i] = p THEN Left ELSE queue[i]]
    BY <1>4 DEF NotLocked
  <2> QED BY <1>1, <2>1
<1>5. CASE Release(p) \/ ReleaseFails(p)
  <2>1. pc[p] = "unlock" /\ queue' \in {Tail(queue), [queue EXCEPT ![1] = Left]}
    BY <1>5 DEF Release, ReleaseFails
  <2>2. queue # <<>>
    BY <1>1, <2>1 DEF Fits, QueueInv
  <2>3. 1 \in 1 .. Len(queue)
    BY <1>1, <2>2
  <2> QED BY <1>1, <2>1, <2>2, <2>3, HeadTailProperties, ExceptSeq
<1> QED BY <1>2, <1>3, <1>4, <1>5

\* A step that leaves the lock nodes, the holder and those who wait.
LEMMA QueueFrame ==
  ASSUME TypeOK, QueueInv, UNCHANGED <<queue, holder>>, faults' \in Nat, faults' >= faults,
         \A q \in Procs : pc[q] = "queued" => pc'[q] = "queued"
  PROVE  QueueInv'
<1>1. queue \in Seq(Procs \cup {Left}) /\ faults \in Nat
  BY ValueAssumption DEF TypeOK
<1>2. ASSUME NEW i \in 1 .. Len(queue)
      PROVE  IF queue[i] = Left THEN faults' > 0
             ELSE pc'[queue[i]] = "queued" \/ holder = queue[i]
  <2>1. queue[i] \in Procs \cup {Left}
    BY <1>1, <1>2
  <2>2. IF queue[i] = Left THEN faults > 0
        ELSE pc[queue[i]] = "queued" \/ holder = queue[i]
    BY <1>2 DEF QueueInv
  <2> QED BY <1>1, <2>1, <2>2
<1> QED BY Zenon, <1>2 DEF QueueInv

\* A lock node more, of a process that had none or of nobody.
LEMMA QueueGrows ==
  ASSUME TypeOK, QueueInv, NEW x \in Procs \cup {Left}, queue' = Append(queue, x), holder' = holder,
         faults' \in Nat, faults' >= faults,
         \A q \in Procs : pc[q] = "queued" => pc'[q] = "queued",
         IF x = Left THEN faults' > 0 ELSE pc[x] # "queued" /\ holder # x /\ pc'[x] = "queued"
  PROVE  QueueInv'
<1>1. queue \in Seq(Procs \cup {Left}) /\ faults \in Nat /\ Len(queue) \in Nat
  BY ValueAssumption DEF TypeOK
<1>2. /\ Len(queue') = Len(queue) + 1 /\ queue'[Len(queue) + 1] = x /\ queue' # <<>>
      /\ \A i \in 1 .. Len(queue) : queue'[i] = queue[i]
  BY <1>1, AppendProperties
<1>3. ASSUME NEW i \in 1 .. Len(queue)
      PROVE  /\ IF queue[i] = Left THEN faults' > 0
                ELSE pc'[queue[i]] = "queued" \/ holder = queue[i]
             /\ queue[i] = x => x = Left
  <2>1. queue[i] \in Procs \cup {Left}
    BY <1>1, <1>3
  <2>2. IF queue[i] = Left THEN faults > 0
        ELSE pc[queue[i]] = "queued" \/ holder = queue[i]
    BY <1>3 DEF QueueInv
  <2> QED BY <1>1, <2>1, <2>2
<1>4. \A i \in 1 .. Len(queue') : i \in 1 .. Len(queue) \/ i = Len(queue) + 1
  BY <1>1, <1>2
<1>5. \A i \in 1 .. Len(queue') : IF queue'[i] = Left THEN faults' > 0
                                  ELSE pc'[queue'[i]] = "queued" \/ holder' = queue'[i]
  <2> TAKE i \in 1 .. Len(queue')
  <2>1. CASE i \in 1 .. Len(queue)
    BY Zenon, <1>2, <1>3, <2>1
  <2>2. CASE i = Len(queue) + 1
    BY <1>2, <2>2
  <2> QED BY <1>4, <2>1, <2>2
<1>6. \A i, j \in 1 .. Len(queue') : queue'[i] = queue'[j] /\ queue'[i] # Left => i = j
  <2> TAKE i, j \in 1 .. Len(queue')
  <2>1. CASE i \in 1 .. Len(queue) /\ j \in 1 .. Len(queue)
    BY <1>2, <2>1 DEF QueueInv
  <2>2. CASE i = Len(queue) + 1 /\ j \in 1 .. Len(queue)
    BY <1>2, <1>3, <2>2
  <2>3. CASE i \in 1 .. Len(queue) /\ j = Len(queue) + 1
    BY <1>2, <1>3, <2>3
  <2> QED BY <1>4, <2>1, <2>2, <2>3
<1>7. holder' # NoProc => queue' # <<>> /\ queue'[1] = holder'
  <2>1. holder # NoProc => 1 \in 1 .. Len(queue) /\ queue[1] = holder
    BY <1>1 DEF QueueInv
  <2> QED BY <1>2, <2>1
<1> QED BY <1>5, <1>6, <1>7 DEF QueueInv

\* Who takes the mutex is the first, and nobody had it.
LEMMA TakesFree ==
  ASSUME TypeOK, HolderWorks, QueueInv, NEW p \in Procs, AcquireTimeout(p)
  PROVE  holder = NoProc /\ queue[1] = p
<1>1. queue[1] = p /\ pc[p] = "queued"
  BY DEF AcquireTimeout, TypeOK
<1> QED BY <1>1 DEF HolderWorks, QueueInv

\* The mutex is taken and given back, or a call fails.
LEMMA OthersKeep ==
  ASSUME IInv, HolderWorks, QueueInv, NEW p \in Procs,
         \/ CreatesTheLock(p) \/ AcquireTimeout(p) \/ Release(p) \/ NotLocked(p)
         \/ LockReplyLost(p) \/ ReleaseFails(p) \/ CallFails(p)
  PROVE  IInv'
<1>1. TypeOK /\ Server /\ Fits(p) /\ Honest(p) /\ NoProc \notin Procs
  BY ValueAssumption DEF IInv
<1>2. UNCHANGED <<node, parent, deletes, op, calls, tries, read, applied, found, touched,
                  repeated>>
  BY DEF CreatesTheLock, AcquireTimeout, Release, NotLocked, LockReplyLost, ReleaseFails,
         CallFails, serverVars
<1>0. queue' \in Seq(Procs \cup {Left}) /\ (Lost(p) => Lost(p)')
  BY <1>1, <1>2, QueueType DEF Lost
<1>3. Moves
  BY <1>1, <1>2, StaysMoves
<1>4. ASSUME holder' \in Procs \cup {NoProc}, faults' \in 0 .. MaxFaults,
             pc' \in [Procs -> Labels],
             result' \in [Procs -> {"none", "true", "false", "error"}],
             \A q \in Procs \ {p} :
               /\ pc'[q] = pc[q] /\ result'[q] = result[q]
               /\ (holder' = q) <=> (holder = q),
             pc'[p] = "read" => tries[p] = 0,
             Fits(p)', Honest(p)',
             result'[p] = "true" => result[p] = "true"
      PROVE  IInv'
  <2>1. \A q \in Procs \ {p} : Same(q)
    BY Zenon, <1>2, <1>4 DEF Same
  <2>2. \A q \in Procs : pc'[q] = "read" /\ tries'[q] > 0
                         => tries'[q] < IF holder' = q THEN PromotedN ELSE N
    <3> TAKE q \in Procs
    <3>1. CASE q = p
      <4>1. pc'[q] = "read" => tries'[q] = 0
        BY Zenon, <1>2, <1>4, <3>1
      <4> QED BY <4>1
    <3>2. CASE q # p
      <4>1. pc'[q] = pc[q] /\ tries'[q] = tries[q] /\ ((holder' = q) <=> (holder = q))
        BY Zenon, <1>2, <1>4, <3>2
      <4> QED BY Zenon, <1>1, <4>1 DEF TypeOK
    <3> QED BY <3>1, <3>2
  <2>3. TypeOK'
    BY Zenon, <1>0, <1>1, <1>2, <1>4, <2>2 DEF TypeOK, Labels
  <2> QED BY Zenon, <1>2, <1>3, <1>4, <2>1, <2>3, OneProcess
<1>5. CASE AcquireTimeout(p)
  <2>1. pc[p] = "queued" /\ tries[p] = 0 /\ result[p] = "none" /\ "read" \in Labels
    BY Zenon, <1>1, <1>5 DEF AcquireTimeout, Fits, Labels
  <2>2. /\ pc' \in [Procs -> Labels] /\ result' = result /\ pc'[p] = "read"
        /\ \A q \in Procs \ {p} : pc'[q] = pc[q]
    BY Zenon, <1>1, <1>5, <2>1, GotoType DEF AcquireTimeout
  <2>3. holder = NoProc /\ holder' = p /\ faults' = faults
    BY <1>1, <1>5, TakesFree DEF AcquireTimeout
  <2>4. Fits(p)' /\ Honest(p)'
    BY Zenon, <1>0, <1>1, <1>2, <2>1, <2>2 DEF Fits, Honest
  <2> QED BY Zenon, <1>1, <1>4, <2>1, <2>2, <2>3, <2>4 DEF TypeOK
<1>6. ASSUME NEW r \in {"false", "error"}, Return(p, r), r = "false" => pc[p] = "queued",
             pc[p] \notin {"idle", "unlock"}, holder' = holder, faults' \in 0 .. MaxFaults
      PROVE  IInv'
  <2>1. /\ Return(p, r) /\ (r = "false" => pc[p] = "queued")
        /\ pc[p] \notin {"idle", "unlock"}
    BY <1>6
  <2>2. holder' = holder /\ faults' \in 0 .. MaxFaults
    BY <1>6
  <2>3. /\ pc' \in [Procs -> Labels]
        /\ result' \in [Procs -> {"none", "true", "false", "error"}]
        /\ pc'[p] = IF holder = p THEN "unlock" ELSE "idle"
        /\ result'[p] = r
        /\ \A q \in Procs \ {p} : pc'[q] = pc[q] /\ result'[q] = result[q]
    BY Zenon, <1>1, <2>1, ReturnType
  <2>4. ~repeated[p] => applied[p] = 0
    BY Zenon, <1>1, <2>1 DEF Fits
  <2>5. r = "false" => Lost(p)'
    BY <1>0, <1>1, <2>1 DEF Fits
  <2>6. Fits(p)' /\ Honest(p)'
    BY Zenon, <1>2, <2>1, <2>2, <2>3, <2>4, <2>5 DEF Fits, Honest
  <2> QED BY Zenon, <1>1, <1>4, <2>1, <2>2, <2>3, <2>6 DEF TypeOK
<1>7. \/ NotLocked(p) \/ CallFails(p) \/ LockReplyLost(p) \/ ReleaseFails(p)
      => faults' \in 0 .. MaxFaults
  <2>1. \/ NotLocked(p) \/ CallFails(p) \/ LockReplyLost(p) \/ ReleaseFails(p)
        => faults < MaxFaults /\ faults' = faults + 1
    BY Zenon DEF NotLocked, CallFails, LockReplyLost, ReleaseFails
  <2>2. faults \in 0 .. MaxFaults /\ MaxFaults \in Nat
    BY Zenon, <1>1, ValueAssumption DEF TypeOK
  <2>3. faults < MaxFaults /\ faults' = faults + 1 => faults' \in 0 .. MaxFaults
    BY <2>2
  <2> QED BY Zenon, <2>1, <2>3
<1>8. CASE NotLocked(p) \/ CallFails(p)
  <2>1. /\ (Return(p, "false") /\ pc[p] = "queued") \/ Return(p, "error")
        /\ pc[p] \notin {"idle", "unlock"} /\ holder' = holder
    BY <1>8 DEF NotLocked, CallFails, Updating
  <2> QED BY Zenon, <1>6, <1>7, <1>8, <2>1
<1>9. CASE Release(p) \/ ReleaseFails(p)
  <2>1. pc[p] = "unlock" /\ holder = p /\ "idle" \in Labels
    BY Zenon, <1>1, <1>9 DEF Release, ReleaseFails, Fits, Labels
  <2>2. Goto(p, "idle") /\ holder' = NoProc
    BY <1>9 DEF Release, ReleaseFails
  <2>3. /\ pc' \in [Procs -> Labels] /\ result' = result /\ pc'[p] = "idle"
        /\ \A q \in Procs \ {p} : pc'[q] = pc[q]
    BY <1>1, <2>1, <2>2, GotoType
  <2>4. faults' \in 0 .. MaxFaults
    BY <1>1, <1>7, <1>9 DEF Release, TypeOK
  <2>5. Fits(p)' /\ Honest(p)'
    BY Zenon, <1>0, <1>1, <1>2, <2>3 DEF Fits, Honest
  <2> QED BY <1>1, <1>4, <2>1, <2>2, <2>3, <2>4, <2>5 DEF TypeOK
<1>10. CASE LockReplyLost(p)
  <2>1. pc[p] = "lock" /\ holder' = holder
    BY <1>10 DEF LockReplyLost
  <2>2. CASE Return(p, "error")
    BY Zenon, <1>6, <1>7, <1>10, <2>1, <2>2
  <2>3. CASE UNCHANGED <<pc, result>>
    <3>1. Fits(p)' /\ Honest(p)'
      BY Zenon, <1>0, <1>1, <1>2, <2>1, <2>3 DEF Fits, Honest
    <3> QED BY Zenon, <1>1, <1>4, <1>7, <1>10, <2>1, <2>3, <3>1 DEF TypeOK, Labels
  <2> QED BY <1>10, <2>2, <2>3 DEF LockReplyLost
<1>11. CASE CreatesTheLock(p)
  <2>1. /\ pc[p] = "lock" /\ tries[p] = 0 /\ result[p] = "none" /\ "queued" \in Labels
        /\ Lost(p)
    BY Zenon, <1>1, <1>11 DEF CreatesTheLock, Fits, Labels
  <2>2. /\ pc' \in [Procs -> Labels] /\ result' = result /\ pc'[p] = "queued"
        /\ \A q \in Procs \ {p} : pc'[q] = pc[q]
    BY Zenon, <1>1, <1>11, <2>1, GotoType DEF CreatesTheLock
  <2>3. UNCHANGED <<holder, faults>>
    BY <1>11 DEF CreatesTheLock
  <2>4. Fits(p)' /\ Honest(p)'
    BY Zenon, <1>0, <1>1, <1>2, <2>1, <2>2 DEF Fits, Honest
  <2> QED BY Zenon, <1>1, <1>4, <2>1, <2>2, <2>3, <2>4 DEF TypeOK
<1> QED BY Zenon, <1>5, <1>8, <1>9, <1>10, <1>11

\* The steps of a method leave the mutex alone, or take it, or give it back.
LEMMA HolderStep ==
  ASSUME IInv, HolderWorks, QueueInv, NEW p \in Procs, Step(p) \/ Fault(p)
  PROVE  HolderWorks'
<1>1. TypeOK /\ Fits(p) /\ op' = op
  BY Zenon DEF IInv, Step, Fault, CurrentValue, CompareAndSet, TryOnce, ForceSet, Initialize,
         CreatesTheLock, AcquireTimeout, Release, NotLocked, CallFails, ReplyLost,
         LockReplyLost, ReleaseFails
<1>2. holder = p => pc[p] \in {"read", "write", "unlock"} /\ op[p].name = "TrySet"
  BY ValueAssumption DEF HolderWorks
<1>3. CASE CurrentValue(p)
  <2>1. /\ pc[p] = "read" /\ holder' = holder
        /\ Goto(p, "write") \/ \E r : Return(p, r)
    BY Zenon, <1>3 DEF CurrentValue
  <2>2. /\ pc'[p] \in {"write", IF holder = p THEN "unlock" ELSE "idle"}
        /\ \A q \in Procs \ {p} : pc'[q] = pc[q]
    BY Zenon, <1>1, <2>1, GotoIs
  <2> QED BY <1>1, <2>1, <2>2, HolderFrame
<1>4. CASE TryOnce(p)
  <2>1. /\ op[p].name = "TrySet" /\ holder' = holder
        /\ \/ Goto(p, "read") \/ \E r : Return(p, r)
           \/ Goto(p, "lock") /\ holder # p
    BY Zenon, <1>4 DEF TryOnce
  <2>2. /\ \/ pc'[p] \in {"read", IF holder = p THEN "unlock" ELSE "idle"}
           \/ pc'[p] = "lock" /\ holder # p
        /\ \A q \in Procs \ {p} : pc'[q] = pc[q]
    BY Zenon, <1>1, <2>1, GotoIs
  <2> QED BY <1>1, <2>1, <2>2, HolderFrame
<1>5. CASE CompareAndSet(p) \/ Initialize(p) \/ NotLocked(p) \/ CallFails(p)
  BY <1>1, <1>2, <1>5, GotoIs, HolderFrame DEF CompareAndSet, Initialize, NotLocked, CallFails
<1>6. CASE ForceSet(p)
  <2>1. /\ op[p].name # "TrySet" /\ holder' = holder
        /\ \/ Goto(p, "forceCreate") \/ Goto(p, "forceAgain") \/ \E r : Return(p, r)
    BY <1>6 DEF ForceSet
  <2>2. /\ pc'[p] \in {"forceCreate", "forceAgain", IF holder = p THEN "unlock" ELSE "idle"}
        /\ \A q \in Procs \ {p} : pc'[q] = pc[q]
    BY Zenon, <1>1, <2>1, GotoIs
  <2> QED BY <1>1, <1>2, <2>1, <2>2, HolderFrame
<1>7. CASE ReplyLost(p) \/ LockReplyLost(p)
  <2>0. holder' = holder
    BY <1>7 DEF ReplyLost, LockReplyLost
  <2>1. CASE \E r : Return(p, r)
    <3>1. /\ pc'[p] = IF holder = p THEN "unlock" ELSE "idle"
          /\ \A q \in Procs \ {p} : pc'[q] = pc[q]
      BY Zenon, <1>1, <2>1, GotoIs
    <3> QED BY <1>1, <1>2, <2>0, <3>1, HolderFrame
  <2>2. CASE pc' = pc
    BY <1>1, <1>2, <2>0, <2>2, HolderFrame DEF HolderWorks
  <2> QED BY <1>7, <2>1, <2>2 DEF ReplyLost, LockReplyLost
<1>8. CASE AcquireTimeout(p)
  <2>1. /\ pc[p] = "queued" /\ op[p].name = "TrySet" /\ holder' = p /\ Goto(p, "read")
        /\ holder = NoProc
    BY <1>1, <1>8, TakesFree DEF AcquireTimeout, HolderWorks
  <2>2. pc'[p] = "read" /\ \A q \in Procs \ {p} : pc'[q] = pc[q]
    BY <1>1, <2>1, GotoIs
  <2> QED BY <1>1, <2>1, <2>2 DEF HolderWorks
<1>9. CASE Release(p) \/ ReleaseFails(p)
  <2>1. holder' = NoProc /\ Goto(p, "idle")
    BY <1>9 DEF Release, ReleaseFails
  <2>2. pc'[p] = "idle" /\ \A q \in Procs \ {p} : pc'[q] = pc[q]
    BY <1>1, <2>1, GotoIs
  <2> QED BY <1>1, <2>1, <2>2, ValueAssumption DEF HolderWorks
<1>10. CASE CreatesTheLock(p)
  <2>1. /\ op[p].name = "TrySet" /\ holder # p /\ holder' = holder /\ Goto(p, "queued")
    BY <1>10 DEF CreatesTheLock, HolderWorks
  <2>2. pc'[p] = "queued" /\ \A q \in Procs \ {p} : pc'[q] = pc[q]
    BY Zenon, <1>1, <2>1, GotoIs
  <2> QED BY <1>1, <2>1, <2>2, HolderFrame
<1> QED BY Zenon, <1>3, <1>4, <1>5, <1>6, <1>7, <1>8, <1>9, <1>10 DEF Step, Fault

\* So do its steps keep the lock nodes in order.
LEMMA QueueStep ==
  ASSUME IInv, HolderWorks, QueueInv, NEW p \in Procs, Step(p) \/ Fault(p)
  PROVE  QueueInv'
<1>1. TypeOK /\ Fits(p) /\ faults \in Nat /\ Left \notin Procs /\ NoProc \notin Procs
  <2>1. TypeOK /\ Fits(p)
    BY DEF IInv
  <2>2. faults \in Nat
    BY <2>1, ValueAssumption DEF TypeOK
  <2> QED BY <2>1, <2>2, ValueAssumption
<1>2. queue \in Seq(Procs \cup {Left}) /\ Len(queue) \in Nat
  BY <1>1 DEF TypeOK
<1>3. CASE /\ CurrentValue(p) \/ CompareAndSet(p) \/ TryOnce(p) \/ ForceSet(p) \/ Initialize(p)
                \/ CallFails(p) \/ ReplyLost(p)
  <2>1. UNCHANGED <<queue, holder>>
    BY <1>3, <1>1, UpdateType DEF CurrentValue, CompareAndSet, TryOnce, ForceSet, Initialize,
       CallFails, ReplyLost, serverVars
  <2>2. pc[p] # "queued"
    BY <1>3 DEF CurrentValue, CompareAndSet, TryOnce, ForceSet, Initialize, CallFails, ReplyLost,
       Updating
  <2>3. \A q \in Procs \ {p} : pc'[q] = pc[q]
    BY Zenon, <1>1, <1>3, GotoIs DEF CurrentValue, CompareAndSet, TryOnce, ForceSet, Initialize,
       CallFails, ReplyLost
  <2>4. faults' \in {faults, faults + 1}
    BY <1>3 DEF CurrentValue, CompareAndSet, TryOnce, ForceSet, Initialize, CallFails, ReplyLost
  <2>5. faults' \in Nat /\ faults' >= faults
    BY <1>1, <2>4
  <2>6. \A q \in Procs : pc[q] = "queued" => pc'[q] = "queued"
    BY <2>2, <2>3
  <2> QED BY <1>1, <2>1, <2>5, <2>6, QueueFrame
<1>4. CASE CreatesTheLock(p)
  <2>1. /\ pc[p] = "lock" /\ queue' = Append(queue, p) /\ UNCHANGED <<holder, faults>>
        /\ Goto(p, "queued")
    BY <1>4 DEF CreatesTheLock
  <2>2. pc'[p] = "queued" /\ (\A q \in Procs \ {p} : pc'[q] = pc[q])
    BY Zenon, <1>1, <2>1, GotoIs
  <2>3. holder # p
    BY <2>1 DEF HolderWorks
  <2>4. \A q \in Procs : pc[q] = "queued" => pc'[q] = "queued"
    BY <2>2
  <2> QED BY <1>1, <2>1, <2>2, <2>3, <2>4, QueueGrows
<1>5. CASE LockReplyLost(p)
  <2>1. /\ pc[p] = "lock" /\ queue' = Append(queue, Left) /\ holder' = holder
        /\ faults' = faults + 1
        /\ Return(p, "error") \/ UNCHANGED pc
    BY <1>5 DEF LockReplyLost
  <2>2. \A q \in Procs \ {p} : pc'[q] = pc[q]
    BY Zenon, <1>1, <2>1, GotoIs
  <2>3. \A q \in Procs : pc[q] = "queued" => pc'[q] = "queued"
    BY <2>1, <2>2
  <2>4. faults' \in Nat /\ faults' >= faults /\ faults' > 0
    BY <1>1, <2>1
  <2> QED BY <1>1, <2>1, <2>3, <2>4, QueueGrows
<1>6. CASE AcquireTimeout(p)
  <2>1. holder = NoProc /\ queue[1] = p
    BY <1>1, <1>6, TakesFree
  <2>2. queue # <<>> /\ UNCHANGED <<queue, faults>> /\ holder' = p /\ Goto(p, "read")
    BY <1>6 DEF AcquireTimeout, serverVars
  <2>3. \A q \in Procs \ {p} : pc'[q] = pc[q]
    BY Zenon, <1>1, <2>2, GotoIs
  <2>4. ASSUME NEW i \in 1 .. Len(queue)
        PROVE  IF queue[i] = Left THEN faults > 0
               ELSE pc'[queue[i]] = "queued" \/ holder' = queue[i]
    <3>1. queue[i] \in Procs \cup {Left}
      BY <1>2, <2>4
    <3>2. IF queue[i] = Left THEN faults > 0
          ELSE pc[queue[i]] = "queued" \/ holder = queue[i]
      BY <2>4 DEF QueueInv
    <3> QED BY <1>1, <2>1, <2>2, <2>3, <3>1, <3>2
  <2> QED BY Zenon, <2>1, <2>2, <2>4 DEF QueueInv
<1>7. CASE NotLocked(p)
  <2>1. /\ pc[p] = "queued" /\ faults' = faults + 1 /\ holder' = holder /\ Return(p, "false")
        /\ queue' = [i \in DOMAIN queue |-> IF queue[i] = p THEN Left ELSE queue[i]]
    BY <1>7 DEF NotLocked
  <2>2. \A q \in Procs \ {p} : pc'[q] = pc[q]
    BY Zenon, <1>1, <2>1, GotoIs
  <2>3. /\ Len(queue') = Len(queue)
        /\ \A i \in 1 .. Len(queue) : queue'[i] = IF queue[i] = p THEN Left ELSE queue[i]
    BY <1>2, <2>1
  <2>4. ASSUME NEW i \in 1 .. Len(queue)
        PROVE  IF queue'[i] = Left THEN faults' > 0
               ELSE pc'[queue'[i]] = "queued" \/ holder' = queue'[i]
    <3>1. faults' > 0
      BY <1>1, <2>1
    <3>2. queue[i] \in Procs \cup {Left}
      BY <1>2, <2>4
    <3>3. queue[i] # Left => pc[queue[i]] = "queued" \/ holder = queue[i]
      BY <2>4 DEF QueueInv
    <3> QED BY <2>1, <2>2, <2>3, <3>1, <3>2, <3>3
  <2>5. holder' # NoProc => queue' # <<>> /\ queue'[1] = holder'
    <3>1. holder # NoProc => queue # <<>> /\ queue[1] = holder /\ holder # p
      BY <2>1 DEF QueueInv, HolderWorks
    <3>2. queue # <<>> => 1 \in 1 .. Len(queue)
      BY <1>2
    <3>3. queue' \in Seq(Procs \cup {Left})
      BY <1>1, <1>7, QueueType
    <3> QED BY <2>1, <2>3, <3>1, <3>2, <3>3, EmptySeq
  <2>6. \A i, j \in 1 .. Len(queue') : queue'[i] = queue'[j] /\ queue'[i] # Left => i = j
    BY Zenon, <2>3 DEF QueueInv
  <2> QED BY Zenon, <2>3, <2>4, <2>5, <2>6 DEF QueueInv
<1>8. CASE Release(p) \/ ReleaseFails(p)
  <2>1. /\ pc[p] = "unlock" /\ holder' = NoProc /\ Goto(p, "idle")
        /\ \/ queue' = Tail(queue) /\ faults' = faults
           \/ queue' = [queue EXCEPT ![1] = Left] /\ faults' = faults + 1
    BY <1>8 DEF Release, ReleaseFails
  <2>2. holder = p /\ queue # <<>> /\ queue[1] = p
    BY <1>1, <2>1 DEF Fits, QueueInv
  <2>3. \A q \in Procs \ {p} : pc'[q] = pc[q]
    BY Zenon, <1>1, <2>1, GotoIs
  <2>4. 1 \in 1 .. Len(queue)
    BY <1>2, <2>2
  <2>5. ASSUME NEW i \in 1 .. Len(queue), i # 1
        PROVE  IF queue[i] = Left THEN faults > 0 ELSE pc'[queue[i]] = "queued"
    <3>1. queue[i] \in Procs \cup {Left} /\ queue[i] # p
      BY <1>1, <1>2, <2>2, <2>4, <2>5 DEF QueueInv
    <3>2. queue[i] # Left => pc[queue[i]] = "queued" \/ holder = queue[i]
      BY <2>5 DEF QueueInv
    <3>3. queue[i] = Left => faults > 0
      BY <2>5 DEF QueueInv
    <3> QED BY <2>2, <2>3, <3>1, <3>2, <3>3
  <2>6. CASE queue' = Tail(queue) /\ faults' = faults
    <3>1. /\ Len(queue') = Len(queue) - 1
          /\ \A i \in 1 .. Len(queue') : queue'[i] = queue[i + 1]
      BY <1>2, <2>2, <2>6, HeadTailProperties
    <3>2. \A i \in 1 .. Len(queue') : i + 1 \in 1 .. Len(queue) /\ i + 1 # 1
      BY <1>2, <3>1
    <3>3. \A i \in 1 .. Len(queue') : IF queue'[i] = Left THEN faults' > 0
                                      ELSE pc'[queue'[i]] = "queued" \/ holder' = queue'[i]
      BY Zenon, <2>5, <2>6, <3>1, <3>2
    <3>4. \A i, j \in 1 .. Len(queue') : queue'[i] = queue'[j] /\ queue'[i] # Left
                                         => i + 1 = j + 1
      BY Zenon, <3>1, <3>2 DEF QueueInv
    <3>5. \A i, j \in 1 .. Len(queue') : i + 1 = j + 1 => i = j
      BY <1>2, <3>1
    <3> QED BY Zenon, <2>1, <3>3, <3>4, <3>5 DEF QueueInv
  <2>7. CASE queue' = [queue EXCEPT ![1] = Left] /\ faults' = faults + 1
    <3>1. /\ Len(queue') = Len(queue) /\ queue'[1] = Left
          /\ \A i \in 1 .. Len(queue) : i # 1 => queue'[i] = queue[i]
      BY <1>2, <2>4, <2>7, ExceptSeq
    <3>2. faults' > 0
      BY <1>1, <2>7
    <3>3. \A i \in 1 .. Len(queue) : IF queue'[i] = Left THEN faults' > 0
                                     ELSE pc'[queue'[i]] = "queued" \/ holder' = queue'[i]
      BY Zenon, <2>5, <3>1, <3>2
    <3>4. \A i, j \in 1 .. Len(queue) : queue'[i] = queue'[j] /\ queue'[i] # Left => i = j
      <4> TAKE i, j \in 1 .. Len(queue)
      <4>1. CASE i # 1 /\ j # 1
        BY <3>1, <4>1 DEF QueueInv
      <4>2. CASE i = 1 \/ j = 1
        BY <3>1, <4>2
      <4> QED BY <4>1, <4>2
    <3> QED BY Zenon, <2>1, <3>1, <3>3, <3>4 DEF QueueInv
  <2> QED BY <2>1, <2>6, <2>7
<1> QED BY Zenon, <1>3, <1>4, <1>5, <1>6, <1>7, <1>8 DEF Step, Fault

-----------------------------------------------------------------------------
(* Theorems                                                                 *)

\* Init: no method has been called.
LEMMA Initially == Init => IInv
<1> SUFFICES ASSUME Init PROVE IInv
  OBVIOUS
<1>1. NoNode(0) \in Nodes /\ ~NoNode(0).exists /\ NoNode(0).birth = 0
  BY DEF NoNode, Nodes, Data
<1>2. node \in Nodes /\ Server
  BY Zenon, <1>1 DEF Init, NoNode, Nodes, Data, Server
<1>3. NoOp \in [name : Operations \cup {"none"}, expected : Data, new : Data]
  BY DEF NoOp, Data
<1>4. /\ op \in [Procs -> [name : Operations \cup {"none"}, expected : Data, new : Data]]
      /\ pc \in [Procs -> Labels] /\ tries \in [Procs -> Nat]
      /\ read \in [Procs -> Nodes] /\ found \in [Procs -> Nodes]
      /\ result \in [Procs -> {"none", "true", "false", "error"}]
      /\ applied \in [Procs -> Nat]
  BY <1>1, <1>3 DEF Init, Labels
<1>5. touched \in [Procs -> BOOLEAN] /\ repeated \in [Procs -> BOOLEAN]
  BY DEF Init
<1>6. faults \in 0 .. MaxFaults /\ deletes \in 0 .. MaxDeletes /\ calls \in 0 .. MaxCalls
  BY ValueAssumption DEF Init
<1>7. \A p \in Procs : pc[p] = "idle" /\ tries[p] = 0 /\ result[p] = "none" /\ applied[p] = 0
  BY Zenon DEF Init
<1>8. TypeOK
  <2>1. parent \in BOOLEAN /\ queue \in Seq(Procs \cup {Left})
    BY DEF Init
  <2> QED BY <1>2, <1>4, <1>5, <1>6, <1>7, <2>1 DEF TypeOK, Init, Labels
<1>9. \A p \in Procs : Fits(p) /\ Honest(p)
  BY Zenon, <1>7 DEF Fits, Honest
<1>10. OneInitializer
  BY <1>7 DEF OneInitializer
<1> QED BY <1>2, <1>8, <1>9, <1>10 DEF IInv

LEMMA MutexInitially == Init => HolderWorks /\ QueueInv
BY DEF Init, HolderWorks, QueueInv

\* The invariants are inductive, together.
LEMMA Preserved ==
  IInv /\ HolderWorks /\ QueueInv /\ [Next]_vars => IInv' /\ HolderWorks' /\ QueueInv'
<1> SUFFICES ASSUME IInv, HolderWorks, QueueInv, [Next]_vars
             PROVE  IInv' /\ HolderWorks' /\ QueueInv'
  OBVIOUS
<1>1. ASSUME NEW p \in Procs, Call(p) PROVE IInv' /\ HolderWorks' /\ QueueInv'
  <2>1. TypeOK /\ pc[p] = "idle" /\ UNCHANGED <<holder, queue, faults>> /\ faults \in Nat
    <3>1. TypeOK
      BY DEF IInv
    <3>2. faults \in Nat
      BY <3>1, ValueAssumption DEF TypeOK
    <3> QED BY Zenon, <1>1, <3>1, <3>2 DEF Call, serverVars
  <2>2. holder # p
    BY <2>1, ValueAssumption DEF HolderWorks
  <2>3. /\ \A q \in Procs \ {p} : pc'[q] = pc[q] /\ op'[q] = op[q]
        /\ pc'[p] \notin {"lock", "queued"}
    BY <1>1, <2>1 DEF Call, TypeOK, First
  <2>4. HolderWorks'
    BY <2>1, <2>2, <2>3, HolderFrame
  <2>5. \A q \in Procs : pc[q] = "queued" => pc'[q] = "queued"
    BY <2>1, <2>3
  <2>6. QueueInv'
    BY <2>1, <2>5, QueueFrame
  <2> QED BY <1>1, <2>4, <2>6, CallKeeps
<1>2. ASSUME NEW p \in Procs, Step(p) \/ Fault(p) PROVE IInv' /\ HolderWorks' /\ QueueInv'
  <2>1. IInv'
    BY Zenon, <1>2, CurrentValueKeeps, UpdatesKeep, OthersKeep DEF Step, Fault
  <2> QED BY <1>2, <2>1, HolderStep, QueueStep
<1>3. CASE Delete \/ CreateParent
  <2>1. UNCHANGED <<holder, queue, faults, pc, op>>
    BY <1>3 DEF Delete, CreateParent
  <2>2. HolderWorks' /\ QueueInv'
    BY Zenon, <2>1 DEF HolderWorks, QueueInv
  <2> QED BY <1>3, <2>2, DeleteKeeps
<1>4. CASE UNCHANGED vars
  <2>1. TypeOK' /\ Server' /\ OneInitializer'
    BY Zenon, <1>4 DEF vars, serverVars, IInv, TypeOK, Server, OneInitializer
  <2>2. \A p \in Procs : Fits(p)' /\ Honest(p)'
    <3> TAKE p \in Procs
    <3>1. Fits(p) /\ Honest(p)
      BY DEF IInv
    <3>2. Lost(p)' <=> Lost(p)
      BY Zenon, <1>4 DEF vars, serverVars, Lost
    <3>3. Fits(p)'
      BY Zenon, <1>4, <3>1, <3>2 DEF vars, serverVars, Fits
    <3>4. Honest(p)'
      BY Zenon, <1>4, <3>1, <3>2 DEF vars, serverVars, Honest
    <3> QED BY <3>3, <3>4
  <2>3. HolderWorks' /\ QueueInv'
    BY Zenon, <1>4 DEF vars, serverVars, HolderWorks, QueueInv
  <2> QED BY <2>1, <2>2, <2>3 DEF IInv
<1> QED BY Zenon, <1>1, <1>2, <1>3, <1>4 DEF Next

\* So they hold always.
LEMMA Invariant == Spec => [](IInv /\ HolderWorks /\ QueueInv)
BY Initially, MutexInitially, Preserved, PTL DEF Spec

\* The types, and that the loops of tryOptimistic and tryWithMutex go round again
\* only as often as each one's own policy allows.
THEOREM TypeCorrect == Spec => []TypeOK
<1>1. IInv => TypeOK
  BY DEF IInv
<1> QED BY <1>1, Invariant, PTL

\* CompareAndSet and TrySet that report success replaced exactly what currentValue
\* read, for any number of processes, unless the node was created anew.
THEOREM ReplacedWhatWasRead == Spec => []SuccessReplacesPreValue
<1>1. IInv => SuccessReplacesPreValue
  BY Zenon DEF IInv, Honest, SuccessReplacesPreValue
<1> QED BY <1>1, Invariant, PTL

\* Succeeded() tells whether the value was set, exactly once or not at all, when no
\* lost reply made the client ask again.
THEOREM SucceededIsTrue == Spec => []UpdatedIffSucceeded
<1>1. IInv => UpdatedIffSucceeded
  BY Zenon DEF IInv, Honest, UpdatedIffSucceeded
<1> QED BY <1>1, Invariant, PTL

\* A call that reports failure has met a value that was not the expected one, a node
\* that was there already, a missing parent, or a change since its last read, through
\* all its tries (recipes/atomic.go, tryOnce).
THEOREM FailureIsJustified == Spec => []FailureHasCause
<1>1. IInv => FailureHasCause
  BY Zenon DEF IInv, Honest, Lost, FailureHasCause
<1> QED BY <1>1, Invariant, PTL

\* Of the processes that initialize the same node only one is told that it did.
THEOREM InitializedOnce == Spec => []OneInitializer
<1>1. IInv => OneInitializer
  BY DEF IInv
<1> QED BY <1>1, Invariant, PTL

\* Until a call fails, every lock node of the promoted mutex is that of a TrySet that
\* waits for it or works with it, and the holder's comes first; so a mutex that no
\* TrySet uses is free (recipes/atomic.go, tryWithMutex).
OnlyFaultsLeave ==
  /\ holder # NoProc => queue # <<>> /\ queue[1] = holder
  /\ faults = 0 =>
       \A i \in 1 .. Len(queue) :
         /\ queue[i] \in Procs /\ op[queue[i]].name = "TrySet"
         /\ pc[queue[i]] = "queued" \/ holder = queue[i]

\* The lock nodes that block the mutex for good come from a failed listing, a lost
\* reply or a failed Release, and from nothing else that tryWithMutex does.
THEOREM MutexLeftOnlyByFaults == Spec => []OnlyFaultsLeave
<1>1. IInv /\ HolderWorks /\ QueueInv => OnlyFaultsLeave
  <2> SUFFICES ASSUME IInv, HolderWorks, QueueInv PROVE OnlyFaultsLeave
    OBVIOUS
  <2>1. queue \in Seq(Procs \cup {Left}) /\ NoProc \notin Procs
    BY ValueAssumption DEF IInv, TypeOK
  <2>2. ASSUME faults = 0, NEW i \in 1 .. Len(queue)
        PROVE  /\ queue[i] \in Procs /\ op[queue[i]].name = "TrySet"
               /\ pc[queue[i]] = "queued" \/ holder = queue[i]
    <3>1. queue[i] \in Procs \cup {Left}
      BY <2>1, <2>2
    <3>2. queue[i] # Left /\ (pc[queue[i]] = "queued" \/ holder = queue[i])
      BY <2>2 DEF QueueInv
    <3>3. queue[i] \in Procs
      BY <3>1, <3>2
    <3> QED BY <2>1, <3>2, <3>3 DEF HolderWorks
  <2> QED BY Zenon, <2>2 DEF OnlyFaultsLeave, QueueInv
<1> QED BY <1>1, Invariant, PTL
=============================================================================
