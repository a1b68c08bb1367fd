------------------------- MODULE TransactionProofs --------------------------
(***************************************************************************)
(* What Commit returns is true of the server, and a guarded transaction is *)
(* done once, for any operations, policy and number of attempts; the       *)
(* attempts of Commit are those of a retry loop; and the range of the      *)
(* backoff's sleeps, for every limit, base, maxSleep and width.            *)
(***************************************************************************)
EXTENDS Transaction, WellFoundedInduction, TLAPS

-----------------------------------------------------------------------------
(* The retry loop by itself                                                 *)

\* Every call that failed was counted.
Counted == pc # "done" => attempts = retryCount

LoopInv == TypeOK /\ Counted

\* N is a number for every policy.
LEMMA NType == ASSUME NEW p \in DOMAIN N PROVE N[p] \in Nat
<1>1. DOMAIN N = {"nTimes", "oneTime", "backoff", "untilElapsed"}
  BY DEF N
<1>2. Unlimited \in Nat
  BY RetryAssumption DEF Unlimited
<1> QED BY <1>1, <1>2, RetryAssumption DEF N

\* A product that an int64 has room for is itself, and any other is an int64 too.
LEMMA WrappedProduct ==
  ASSUME NEW a \in Nat, NEW b \in Nat
  PROVE  /\ Wrapped(a * b) \in Int
         /\ a * b <= MaxInt => Wrapped(a * b) = a * b
<1>1. \A x \in Nat, m \in Nat :
        /\ ((x + m + 1) % (2 * m + 2)) - m - 1 \in Int
        /\ x <= m => ((x + m + 1) % (2 * m + 2)) - m - 1 = x
  OBVIOUS
<1>2. a * b \in Nat /\ MaxInt \in Nat
  BY RetryAssumption
<1> QED BY <1>1, <1>2 DEF Wrapped

\* A sleep is not longer than maxSleep, for the backoff, or than the sleep given;
\* and where the product does not overflow it is not negative.
LEMMA SleepBounded ==
  ASSUME NEW count, NEW d \in SleepTimes(count)
  PROVE  /\ d \in Int /\ d <= (IF policy = "backoff" THEN MaxSleep ELSE Base)
         /\ (\A r \in 0 .. 2 ^ count - 1 : Base * r <= MaxInt) => d >= 0
<1>1. CASE policy = "backoff"
  <2>1. PICK r \in 0 .. 2 ^ count - 1 :
          d = IF Wrapped(Base * r) > MaxSleep THEN MaxSleep ELSE Wrapped(Base * r)
    BY <1>1 DEF SleepTimes
  <2>2. r \in Nat /\ Base \in Nat /\ MaxSleep \in Nat
    BY <2>1, RetryAssumption
  <2>3. Wrapped(Base * r) \in Int
    BY <2>2, WrappedProduct
  <2>4. ASSUME Base * r <= MaxInt PROVE Wrapped(Base * r) >= 0
    <3>1. Base * r \in Nat
      BY <2>2
    <3>2. Wrapped(Base * r) = Base * r
      BY <2>2, <2>4, WrappedProduct
    <3> QED BY <3>1, <3>2
  <2> QED BY <1>1, <2>1, <2>2, <2>3, <2>4
<1>2. CASE policy # "backoff"
  BY <1>2, RetryAssumption DEF SleepTimes
<1> QED BY <1>1, <1>2

\* Arithmetic, for the time that a retry adds
LEMMA SumOfNat ==
  ASSUME NEW a \in Nat, NEW b \in Int
  PROVE  a + (IF b > 0 THEN b ELSE 0) \in Nat
OBVIOUS

\* newRetryLoop
LEMMA LoopInitially == Init => LoopInv
BY RetryAssumption DEF Init, LoopInv, TypeOK, Counted

\* An attempt that fails is counted.
LEMMA LoopAttemptKeeps ==
  ASSUME LoopInv, Returns \/ Fails
  PROVE  LoopInv'
<1> USE DEF LoopInv
<1>1. CASE Returns
  BY <1>1, RetryAssumption DEF Returns, Attempt, TypeOK, Counted
<1>2. CASE Fails
  <2>1. TypeOK'
    BY <1>2, RetryAssumption DEF Fails, Attempt, TypeOK, Counted
  <2>2. Counted'
    BY <1>2 DEF Fails, Attempt, TypeOK, Counted
  <2> QED BY <2>1, <2>2
<1> QED BY <1>1, <1>2

\* Between two attempts only the time and pc change.
LEMMA LoopDecisionKeeps ==
  ASSUME LoopInv, RetryAtOnce \/ Retry \/ GiveUp
  PROVE  LoopInv'
<1> USE DEF LoopInv
<1>1. CASE RetryAtOnce
  BY <1>1 DEF RetryAtOnce, TypeOK, Counted
<1>2. CASE Retry
  <2>1. slept' \in Int /\ slept' <= (IF policy = "backoff" THEN MaxSleep ELSE Base)
    BY <1>2, SleepBounded DEF Retry
  <2>2. elapsed' \in Nat
    <3>1. elapsed \in Nat /\ elapsed' = elapsed + (IF slept' > 0 THEN slept' ELSE 0)
      BY <1>2 DEF Retry, TypeOK
    <3> QED BY Zenon, <2>1, <3>1, SumOfNat
  <2>3. TypeOK'
    <3>1. policy' = policy
      BY <1>2 DEF Retry
    <3>2. slept' \in Int /\ slept' <= (IF policy' = "backoff" THEN MaxSleep ELSE Base)
      BY <2>1, <3>1
    <3> QED BY Zenon, <1>2, <2>2, <3>2 DEF Retry, TypeOK
  <2>4. Counted'
    BY <1>2 DEF Retry, AllowRetry, TypeOK, Counted
  <2> QED BY <2>3, <2>4
<1>3. CASE GiveUp
  BY Zenon, <1>3 DEF GiveUp, TypeOK, Counted
<1> QED BY <1>1, <1>2, <1>3

\* The invariant is inductive.
LEMMA LoopPreserved == LoopInv /\ [Next]_vars => LoopInv'
<1> SUFFICES ASSUME LoopInv, [Next]_vars PROVE LoopInv'
  OBVIOUS
<1>1. CASE UNCHANGED vars
  BY <1>1 DEF vars, LoopInv, TypeOK, Counted
<1>2. CASE Next
  BY <1>2, LoopAttemptKeeps, LoopDecisionKeeps DEF Next
<1> QED BY <1>1, <1>2

\* The products that the backoff can ask for fit into an int64.  With the limit of
\* 29 retries that is a base of at most 34 seconds.
BackoffFits ==
  \A count \in 0 .. N["backoff"] - 1 : \A r \in 0 .. 2 ^ count - 1 : Base * r <= MaxInt

\* A sleep is not negative, and not longer than the policy's.
SleepInRange == slept \in 0 .. (IF policy = "backoff" THEN MaxSleep ELSE Base)

\* A backoff whose products fit into an int64 sleeps for a time between nothing and
\* maxSleep (retry.go, NewExponentialBackoffRetry).  With a larger base a product
\* wraps around: it may pass the test against maxSleep as a negative time, and the
\* loop retries at once.
THEOREM BackoffSleeps == ASSUME BackoffFits PROVE Spec => []SleepInRange
<1>1. Init => SleepInRange
  BY RetryAssumption DEF Init, SleepInRange
<1>2. LoopInv /\ SleepInRange /\ [Next]_vars => SleepInRange'
  <2> SUFFICES ASSUME LoopInv, SleepInRange, [Next]_vars PROVE SleepInRange'
    OBVIOUS
  <2>1. CASE Retry
    <3>1. /\ slept' \in SleepTimes(retryCount) /\ policy' = policy /\ retryCount < N[policy]
          /\ retryCount \in Nat
      BY <2>1 DEF Retry, AllowRetry, LoopInv, TypeOK
    <3>2. slept' \in Int /\ slept' <= (IF policy = "backoff" THEN MaxSleep ELSE Base)
      BY <3>1, SleepBounded
    <3>3. CASE policy = "backoff"
      <4>1. N["backoff"] \in Nat
        BY <3>3, NType DEF LoopInv, TypeOK
      <4>2. retryCount \in 0 .. N["backoff"] - 1
        BY <3>1, <3>3, <4>1
      <4>3. slept' >= 0
        BY <3>1, <4>2, SleepBounded DEF BackoffFits
      <4> QED BY <3>1, <3>2, <4>3, RetryAssumption DEF SleepInRange
    <3>4. CASE policy # "backoff"
      BY <3>1, <3>4, RetryAssumption DEF SleepTimes, SleepInRange
    <3> QED BY <3>3, <3>4
  <2>2. CASE UNCHANGED <<policy, slept>>
    BY <2>2 DEF SleepInRange
  <2> QED BY <2>1, <2>2 DEF Next, vars, Returns, Fails, RetryAtOnce, GiveUp
<1> QED BY <1>1, <1>2, LoopInitially, LoopPreserved, PTL DEF Spec

-----------------------------------------------------------------------------
(* The server's multi: what a run of requests comes to, by induction on its *)
(* length.                                                                  *)

\* A non-empty set of natural numbers has a least element.
LEMMA LeastExists ==
  ASSUME NEW T, T \subseteq Nat, T # {}
  PROVE  \E x \in T : \A y \in T : x <= y
<1>1. PICK x \in T : \A y \in T : ~ (<<y, x>> \in OpToRel(<, Nat))
  BY Zenon, NatLessThanWellFounded, WFMin
<1>2. \A a, b \in Nat : <<a, b>> \in OpToRel(<, Nat) <=> a < b
  BY DEF OpToRel
<1>3. \A y \in T : ~ (y < x)
  BY Zenon, <1>1, <1>2
<1> QED BY <1>3

\* Induction from m up to n, for the members of a set.
LEMMA UpTo ==
  ASSUME NEW m \in Nat, NEW n \in Nat, NEW S, m \in S,
         \A i \in m + 1 .. n : i - 1 \in S => i \in S
  PROVE  \A i \in m .. n : i \in S
<1> SUFFICES ASSUME NEW k \in m .. n, k \notin S PROVE FALSE
  OBVIOUS
<1> DEFINE T == {i \in m .. n : i \notin S}
<1>1. T \subseteq Nat /\ T # {}
  OBVIOUS
<1> HIDE DEF T
<1>2. PICK x \in T : \A y \in T : x <= y
  BY Zenon, <1>1, LeastExists
<1>3. x \in m + 1 .. n /\ x \notin S
  BY <1>2 DEF T
<1>4. x - 1 \notin T
  BY <1>2, <1>3
<1> QED BY <1>3, <1>4 DEF T

\* f is the run of the first n requests.
IsRun(f, n, ns, ops) ==
  f = [i \in 0 .. n |-> IF i = 0 THEN [ok |-> TRUE, nodes |-> ns]
                        ELSE Step(f[i - 1], ops[i])]

\* There is a run of any length: one of k - 1 requests goes on with the k-th.
LEMMA RunExists ==
  ASSUME NEW ns, NEW ops, NEW n \in Nat
  PROVE  \E f : IsRun(f, n, ns, ops)
<1> DEFINE S == {k \in 0 .. n : \E f : IsRun(f, k, ns, ops)}
<1>1. 0 \in S
  <2>1. IsRun([i \in 0 .. 0 |-> [ok |-> TRUE, nodes |-> ns]], 0, ns, ops)
    BY DEF IsRun
  <2> QED BY <2>1
<1>2. ASSUME NEW k \in 1 .. n, k - 1 \in S PROVE k \in S
  <2>1. PICK f : IsRun(f, k - 1, ns, ops)
    BY <1>2
  <2> DEFINE g == [i \in 0 .. k |-> IF i = k THEN Step(f[k - 1], ops[k]) ELSE f[i]]
  <2>2. IsRun(g, k, ns, ops)
    <3>1. \A i \in 0 .. k - 1 : g[i] = f[i]
      OBVIOUS
    <3>2. g = [i \in 0 .. k |-> g[i]] /\ g[k] = Step(f[k - 1], ops[k])
      OBVIOUS
    <3>3. \A i \in 0 .. k - 1 : f[i] = IF i = 0 THEN [ok |-> TRUE, nodes |-> ns]
                                       ELSE Step(f[i - 1], ops[i])
      BY <2>1 DEF IsRun
    <3> HIDE DEF g
    <3>4. ASSUME NEW i \in 0 .. k
          PROVE  g[i] = IF i = 0 THEN [ok |-> TRUE, nodes |-> ns]
                        ELSE Step(g[i - 1], ops[i])
      <4>1. CASE i = k
        <5>1. k - 1 \in 0 .. k - 1 /\ k # 0
          OBVIOUS
        <5>2. g[k - 1] = f[k - 1]
          BY <3>1, <5>1
        <5> QED BY <3>2, <4>1, <5>1, <5>2
      <4>2. CASE i \in 1 .. k - 1
        <5>1. g[i - 1] = f[i - 1] /\ g[i] = f[i] /\ i # 0
          BY <3>1, <4>2
        <5> QED BY <3>3, <4>2, <5>1
      <4>3. CASE i = 0
        <5>1. 0 \in 0 .. k - 1
          OBVIOUS
        <5>2. g[0] = f[0]
          BY <3>1, <5>1
        <5>3. f[0] = [ok |-> TRUE, nodes |-> ns]
          BY Zenon, <3>3, <5>1
        <5> QED BY <4>3, <5>2, <5>3
      <4> QED BY <4>1, <4>2, <4>3
    <3> QED BY <3>2, <3>4 DEF IsRun
  <2> QED BY <2>2
<1> HIDE DEF S
<1>3. n \in S
  BY <1>1, <1>2, UpTo
<1> QED BY <1>3 DEF S

\* After satisfies the equation that defines it.
LEMMA AfterUnfolds ==
  ASSUME NEW ns, NEW ops, Len(ops) \in Nat
  PROVE  /\ After(ns, ops)[0] = [ok |-> TRUE, nodes |-> ns]
         /\ \A i \in 1 .. Len(ops) :
              After(ns, ops)[i] = Step(After(ns, ops)[i - 1], ops[i])
<1>1. \E f : IsRun(f, Len(ops), ns, ops)
  BY RunExists
<1>2. After(ns, ops) = CHOOSE f : IsRun(f, Len(ops), ns, ops)
  BY DEF After, IsRun
<1>3. IsRun(After(ns, ops), Len(ops), ns, ops)
  BY <1>1, <1>2
<1> DEFINE A == After(ns, ops)
<1>4. A = [i \in 0 .. Len(ops) |-> IF i = 0 THEN [ok |-> TRUE, nodes |-> ns]
                                   ELSE Step(A[i - 1], ops[i])]
  BY Zenon, <1>3 DEF IsRun
<1> HIDE DEF A
<1>5. A[0] = [ok |-> TRUE, nodes |-> ns]
  BY <1>4
<1>6. ASSUME NEW i \in 1 .. Len(ops) PROVE A[i] = Step(A[i - 1], ops[i])
  <2>1. i \in 0 .. Len(ops) /\ i # 0
    OBVIOUS
  <2> QED BY Zenon, <1>4, <2>1
<1> QED BY <1>5, <1>6 DEF A

\* The versions of all the nodes
Versions == [Nodes -> Nat \cup {Absent}]

\* What a run has come to
Outcomes == [ok : BOOLEAN, nodes : Versions]

\* One request changes at most the node it is for, and only if it is allowed.
LEMMA StepFacts ==
  ASSUME NEW s \in Outcomes, NEW op \in Requests
  PROVE  /\ Step(s, op) \in Outcomes
         /\ \A p \in Nodes \ {op.path} : Step(s, op).nodes[p] = s.nodes[p]
         /\ Step(s, op).ok <=> s.ok /\ Allowed(s.nodes, op)
<1>1. op.path \in Nodes /\ op.type \in {"create", "delete", "setData", "check"}
  BY DEF Requests
<1>2. s.nodes \in Versions /\ s.ok \in BOOLEAN
  BY DEF Outcomes
<1>3. CASE s.ok /\ Allowed(s.nodes, op)
  <2> DEFINE ns == Effect(s.nodes, op)
  <2>1. ns \in Versions
    <3>1. op.type = "setData" => s.nodes[op.path] \in Nat
      BY <1>1, <1>2, <1>3 DEF Allowed, Versions
    <3> QED BY <1>1, <1>2, <3>1 DEF Effect, Versions
  <2>2. \A p \in Nodes \ {op.path} : ns[p] = s.nodes[p]
    BY <1>1, <1>2 DEF Effect, Versions
  <2>3. Step(s, op) = [ok |-> TRUE, nodes |-> ns]
    BY <1>3 DEF Step
  <2> HIDE DEF ns
  <2> QED BY <1>3, <2>1, <2>2, <2>3 DEF Outcomes
<1>4. CASE ~(s.ok /\ Allowed(s.nodes, op))
  <2>1. Step(s, op) = [ok |-> FALSE, nodes |-> s.nodes]
    BY <1>4 DEF Step
  <2> QED BY <1>2, <1>4, <2>1 DEF Outcomes
<1> QED BY <1>3, <1>4

\* What a run comes to after each of its requests
LEMMA AfterType ==
  ASSUME NEW ns \in Versions, NEW ops \in Seq(Requests)
  PROVE  \A i \in 0 .. Len(ops) : After(ns, ops)[i] \in Outcomes
<1> DEFINE A == After(ns, ops)
           S == {i \in 0 .. Len(ops) : A[i] \in Outcomes}
<1>1. Len(ops) \in Nat /\ \A i \in 1 .. Len(ops) : ops[i] \in Requests
  OBVIOUS
<1>2. /\ A[0] = [ok |-> TRUE, nodes |-> ns]
      /\ \A i \in 1 .. Len(ops) : A[i] = Step(A[i - 1], ops[i])
  BY <1>1, AfterUnfolds
<1> HIDE DEF A
<1>3. 0 \in S
  <2>1. A[0] \in Outcomes
    BY <1>2 DEF Outcomes
  <2> QED BY <1>1, <2>1
<1>4. ASSUME NEW i \in 1 .. Len(ops), i - 1 \in S PROVE i \in S
  <2>1. A[i - 1] \in Outcomes /\ ops[i] \in Requests /\ A[i] = Step(A[i - 1], ops[i])
    BY <1>1, <1>2, <1>4
  <2>2. A[i] \in Outcomes
    BY <2>1, StepFacts
  <2> QED BY <2>2
<1> HIDE DEF S
<1>5. \A i \in 0 .. Len(ops) : i \in S
  <2>1. 0 \in Nat /\ \A i \in 0 + 1 .. Len(ops) : i - 1 \in S => i \in S
    BY <1>4
  <2> QED BY Zenon, <1>1, <1>3, <2>1, UpTo
<1> QED BY <1>5 DEF S, A

\* A request that is not allowed ends the run: if all were done, each was allowed.
LEMMA AllAllowed ==
  ASSUME NEW ns \in Versions, NEW ops \in Seq(Requests), Run(ns, ops).ok
  PROVE  \A i \in 1 .. Len(ops) :
           After(ns, ops)[i - 1].ok /\ Allowed(After(ns, ops)[i - 1].nodes, ops[i])
<1> DEFINE A == After(ns, ops)
<1>1. Len(ops) \in Nat /\ \A i \in 1 .. Len(ops) : ops[i] \in Requests
  OBVIOUS
<1>2. \A i \in 0 .. Len(ops) : A[i] \in Outcomes
  BY AfterType
<1>3. /\ A[0] = [ok |-> TRUE, nodes |-> ns]
      /\ \A i \in 1 .. Len(ops) : A[i] = Step(A[i - 1], ops[i])
  BY <1>1, AfterUnfolds
<1>4. A[Len(ops)].ok
  BY DEF Run
<1> HIDE DEF A
<1> SUFFICES ASSUME NEW m \in 1 .. Len(ops),
                    ~(A[m - 1].ok /\ Allowed(A[m - 1].nodes, ops[m]))
             PROVE  FALSE
  BY DEF A
<1>5. \A i \in 1 .. Len(ops) : A[i].ok <=> A[i - 1].ok /\ Allowed(A[i - 1].nodes, ops[i])
  <2> SUFFICES ASSUME NEW i \in 1 .. Len(ops)
               PROVE  A[i].ok <=> A[i - 1].ok /\ Allowed(A[i - 1].nodes, ops[i])
    OBVIOUS
  <2>1. A[i - 1] \in Outcomes /\ ops[i] \in Requests /\ A[i] = Step(A[i - 1], ops[i])
    BY <1>1, <1>2, <1>3
  <2>2. Step(A[i - 1], ops[i]).ok <=> A[i - 1].ok /\ Allowed(A[i - 1].nodes, ops[i])
    BY Zenon, <2>1, StepFacts
  <2> QED BY Zenon, <2>1, <2>2
<1> DEFINE S == {i \in m .. Len(ops) : ~A[i].ok}
<1>6. m \in S
  BY <1>1, <1>5
<1>7. ASSUME NEW i \in m + 1 .. Len(ops), i - 1 \in S PROVE i \in S
  BY <1>1, <1>5, <1>7
<1> HIDE DEF S
<1>8. m \in Nat /\ Len(ops) \in m .. Len(ops)
  BY <1>1
<1>9. Len(ops) \in S
  BY <1>1, <1>6, <1>7, <1>8, UpTo
<1> QED BY <1>4, <1>9 DEF S

\* Requests for other nodes leave a node alone.
LEMMA LeftAlone ==
  ASSUME NEW ns \in Versions, NEW ops \in Seq(Requests), NEW p \in Nodes,
         NEW m \in 0 .. Len(ops), NEW n \in m .. Len(ops),
         \A i \in m + 1 .. n : ops[i].path # p
  PROVE  After(ns, ops)[n].nodes[p] = After(ns, ops)[m].nodes[p]
<1> DEFINE A == After(ns, ops)
           S == {i \in m .. n : A[i].nodes[p] = A[m].nodes[p]}
<1>1. Len(ops) \in Nat /\ \A i \in 1 .. Len(ops) : ops[i] \in Requests
  OBVIOUS
<1>2. \A i \in 0 .. Len(ops) : A[i] \in Outcomes
  BY AfterType
<1>3. /\ A[0] = [ok |-> TRUE, nodes |-> ns]
      /\ \A i \in 1 .. Len(ops) : A[i] = Step(A[i - 1], ops[i])
  BY <1>1, AfterUnfolds
<1> HIDE DEF A
<1>4. m \in S
  BY <1>1
<1>5. ASSUME NEW i \in m + 1 .. n, i - 1 \in S PROVE i \in S
  <2>1. i \in 1 .. Len(ops) /\ i - 1 \in 0 .. Len(ops) /\ i \in m .. n
    BY <1>1
  <2>2. A[i - 1] \in Outcomes /\ ops[i] \in Requests /\ A[i] = Step(A[i - 1], ops[i])
    BY <1>1, <1>2, <1>3, <2>1
  <2>3. p \in Nodes \ {ops[i].path}
    OBVIOUS
  <2>4. A[i].nodes[p] = A[i - 1].nodes[p]
    BY <2>2, <2>3, StepFacts
  <2> QED BY <1>5, <2>1, <2>4
<1> HIDE DEF S
<1>6. m \in Nat /\ n \in Nat /\ n \in m .. n
  BY <1>1
<1>7. n \in S
  BY <1>4, <1>5, <1>6, UpTo
<1> QED BY <1>7 DEF S, A

\* What a request makes of its node depends on that node only.
LEMMA OwnEffect ==
  ASSUME NEW v \in Versions, NEW w \in Versions, NEW op \in Requests,
         v[op.path] = w[op.path]
  PROVE  Effect(v, op)[op.path] = Effect(w, op)[op.path]
<1>1. op.path \in DOMAIN v /\ op.path \in DOMAIN w
  BY DEF Requests, Versions
<1> DEFINE New(x) == CASE op.type = "create"  -> 0
                       [] op.type = "delete"  -> Absent
                       [] op.type = "setData" -> x + 1
                       [] op.type = "check"   -> x
<1>2. /\ Effect(v, op) = [v EXCEPT ![op.path] = New(v[op.path])]
      /\ Effect(w, op) = [w EXCEPT ![op.path] = New(w[op.path])]
  BY Zenon DEF Effect
<1> HIDE DEF New
<1>3. Effect(v, op)[op.path] = New(v[op.path]) /\ Effect(w, op)[op.path] = New(w[op.path])
  BY <1>1, <1>2
<1> QED BY <1>3

\* A request that no other request of the run shares its node with finds the node as
\* it was before the run, and leaves it as it is after the run.
LEMMA OwnNode ==
  ASSUME NEW ns \in Versions, NEW ops \in Seq(Requests), Run(ns, ops).ok,
         NEW i \in 1 .. Len(ops),
         \A j \in 1 .. Len(ops) \ {i} : ops[j].path # ops[i].path
  PROVE  /\ Allowed(ns, ops[i])
         /\ Run(ns, ops).nodes[ops[i].path] = Effect(ns, ops[i])[ops[i].path]
<1> DEFINE A == After(ns, ops)
           p == ops[i].path
<1>1. Len(ops) \in Nat /\ ops[i] \in Requests /\ p \in Nodes
  <2>1. Len(ops) \in Nat /\ ops[i] \in Requests
    OBVIOUS
  <2> QED BY <2>1 DEF Requests
<1>2. /\ A[0] = [ok |-> TRUE, nodes |-> ns]
      /\ \A k \in 1 .. Len(ops) : A[k] = Step(A[k - 1], ops[k])
  BY <1>1, AfterUnfolds
<1>3. A[i - 1] \in Outcomes /\ A[i - 1].nodes \in Versions
  <2>1. A[i - 1] \in Outcomes
    BY <1>1, AfterType
  <2> QED BY <2>1 DEF Outcomes
<1>4. A[i - 1].nodes[p] = ns[p]
  <2>1. 0 \in 0 .. Len(ops) /\ i - 1 \in 0 .. Len(ops)
    BY <1>1
  <2>2. \A j \in 0 + 1 .. i - 1 : ops[j].path # p
    BY <1>1
  <2>3. A[i - 1].nodes[p] = A[0].nodes[p]
    BY <1>1, <2>1, <2>2, LeftAlone
  <2> QED BY <1>2, <2>3
<1>5. A[Len(ops)].nodes[p] = A[i].nodes[p]
  <2>1. i \in 0 .. Len(ops) /\ Len(ops) \in i .. Len(ops)
    BY <1>1
  <2>2. \A j \in i + 1 .. Len(ops) : ops[j].path # p
    BY <1>1
  <2> HIDE DEF p
  <2>3. \A m \in 0 .. Len(ops) : \A n \in m .. Len(ops) :
          (\A j \in m + 1 .. n : ops[j].path # p) => A[n].nodes[p] = A[m].nodes[p]
    BY <1>1, LeftAlone
  <2> QED BY <2>1, <2>2, <2>3
<1>6. Allowed(A[i - 1].nodes, ops[i])
  BY AllAllowed
<1>7. A[i].nodes = Effect(A[i - 1].nodes, ops[i])
  <2>1. A[i] = Step(A[i - 1], ops[i]) /\ A[i - 1].ok
    BY <1>1, <1>2, AllAllowed
  <2> HIDE DEF A
  <2> QED BY <1>6, <2>1 DEF Step
<1>8. Run(ns, ops).nodes = A[Len(ops)].nodes
  BY DEF Run
<1> HIDE DEF A
<1>9. Effect(A[i - 1].nodes, ops[i])[p] = Effect(ns, ops[i])[p]
  BY <1>1, <1>3, <1>4, OwnEffect
<1>10. Allowed(ns, ops[i])
  BY <1>4, <1>6 DEF Allowed
<1> QED BY <1>5, <1>7, <1>8, <1>9, <1>10

\* A multi that is done was run, and leaves versions.
LEMMA MultiIsRun ==
  ASSUME NEW ns \in Versions, NEW ops \in Seq(Requests)
  PROVE  /\ Multi(ns, ops).ok <=> Run(ns, ops).ok
         /\ Multi(ns, ops).ok => Multi(ns, ops).nodes = Run(ns, ops).nodes
         /\ ~Multi(ns, ops).ok => Multi(ns, ops).nodes = ns
         /\ Multi(ns, ops).nodes \in Versions
<1>1. Run(ns, ops) \in Outcomes
  <2>1. Len(ops) \in 0 .. Len(ops)
    OBVIOUS
  <2> QED BY <2>1, AfterType DEF Run
<1>2. Run(ns, ops).nodes \in Versions
  BY <1>1 DEF Outcomes
<1>3. CASE Run(ns, ops).ok
  BY <1>2, <1>3 DEF Multi
<1>4. CASE ~Run(ns, ops).ok
  BY <1>4 DEF Multi
<1> QED BY <1>3, <1>4

\* A guarded transaction that has been done is refused when it is repeated.
LEMMA NotTwice ==
  ASSUME operations \in Seq(Requests), Guarded, NEW ns \in Versions,
         Multi(ns, operations).ok
  PROVE  ~Multi(Multi(ns, operations).nodes, operations).ok
<1> DEFINE ms == Multi(ns, operations).nodes
<1>1. /\ Run(ns, operations).ok
      /\ ms = Run(ns, operations).nodes
      /\ ms \in Versions
  BY MultiIsRun
<1> HIDE DEF ms
<1>2. DOMAIN operations = 1 .. Len(operations)
  OBVIOUS
<1>3. PICK i \in 1 .. Len(operations) :
        /\ \/ operations[i].type \in {"create", "delete"}
           \/ operations[i].type = "setData" /\ operations[i].version # AnyVersion
        /\ \A j \in 1 .. Len(operations) \ {i} : operations[j].path # operations[i].path
  BY <1>2 DEF Guarded
<1> DEFINE op == operations[i]
<1>4. op \in Requests
  OBVIOUS
<1>5. Allowed(ns, op) /\ ms[op.path] = Effect(ns, op)[op.path]
  BY <1>1, <1>3, OwnNode
<1> SUFFICES ASSUME Multi(ms, operations).ok PROVE FALSE
  BY DEF ms
<1>6. Allowed(ms, op)
  <2>1. Run(ms, operations).ok
    BY <1>1, MultiIsRun
  <2> QED BY <1>1, <1>3, <2>1, OwnNode
<1>7. op.path \in DOMAIN ns /\ ns[op.path] \in Nat \cup {Absent}
  BY <1>4 DEF Requests, Versions
<1> HIDE DEF op
<1>8. CASE op.type = "create"
  <2>1. ms[op.path] = 0
    BY <1>5, <1>7, <1>8 DEF Effect
  <2> QED BY <1>6, <1>8, <2>1 DEF Allowed, Absent
<1>9. CASE op.type = "delete"
  <2>1. ms[op.path] = Absent
    BY <1>5, <1>7, <1>9 DEF Effect
  <2> QED BY <1>6, <1>9, <2>1 DEF Allowed
<1>10. CASE op.type = "setData" /\ op.version # AnyVersion
  <2>1. ms[op.path] = ns[op.path] + 1
    BY <1>5, <1>7, <1>10 DEF Effect
  <2>2. op.version = ns[op.path] /\ op.version = ms[op.path]
    BY <1>5, <1>6, <1>10 DEF Allowed
  <2> QED BY <1>7, <2>1, <2>2 DEF Absent
<1> QED BY <1>3, <1>8, <1>9, <1>10 DEF op

-----------------------------------------------------------------------------
(* Commit                                                                   *)

\* Until an attempt is known to be done, or its reply is lost, the nodes are as
\* they were.
IInv ==
  /\ operations \in Seq(Requests)
  /\ attempts \in Nat /\ (attempts = 0 => result # "ok")
  /\ pc # "done" => result # "ok"
  /\ result # "ok" /\ ~lost => nodes = before

\* A multi that is not done as a whole leaves the nodes as they are.
LEMMA AllOrNothing ==
  ASSUME NEW ns, NEW ops, ~Multi(ns, ops).ok
  PROVE  Multi(ns, ops).nodes = ns
<1>1. CASE Run(ns, ops).ok
  BY <1>1 DEF Multi
<1>2. CASE ~Run(ns, ops).ok
  BY <1>2 DEF Multi
<1> QED BY <1>1, <1>2

\* InTransaction, and the start of Commit's loop
LEMMA Initially == TransactionInit => IInv
  BY DEF TransactionInit, Init, IInv

\* An operation is added before the first attempt.
LEMMA AddKeeps ==
  ASSUME IInv, NEW op \in Requests, Add(op)
  PROVE  IInv'
<1>1. operations' \in Seq(Requests)
  BY DEF IInv, Add
<1>2. attempts = 0 /\ UNCHANGED <<attempts, pc, result, nodes, before, lost>>
  BY DEF Add, vars
<1> QED BY Zenon, <1>1, <1>2 DEF IInv

\* The server's answers and the failures of a call
LEMMA AttemptKeeps ==
  ASSUME IInv, Done \/ Refused \/ Broken
  PROVE  IInv'
<1>1. pc = "call" /\ result # "ok"
  BY Zenon DEF IInv, Done, Refused, Broken, Returns, Fails, Attempt
<1>2. UNCHANGED <<operations, before>>
  BY Zenon DEF Done, Refused, Broken
<1>3. attempts' \in Nat /\ attempts' # 0
  <2>1. attempts' = attempts + 1
    BY Zenon DEF Done, Refused, Broken, Returns, Fails, Attempt
  <2> QED BY <2>1 DEF IInv
<1>4. CASE Done
  BY Zenon, <1>2, <1>3, <1>4 DEF IInv, Done, Returns, Attempt
<1>5. CASE Refused
  <2>1. Multi(nodes, operations).nodes = nodes
    BY <1>5, AllOrNothing DEF Refused
  <2> QED BY <1>1, <1>2, <1>3, <1>5, <2>1 DEF IInv, Refused, Returns, Attempt
<1>6. CASE Broken
  <2>1. result' # "ok"
    BY <1>6 DEF Broken, Returns, Fails, Attempt
  <2>2. ~lost' => nodes' = nodes /\ ~lost
    BY <1>6 DEF Broken
  <2> QED BY Zenon, <1>1, <1>2, <1>3, <2>1, <2>2 DEF IInv
<1> QED BY <1>4, <1>5, <1>6

\* The loop between two attempts
LEMMA LoopKeeps ==
  ASSUME IInv, Loop
  PROVE  IInv'
<1>1. pc = "decide" /\ UNCHANGED <<attempts, result, transactionVars>>
  BY DEF Loop, RetryAtOnce, Retry, GiveUp
<1> QED BY Zenon, <1>1 DEF IInv, transactionVars

\* Every step of a Commit, and every step before it
LEMMA Preserved == IInv /\ [TransactionNext]_allVars => IInv'
<1> SUFFICES ASSUME IInv, [TransactionNext]_allVars PROVE IInv'
  OBVIOUS
<1>1. CASE UNCHANGED allVars
  BY Zenon, <1>1 DEF IInv, allVars, vars, transactionVars
<1>2. CASE TransactionNext
  BY <1>2, AddKeeps, AttemptKeeps, LoopKeeps DEF TransactionNext
<1> QED BY <1>1, <1>2

\* A Commit that fails, no reply of the server having been lost, has changed nothing
\* (transaction.go, Commit).
THEOREM FailedLeavesNoTrace == TransactionSpec => []ErrorMeansUndone
<1>1. IInv => ErrorMeansUndone
  BY DEF IInv, ErrorMeansUndone
<1> QED BY <1>1, Initially, Preserved, PTL DEF TransactionSpec

\* A guarded transaction has been done or not, never twice: the nodes are those from
\* before it, or those of one run.
OnceInv ==
  /\ nodes \in Versions /\ before \in Versions
  /\ attempts = 0 => nodes = before
  /\ Guarded => \/ nodes = before /\ result # "ok"
                \/ /\ Multi(before, operations).ok
                   /\ nodes = Multi(before, operations).nodes

\* InTransaction
LEMMA OnceInitially == TransactionInit => OnceInv
<1> SUFFICES ASSUME TransactionInit PROVE OnceInv
  OBVIOUS
<1>1. nodes \in Versions /\ before = nodes
  BY DEF TransactionInit, Versions, Absent
<1>2. result # "ok"
  BY DEF TransactionInit, Init
<1> QED BY <1>1, <1>2 DEF OnceInv

\* Whether a transaction is guarded depends on its operations only.
LEMMA GuardedStays == ASSUME UNCHANGED operations PROVE Guarded' <=> Guarded
  BY DEF Guarded

\* An attempt: the server runs the multi on the nodes it finds, which is refused if
\* it has been done.
LEMMA OnceAttemptKeeps ==
  ASSUME IInv, OnceInv, Done \/ Refused \/ Broken
  PROVE  OnceInv'
<1> DEFINE multi == Multi(nodes, operations)
<1>1. /\ UNCHANGED <<operations, before>>
      /\ nodes' \in {nodes, multi.nodes}
      /\ result' = "ok" => multi.ok /\ nodes' = multi.nodes
  BY DEF Done, Refused, Broken, Returns, Fails, Attempt
<1>2. attempts' # 0
  <2>1. attempts' = attempts + 1
    BY Zenon DEF Done, Refused, Broken, Returns, Fails, Attempt
  <2> QED BY <2>1 DEF IInv
<1>3. operations \in Seq(Requests) /\ nodes \in Versions /\ before \in Versions
  BY DEF IInv, OnceInv
<1>4. nodes' \in Versions /\ before' \in Versions
  BY <1>1, <1>3, MultiIsRun
<1>5. ~multi.ok => multi.nodes = nodes
  BY <1>3, MultiIsRun
<1>6. Guarded' => Guarded
  BY <1>1, GuardedStays
<1>7. ASSUME Guarded
      PROVE  \/ nodes' = before /\ result' # "ok"
             \/ Multi(before, operations).ok /\ nodes' = Multi(before, operations).nodes
  <2>1. CASE nodes = before /\ result # "ok"
    BY <1>1, <1>5, <2>1
  <2>2. CASE Multi(before, operations).ok /\ nodes = Multi(before, operations).nodes
    <3>1. ~multi.ok
      BY <1>3, <1>7, <2>2, NotTwice
    <3> HIDE DEF multi
    <3> QED BY <1>1, <1>5, <2>2, <3>1
  <2> QED BY <1>7, <2>1, <2>2 DEF OnceInv
<1> HIDE DEF multi
<1> QED BY Zenon, <1>1, <1>2, <1>4, <1>6, <1>7 DEF OnceInv

\* The other steps: an operation is added before the first attempt, and the loop does
\* not touch the nodes.
LEMMA OncePreserved == IInv /\ OnceInv /\ [TransactionNext]_allVars => OnceInv'
<1> SUFFICES ASSUME IInv, OnceInv, [TransactionNext]_allVars PROVE OnceInv'
  OBVIOUS
<1>1. ASSUME UNCHANGED <<operations, nodes, before, attempts, result>> PROVE OnceInv'
  BY Zenon, <1>1, GuardedStays DEF OnceInv
<1>2. CASE UNCHANGED allVars
  BY <1>1, <1>2 DEF allVars, vars, transactionVars
<1>3. ASSUME NEW op \in Requests, Add(op) PROVE OnceInv'
  <2>1. attempts = 0 /\ UNCHANGED <<attempts, result, nodes, before>>
    BY <1>3 DEF Add, vars
  <2> QED BY Zenon, <2>1 DEF IInv, OnceInv
<1>4. CASE Loop
  <2>1. UNCHANGED <<attempts, result, transactionVars>>
    BY <1>4 DEF Loop, RetryAtOnce, Retry, GiveUp
  <2> QED BY <1>1, <2>1 DEF transactionVars
<1> QED BY <1>2, <1>3, <1>4, OnceAttemptKeeps DEF TransactionNext

\* A guarded transaction that Commit reports as done was done exactly once, however
\* often its multi was sent and whatever replies were lost (transaction.go, Commit;
\* retry.go, CallWithRetry).
THEOREM CommittedOnce == TransactionSpec => []DoneOnce
<1>1. OnceInv => DoneOnce
  BY DEF OnceInv, DoneOnce
<1> QED BY <1>1, Initially, Preserved, OnceInitially, OncePreserved, PTL
    DEF TransactionSpec

\* Commit runs a retry loop: whatever holds of the loop's attempts (RetryLoop) holds
\* of the attempts to send the multi (transaction.go, Commit; retry.go,
\* CallWithRetry).
THEOREM CommitIsALoop == TransactionSpec => Spec
<1>1. TransactionInit => Init
  BY DEF TransactionInit
<1>2. [TransactionNext]_allVars => [Next]_vars
  <2>1. ASSUME UNCHANGED allVars PROVE UNCHANGED vars
    BY <2>1 DEF allVars
  <2>2. ASSUME NEW op \in Requests, Add(op) PROVE UNCHANGED vars
    BY <2>2 DEF Add
  <2>3. ASSUME Done \/ Refused \/ Broken \/ Loop PROVE Next
    BY Zenon, <2>3 DEF Done, Refused, Broken, Loop, Next
  <2> QED BY <2>1, <2>2, <2>3 DEF TransactionNext
<1> QED BY <1>1, <1>2, PTL DEF TransactionSpec, Spec

-----------------------------------------------------------------------------
(* Transactions of any kind, and lost replies: whole runs only              *)

\* f repeats the transaction n times.
IsRepeat(f, n, ns, ops) ==
  f = [k \in 0 .. n |-> IF k = 0 THEN ns ELSE AllOrNone(f[k - 1], ops)]

\* A transaction can be repeated any number of times.
LEMMA RepeatExists ==
  ASSUME NEW ns, NEW ops, NEW n \in Nat
  PROVE  \E f : IsRepeat(f, n, ns, ops)
<1> DEFINE S == {k \in 0 .. n : \E f : IsRepeat(f, k, ns, ops)}
<1>1. 0 \in S
  <2>1. IsRepeat([i \in 0 .. 0 |-> ns], 0, ns, ops)
    BY DEF IsRepeat
  <2> QED BY <2>1
<1>2. ASSUME NEW k \in 1 .. n, k - 1 \in S PROVE k \in S
  <2>1. PICK f : IsRepeat(f, k - 1, ns, ops)
    BY <1>2
  <2> DEFINE g == [i \in 0 .. k |-> IF i = k THEN AllOrNone(f[k - 1], ops) ELSE f[i]]
  <2>2. IsRepeat(g, k, ns, ops)
    <3>1. \A i \in 0 .. k - 1 : g[i] = f[i]
      OBVIOUS
    <3>2. g = [i \in 0 .. k |-> g[i]] /\ g[k] = AllOrNone(f[k - 1], ops)
      OBVIOUS
    <3>3. \A i \in 0 .. k - 1 : f[i] = IF i = 0 THEN ns ELSE AllOrNone(f[i - 1], ops)
      BY <2>1 DEF IsRepeat
    <3> HIDE DEF g
    <3>4. ASSUME NEW i \in 0 .. k
          PROVE  g[i] = IF i = 0 THEN ns ELSE AllOrNone(g[i - 1], ops)
      <4>1. CASE i = k
        <5>1. k - 1 \in 0 .. k - 1 /\ k # 0
          OBVIOUS
        <5>2. g[k - 1] = f[k - 1]
          BY <3>1, <5>1
        <5> QED BY <3>2, <4>1, <5>1, <5>2
      <4>2. CASE i \in 1 .. k - 1
        <5>1. g[i - 1] = f[i - 1] /\ g[i] = f[i] /\ i # 0
          BY <3>1, <4>2
        <5> QED BY <3>3, <4>2, <5>1
      <4>3. CASE i = 0
        <5>1. 0 \in 0 .. k - 1
          OBVIOUS
        <5>2. g[0] = f[0] /\ f[0] = ns
          BY Zenon, <3>1, <3>3, <5>1
        <5> QED BY <4>3, <5>2
      <4> QED BY <4>1, <4>2, <4>3
    <3> QED BY <3>2, <3>4 DEF IsRepeat
  <2> QED BY <2>2
<1> HIDE DEF S
<1>3. n \in S
  BY <1>1, <1>2, UpTo
<1> QED BY <1>3 DEF S

\* Repeated satisfies the equation that defines it.
LEMMA RepeatedUnfolds ==
  ASSUME NEW ns, NEW ops
  PROVE  /\ Repeated(ns, ops)[0] = ns
         /\ \A k \in 1 .. MaxAttempts :
              Repeated(ns, ops)[k] = AllOrNone(Repeated(ns, ops)[k - 1], ops)
<1> DEFINE R == Repeated(ns, ops)
<1>1. MaxAttempts \in Nat
  BY RetryAssumption
<1>2. R = CHOOSE f : IsRepeat(f, MaxAttempts, ns, ops)
  BY DEF Repeated, IsRepeat
<1>3. IsRepeat(R, MaxAttempts, ns, ops)
  BY <1>1, <1>2, RepeatExists
<1>4. R = [k \in 0 .. MaxAttempts |-> IF k = 0 THEN ns ELSE AllOrNone(R[k - 1], ops)]
  BY Zenon, <1>3 DEF IsRepeat
<1> HIDE DEF R
<1>5. R[0] = ns
  BY <1>1, <1>4
<1>6. ASSUME NEW k \in 1 .. MaxAttempts PROVE R[k] = AllOrNone(R[k - 1], ops)
  <2>1. k \in 0 .. MaxAttempts /\ k # 0
    OBVIOUS
  <2> QED BY Zenon, <1>4, <2>1
<1> QED BY <1>5, <1>6 DEF R

\* An attempt adds at most one run.
LEMMA WholeAttemptKeeps ==
  ASSUME LoopInv, AppliedWhole, Done \/ Refused \/ Broken
  PROVE  AppliedWhole'
<1>1. /\ UNCHANGED <<operations, before>>
      /\ nodes' \in {nodes, Multi(nodes, operations).nodes}
      /\ attempts' = attempts + 1 /\ attempts < MaxAttempts
  BY DEF Done, Refused, Broken, Returns, Fails, Attempt
<1>2. Multi(nodes, operations).nodes = AllOrNone(nodes, operations)
  BY DEF Multi, AllOrNone
<1>3. PICK k \in 0 .. attempts : nodes = Repeated(before, operations)[k]
  BY Zenon DEF AppliedWhole
<1>4. attempts \in Nat /\ MaxAttempts \in Nat
  BY RetryAssumption DEF LoopInv, TypeOK
<1>5. k \in 0 .. attempts' /\ k + 1 \in 0 .. attempts' /\ k + 1 \in 1 .. MaxAttempts
  BY <1>1, <1>4
<1>6. Repeated(before, operations)[k + 1] = AllOrNone(nodes, operations)
  <2>1. (k + 1) - 1 = k
    BY <1>4
  <2> QED BY <1>3, <1>5, <2>1, RepeatedUnfolds
<1>7. \/ nodes' = Repeated(before, operations)[k]
      \/ nodes' = Repeated(before, operations)[k + 1]
  BY <1>1, <1>2, <1>3, <1>6
<1>8. Repeated(before, operations)' = Repeated(before, operations)
  BY Zenon, <1>1
<1> QED BY <1>5, <1>7, <1>8 DEF AppliedWhole

\* However replies are lost and attempts repeated, a transaction of any operations is
\* never done in part, and at most once for each attempt (transaction.go, Commit;
\* retry.go, CallWithRetry).
THEOREM NeverInPart == TransactionSpec => []AppliedWhole
<1>1. TransactionInit => AppliedWhole
  <2> SUFFICES ASSUME TransactionInit PROVE AppliedWhole
    OBVIOUS
  <2>1. nodes = before /\ 0 \in 0 .. attempts
    BY DEF TransactionInit, Init
  <2>2. Repeated(before, operations)[0] = before
    BY RepeatedUnfolds
  <2> QED BY Zenon, <2>1, <2>2 DEF AppliedWhole
<1>2. LoopInv /\ OnceInv /\ AppliedWhole /\ [TransactionNext]_allVars => AppliedWhole'
  <2> SUFFICES ASSUME LoopInv, OnceInv, AppliedWhole, [TransactionNext]_allVars
               PROVE  AppliedWhole'
    OBVIOUS
  <2>1. ASSUME UNCHANGED <<operations, nodes, before, attempts>> PROVE AppliedWhole'
    BY Zenon, <2>1 DEF AppliedWhole
  <2>2. ASSUME NEW op \in Requests, Add(op) PROVE AppliedWhole'
    <3>1. attempts' = 0 /\ nodes' = before'
      BY <2>2 DEF Add, vars, OnceInv
    <3>2. 0 \in 0 .. attempts' /\ Repeated(before', operations')[0] = before'
      BY <3>1, RepeatedUnfolds
    <3> QED BY <3>1, <3>2 DEF AppliedWhole
  <2>3. CASE Loop \/ UNCHANGED allVars
    BY <2>1, <2>3 DEF Loop, RetryAtOnce, Retry, GiveUp, allVars, vars, transactionVars
  <2> QED BY <2>2, <2>3, WholeAttemptKeeps DEF TransactionNext
<1>3. Spec => []LoopInv
  BY LoopInitially, LoopPreserved, PTL DEF Spec
<1> QED BY <1>1, <1>2, <1>3, CommitIsALoop, Initially, Preserved, OnceInitially,
           OncePreserved, PTL DEF TransactionSpec

-----------------------------------------------------------------------------
(* The types                                                                *)

\* The rest of the types of a transaction
RestTypes ==
  /\ Len(operations) <= MaxOps /\ lost \in BOOLEAN
  /\ before \in [Nodes -> {Absent, 0}]
  /\ results \in Seq(Result)

\* The results of the operations
LEMMA ResultsType ==
  ASSUME operations \in Seq(Requests), NEW done \in BOOLEAN
  PROVE  ResultsOf(done) \in Seq(Result)
<1>1. ASSUME NEW op \in Requests PROVE ResultOf(op, done) \in Result
  <2>1. op.type \in {"create", "delete", "setData", "check"} /\ op.path \in Nodes
    BY DEF Requests
  <2>2. Unfixed(op.path) \in Paths
    BY <2>1 DEF Nodes, Fixed, Unfixed
  <2> QED BY Zenon, <2>1, <2>2 DEF ResultOf, Result
<1>2. Len(operations) \in Nat /\ DOMAIN operations = 1 .. Len(operations)
  OBVIOUS
<1>3. \A i \in DOMAIN operations : ResultOf(operations[i], done) \in Result
  BY <1>1, <1>2
<1>4. ResultsOf(done) = [i \in 1 .. Len(operations) |-> ResultOf(operations[i], done)]
  BY <1>2 DEF ResultsOf
<1> QED BY <1>2, <1>3, <1>4

LEMMA RestKeeps ==
  ASSUME IInv, RestTypes, [TransactionNext]_allVars
  PROVE  RestTypes'
<1>1. /\ operations \in Seq(Requests) /\ Len(operations) \in Nat
      /\ ResultsOf(TRUE) \in Seq(Result) /\ ResultsOf(FALSE) \in Seq(Result)
      /\ <<>> \in Seq(Result)
  <2>1. operations \in Seq(Requests)
    BY DEF IInv
  <2>2. ResultsOf(TRUE) \in Seq(Result) /\ ResultsOf(FALSE) \in Seq(Result)
    BY Zenon, <2>1, ResultsType
  <2>3. Len(operations) \in Nat /\ <<>> \in Seq(Result)
    BY <2>1
  <2> QED BY Zenon, <2>1, <2>2, <2>3
<1>2. CASE UNCHANGED transactionVars
  BY <1>2 DEF transactionVars, RestTypes
<1>3. ASSUME NEW op \in Requests, Add(op) PROVE RestTypes'
  <2>1. Len(operations') <= MaxOps
    BY <1>1, <1>3, TransactionAssumption DEF Add
  <2> QED BY Zenon, <1>3, <2>1 DEF Add, RestTypes
<1>4. CASE Done \/ Refused \/ Broken
  <2>1. UNCHANGED <<operations, before>> /\ results' \in Seq(Result)
    BY <1>1, <1>4 DEF Done, Refused, Broken
  <2>2. lost' \in BOOLEAN
    BY Zenon, <1>4 DEF Done, Refused, Broken, RestTypes
  <2> QED BY Zenon, <2>1, <2>2 DEF RestTypes
<1> QED BY Zenon, <1>2, <1>3, <1>4 DEF TransactionNext, Loop, allVars

\* The types hold of a transaction and its loop: in particular a node's version is
\* Absent or natural after any number of multis, and Commit returns results of the
\* paths that the operations were given (transaction.go).
THEOREM TypeCorrect == TransactionSpec => []TransactionTypeOK
<1>1. TransactionInit => RestTypes
  <2> SUFFICES ASSUME TransactionInit PROVE RestTypes
    OBVIOUS
  <2>1. Len(operations) <= MaxOps /\ results \in Seq(Result)
    BY TransactionAssumption DEF TransactionInit
  <2> QED BY Zenon, <2>1 DEF TransactionInit, RestTypes
<1>2. IInv /\ RestTypes /\ [TransactionNext]_allVars => RestTypes'
  BY RestKeeps
<1>3. LoopInv /\ IInv /\ OnceInv /\ RestTypes => TransactionTypeOK
  BY DEF LoopInv, IInv, OnceInv, RestTypes, Versions, TransactionTypeOK
<1>4. Spec => []LoopInv
  BY LoopInitially, LoopPreserved, PTL DEF Spec
<1> QED BY <1>1, <1>2, <1>3, <1>4, CommitIsALoop, Initially, Preserved, OnceInitially,
           OncePreserved, PTL DEF TransactionSpec
=============================================================================
