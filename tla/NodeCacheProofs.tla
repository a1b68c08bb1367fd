--------------------------- MODULE NodeCacheProofs ---------------------------
(***************************************************************************)
(* A NodeCache that has settled watches the node and has read its last      *)
(* value, for any number of changes, lost connections and ended sessions,   *)
(* and in whatever order the connection states reach it.                    *)
(***************************************************************************)
EXTENDS NodeCache, SequenceTheorems, TLAPS

\* The listener is registered once, by the Start that finds the cache latent.
LifeInv ==
  /\ starter \in {"new", "ensure", "listen"} => ~registered /\ ~isConnected
  /\ state = "LATENT" => starter = "new"
  /\ jobs[Store(0)] = 0

\* A change that the client has not been told of waits for the connection, and has a
\* watch to fire.
MissedInv == missed => ~online /\ watches > 0

\* A cache that runs, holds itself connected, and had no read fail since
Steady == state = "STARTED" /\ registered /\ isConnected /\ ~readFailed

\* Such a cache has a watch or is about to set one, and has read the node or is
\* about to, or to be told of a change.
WatchInv ==
  Steady =>
    /\ watches > 0 \/ jobs[Job("reset")] > 0 \/ jobs[Job("exists")] > 0
    /\ \/ lastRead = node \/ missed
       \/ \E place \in {"reset", "exists", "get"} : jobs[Job(place)] > 0

IInv == TypeOK /\ LifeInv /\ MissedInv /\ WatchInv

-----------------------------------------------------------------------------
(* The goroutines                                                           *)

\* Which one does what
LEMMA JobsAre ==
  /\ 0 \in Values /\ \A v \in Values : Store(v) \in Jobs
  /\ \A place \in {"reset", "exists", "get"} :
       Job(place) \in Jobs /\ \A v \in Values : Store(v) # Job(place)
  /\ Job("reset") # Job("exists") /\ Job("reset") # Job("get") /\ Job("exists") # Job("get")
  /\ \A v \in Values : v # 0 => Store(v) # Store(0)
<1>1. 0 \in Values
  BY CacheAssumption DEF Values
<1> QED BY <1>1 DEF Job, Store, Jobs

LEMMA Added ==
  ASSUME NEW f \in [Jobs -> Nat], NEW j \in Jobs, NEW n \in Nat
  PROVE  /\ [f EXCEPT ![j] = @ + n] \in [Jobs -> Nat]
         /\ [f EXCEPT ![j] = @ + n][j] = f[j] + n
         /\ \A k \in Jobs \ {j} : [f EXCEPT ![j] = @ + n][k] = f[k]
OBVIOUS

LEMMA EndedIs ==
  ASSUME jobs \in [Jobs -> Nat], NEW j \in Jobs, jobs[j] > 0
  PROVE  /\ Ended(j) \in [Jobs -> Nat] /\ Ended(j)[j] = jobs[j] - 1
         /\ \A k \in Jobs \ {j} : Ended(j)[k] = jobs[k]
BY DEF Ended

LEMMA MovedIs ==
  ASSUME jobs \in [Jobs -> Nat], NEW j \in Jobs, NEW k \in Jobs, j # k, jobs[j] > 0
  PROVE  /\ Moved(j, k) \in [Jobs -> Nat]
         /\ Moved(j, k)[j] = jobs[j] - 1 /\ Moved(j, k)[k] = jobs[k] + 1
         /\ \A l \in Jobs \ {j, k} : Moved(j, k)[l] = jobs[l]
BY DEF Moved

\* The watches turn into resets.
LEMMA FireIs ==
  ASSUME TypeOK, Fire
  PROVE  /\ jobs' \in [Jobs -> Nat] /\ watches' = 0
         /\ jobs'[Job("reset")] = jobs[Job("reset")] + watches
         /\ \A k \in Jobs \ {Job("reset")} : jobs'[k] = jobs[k]
<1>1. jobs \in [Jobs -> Nat] /\ watches \in Nat /\ Job("reset") \in Jobs
  BY JobsAre DEF TypeOK
<1> QED BY <1>1, Added DEF Fire

-----------------------------------------------------------------------------
(* What a step that leaves a part alone keeps                               *)

LEMMA LifeStays ==
  ASSUME LifeInv, UNCHANGED <<starter, state, registered, isConnected>>,
         jobs'[Store(0)] = jobs[Store(0)]
  PROVE  LifeInv'
BY DEF LifeInv

LEMMA MissedStays ==
  ASSUME MissedInv, UNCHANGED <<missed, online>>, watches' >= watches,
         watches \in Nat, watches' \in Nat
  PROVE  MissedInv'
BY DEF MissedInv

\* Outside Steady there is nothing to show.
LEMMA NotSteady == ASSUME ~Steady' PROVE WatchInv'
BY DEF WatchInv

\* One more event of a kind
LEMMA EmitIs ==
  ASSUME TypeOK, NEW event \in Events, Emit(event)
  PROVE  pending' \in [Events -> Nat]
BY DEF TypeOK, Emit

-----------------------------------------------------------------------------
(* The server and the connection                                            *)

LEMMA ChangeKeeps ==
  ASSUME IInv, Change
  PROVE  IInv'
<1>1. TypeOK /\ LifeInv /\ MissedInv /\ WatchInv
  BY DEF IInv
<1>2. /\ UNCHANGED <<online, disconnects, others, current, announced, state, isConnected,
                     registered, data, starter, closer, lastRead, readFailed>>
      /\ changes < MaxChanges /\ changes' = changes + 1 /\ node' \in {changes', 0}
  BY DEF Change, cacheVars, callVars, readVars
<1>3. changes' \in 0 .. MaxChanges /\ node' \in Values
  BY <1>1, <1>2, CacheAssumption DEF TypeOK, Values
<1>4. CASE online /\ watches > 0 /\ Fire /\ Emit("SyncConnected") /\ missed' = missed
  <2>1. /\ jobs' \in [Jobs -> Nat] /\ watches' = 0
        /\ jobs'[Job("reset")] = jobs[Job("reset")] + watches
        /\ \A k \in Jobs \ {Job("reset")} : jobs'[k] = jobs[k]
    BY <1>1, <1>4, FireIs
  <2>2. pending' \in [Events -> Nat]
    BY <1>1, <1>4, EmitIs DEF Events
  <2>3. TypeOK'
    BY <1>1, <1>2, <1>3, <1>4, <2>1, <2>2 DEF TypeOK
  <2>4. LifeInv'
    BY <1>1, <1>2, <2>1, JobsAre, LifeStays
  <2>5. jobs'[Job("reset")] > 0
    <3>1. jobs[Job("reset")] \in Nat /\ watches \in Nat
      BY <1>1, JobsAre DEF TypeOK
    <3> QED BY <1>4, <2>1, <3>1
  <2>6. WatchInv'
    BY <2>5 DEF WatchInv
  <2>7. MissedInv'
    BY <1>1, <1>2, <1>4 DEF MissedInv
  <2> QED BY <2>3, <2>4, <2>6, <2>7 DEF IInv
<1>5. CASE /\ ~online \/ watches = 0
           /\ missed' = (missed \/ watches > 0)
           /\ UNCHANGED <<watches, jobs, pending>>
  <2>1. missed' \in BOOLEAN
    BY <1>5
  <2>2. TypeOK'
    BY <1>1, <1>2, <1>3, <1>5, <2>1 DEF TypeOK
  <2>3. LifeInv'
    BY <1>1, <1>2, <1>5, LifeStays
  <2>4. watches \in Nat
    BY <1>1 DEF TypeOK
  <2>5. MissedInv'
    <3>1. missed' => watches > 0
      BY <1>1, <1>5 DEF MissedInv
    <3>2. watches > 0 => ~online
      BY <1>5, <2>4
    <3> QED BY <1>2, <1>5, <3>1, <3>2 DEF MissedInv
  <2>6. WatchInv'
    <3> SUFFICES ASSUME Steady' PROVE WatchInv'
      BY NotSteady
    <3>1. Steady
      BY <1>2 DEF Steady
    <3>2. watches > 0 \/ jobs[Job("reset")] > 0 \/ jobs[Job("exists")] > 0
      BY <1>1, <3>1 DEF WatchInv
    <3> QED BY Zenon, <1>5, <3>2 DEF WatchInv
  <2> QED BY <2>2, <2>3, <2>5, <2>6 DEF IInv
<1> QED BY <1>4, <1>5 DEF Change

\* An event of another watch, and the loss of the connection, only start goroutines
\* of the framework.
LEMMA EventKeeps ==
  ASSUME IInv, OtherEvent \/ Disconnect
  PROVE  IInv'
<1>1. TypeOK /\ LifeInv /\ MissedInv /\ WatchInv
  BY DEF IInv
<1>2. /\ UNCHANGED <<node, changes, watches, missed, current, announced, state, isConnected,
                     registered, data, starter, closer, jobs, lastRead, readFailed>>
      /\ online /\ online' \in BOOLEAN
  <2>1. CASE OtherEvent
    BY <2>1 DEF OtherEvent, cacheVars, callVars, readVars
  <2>2. CASE Disconnect
    BY <2>2 DEF Disconnect, cacheVars, callVars, readVars
  <2> QED BY <2>1, <2>2
<1>3. /\ disconnects' \in 0 .. MaxDisconnects /\ others' \in 0 .. MaxOthers
      /\ pending' \in [Events -> Nat]
  <2>1. CASE OtherEvent
    BY <1>1, <2>1, EmitIs, CacheAssumption DEF OtherEvent, TypeOK, Events
  <2>2. CASE Disconnect
    BY <1>1, <2>2, EmitIs, CacheAssumption DEF Disconnect, TypeOK, Events
  <2> QED BY <2>1, <2>2
<1>4. TypeOK'
  BY <1>1, <1>2, <1>3 DEF TypeOK
<1>5. LifeInv'
  BY <1>1, <1>2, LifeStays
<1>6. MissedInv'
  BY <1>1, <1>2 DEF MissedInv
<1>7. WatchInv'
  BY <1>1, <1>2 DEF WatchInv, Steady
<1> QED BY <1>4, <1>5, <1>6, <1>7 DEF IInv

\* The connection is back, or the session ends: where that fires watches, as many
\* resets start.
LEMMA SessionKeeps ==
  ASSUME IInv, Connect \/ Expire
  PROVE  IInv'
<1>1. TypeOK /\ LifeInv /\ MissedInv /\ WatchInv
  BY DEF IInv
<1>2. /\ UNCHANGED <<node, changes, disconnects, others, current, announced, state,
                     isConnected, registered, data, starter, closer, lastRead, readFailed>>
      /\ online' \in BOOLEAN /\ missed' = FALSE /\ missed' \in BOOLEAN
  <2>1. CASE Connect
    BY <2>1 DEF Connect, cacheVars, callVars, readVars
  <2>2. CASE Expire
    BY <1>1, <2>2 DEF Expire, cacheVars, callVars, readVars, TypeOK
  <2> QED BY <2>1, <2>2
<1>3. CASE Fire /\ watches > 0 /\ pending' \in [Events -> Nat]
  <2>1. /\ jobs' \in [Jobs -> Nat] /\ watches' = 0
        /\ jobs'[Job("reset")] = jobs[Job("reset")] + watches
        /\ \A k \in Jobs \ {Job("reset")} : jobs'[k] = jobs[k]
    BY <1>1, <1>3, FireIs
  <2>2. TypeOK'
    BY <1>1, <1>2, <1>3, <2>1 DEF TypeOK
  <2>3. LifeInv'
    BY <1>1, <1>2, <2>1, JobsAre, LifeStays
  <2>4. jobs'[Job("reset")] > 0
    <3>1. jobs[Job("reset")] \in Nat /\ watches \in Nat
      BY <1>1, JobsAre DEF TypeOK
    <3> QED BY <1>3, <2>1, <3>1
  <2> QED BY <1>2, <2>2, <2>3, <2>4 DEF IInv, MissedInv, WatchInv
<1>4. CASE ~missed /\ UNCHANGED <<watches, jobs, pending>>
  <2>1. TypeOK'
    BY <1>1, <1>2, <1>4 DEF TypeOK
  <2>2. LifeInv'
    BY <1>1, <1>2, <1>4, LifeStays
  <2>3. WatchInv'
    BY <1>1, <1>2, <1>4 DEF WatchInv, Steady
  <2> QED BY <1>2, <2>1, <2>2, <2>3 DEF IInv, MissedInv
<1>5. CASE Connect
  <2>1. CASE missed /\ Fire /\ Emit("SyncConnected")
    BY <1>1, <1>3, <2>1, EmitIs DEF MissedInv, Events
  <2> QED BY <1>4, <1>5, <2>1 DEF Connect
<1>6. CASE Expire
  BY <1>1, <1>3, <1>6, EmitIs DEF Expire, Events
<1> QED BY <1>5, <1>6

-----------------------------------------------------------------------------
(* The framework and its connection state manager                           *)

\* What the manager makes of the events, in whatever order, waits to be shown.
LEMMA ValidateKeeps ==
  ASSUME IInv, ValidateConnection
  PROVE  IInv'
<1>1. TypeOK /\ LifeInv /\ MissedInv /\ WatchInv
  BY DEF IInv
<1>2. /\ UNCHANGED <<serverVars, state, isConnected, registered, data, starter, closer, jobs,
                     lastRead, readFailed>>
      /\ \E up \in BOOLEAN : ChangeState(up)
  BY DEF ValidateConnection, SyncConnected, SuspendConnection, LostConnection, cacheVars,
         callVars, readVars
<1>3. current' \in States /\ announced' \in Seq(BOOLEAN)
  <2>1. announced \in Seq(BOOLEAN)
    BY <1>1 DEF TypeOK
  <2>2. PICK up \in BOOLEAN : ChangeState(up)
    BY Zenon, <1>2
  <2>3. current' \in States /\ announced' \in {announced, Append(announced, up)}
    BY Zenon, <2>2 DEF ChangeState, States
  <2> QED BY <2>1, <2>3, AppendProperties
<1>4. pending' \in [Events -> Nat]
  <2>1. pending \in [Events -> Nat]
    BY <1>1 DEF TypeOK
  <2>2. CASE SyncConnected
    BY <2>1, <2>2 DEF SyncConnected, Events
  <2>3. CASE SuspendConnection
    BY <2>1, <2>3 DEF SuspendConnection, Events
  <2>4. CASE LostConnection
    BY <2>1, <2>4 DEF LostConnection, Events
  <2> QED BY <2>2, <2>3, <2>4 DEF ValidateConnection
<1>5. TypeOK'
  BY <1>1, <1>2, <1>3, <1>4 DEF TypeOK, serverVars
<1>6. LifeInv' /\ MissedInv' /\ WatchInv'
  BY <1>1, <1>2 DEF LifeInv, MissedInv, WatchInv, Steady, serverVars
<1> QED BY <1>5, <1>6 DEF IInv

-----------------------------------------------------------------------------
(* The life cycle                                                           *)

\* The steps of StartAndInitalize before the cache can be connected
LEMMA StartKeeps ==
  ASSUME IInv, Start \/ Ensure \/ AddListener
  PROVE  IInv'
<1>1. TypeOK /\ LifeInv /\ MissedInv /\ WatchInv
  BY DEF IInv
<1>2. /\ starter \in {"new", "ensure", "listen"} /\ ~isConnected
      /\ UNCHANGED <<serverVars, managerVars, isConnected, data, closer, jobs, readVars>>
  BY <1>1 DEF Start, Ensure, AddListener, LifeInv, cacheVars
<1>3. /\ registered' \in BOOLEAN
      /\ starter' \in {"ensure", "listen", "rebuild", "reset", "failed"}
      /\ state' \in {"LATENT", "STARTED", "STOPPED"}
      /\ state' # "LATENT"
      /\ starter' \in {"new", "ensure", "listen"} => ~registered'
  <2>1. CASE Start
    BY <1>1, <2>1 DEF Start, TypeOK, LifeInv
  <2>2. CASE Ensure
    BY <1>1, <2>2 DEF Ensure, TypeOK, LifeInv, cacheVars
  <2>3. CASE AddListener
    BY <1>1, <2>3 DEF AddListener, TypeOK, LifeInv
  <2> QED BY <2>1, <2>2, <2>3
<1>4. TypeOK'
  BY <1>1, <1>2, <1>3 DEF TypeOK, serverVars, managerVars, readVars
<1>5. LifeInv'
  BY <1>1, <1>2, <1>3 DEF LifeInv
<1>6. MissedInv'
  BY <1>1, <1>2 DEF MissedInv, serverVars
<1>7. ~Steady'
  BY <1>2 DEF Steady
<1> QED BY <1>4, <1>5, <1>6, <1>7, NotSteady DEF IInv

\* More goroutines, watches or reads keep what is known of a steady cache.
LEMMA WatchGrows ==
  ASSUME TypeOK, WatchInv, Steady' => Steady, UNCHANGED <<node, missed>>, lastRead' \in {lastRead, node},
         watches' \in Nat, watches' >= watches,
         \A place \in {"reset", "exists", "get"} :
           jobs'[Job(place)] \in Nat /\ jobs'[Job(place)] >= jobs[Job(place)]
  PROVE  WatchInv'
<1> SUFFICES ASSUME Steady' PROVE WatchInv'
  BY NotSteady
<1>1. watches \in Nat /\ \A place \in {"reset", "exists", "get"} : jobs[Job(place)] \in Nat
  BY JobsAre DEF TypeOK
<1>2. watches > 0 \/ jobs[Job("reset")] > 0 \/ jobs[Job("exists")] > 0
  BY DEF WatchInv
<1>3. \/ lastRead = node \/ missed
      \/ \E place \in {"reset", "exists", "get"} : jobs[Job(place)] > 0
  BY DEF WatchInv
<1>4. watches' > 0 \/ jobs'[Job("reset")] > 0 \/ jobs'[Job("exists")] > 0
  BY <1>1, <1>2
<1>5. \/ lastRead' = node \/ missed
      \/ \E place \in {"reset", "exists", "get"} : jobs'[Job(place)] > 0
  BY <1>1, <1>3
<1> QED BY <1>4, <1>5 DEF WatchInv

LEMMA RebuildKeeps ==
  ASSUME IInv, InternalRebuild
  PROVE  IInv'
<1>1. TypeOK /\ LifeInv /\ MissedInv /\ WatchInv
  BY DEF IInv
<1>2. /\ starter = "rebuild" /\ starter' \in {"reset", "failed"} /\ data' \in {data, node}
      /\ UNCHANGED <<serverVars, managerVars, state, isConnected, registered, closer, jobs,
                     readVars>>
  BY DEF InternalRebuild, cacheVars
<1>3. TypeOK'
  BY <1>1, <1>2 DEF TypeOK, serverVars, managerVars, readVars
<1>4. LifeInv'
  BY <1>1, <1>2 DEF LifeInv
<1>5. MissedInv' /\ WatchInv'
  BY <1>1, <1>2 DEF MissedInv, WatchInv, Steady, serverVars, readVars
<1> QED BY <1>3, <1>4, <1>5 DEF IInv

\* One more CheckExists
LEMMA MoreIs ==
  ASSUME TypeOK, jobs' = [jobs EXCEPT ![Job("exists")] = @ + 1]
  PROVE  /\ jobs' \in [Jobs -> Nat] /\ jobs'[Job("exists")] > 0
         /\ jobs'[Store(0)] = jobs[Store(0)]
         /\ \A place \in {"reset", "exists", "get"} : jobs'[Job(place)] >= jobs[Job(place)]
<1>1. jobs \in [Jobs -> Nat] /\ Job("exists") \in Jobs /\ jobs[Job("exists")] \in Nat
  BY JobsAre DEF TypeOK
<1>2. /\ jobs' \in [Jobs -> Nat] /\ jobs'[Job("exists")] = jobs[Job("exists")] + 1
      /\ \A k \in Jobs \ {Job("exists")} : jobs'[k] = jobs[k]
  BY <1>1, Added
<1>3. jobs'[Store(0)] = jobs[Store(0)]
  BY <1>2, JobsAre
<1>4. \A place \in {"reset", "get"} : jobs'[Job(place)] = jobs[Job(place)]
  BY <1>2, JobsAre
<1>5. \A place \in {"reset", "get"} : jobs[Job(place)] \in Nat
  BY <1>1, JobsAre
<1> QED BY <1>1, <1>2, <1>3, <1>4, <1>5

LEMMA StartResetKeeps ==
  ASSUME IInv, StartReset
  PROVE  IInv'
<1>1. TypeOK /\ LifeInv /\ MissedInv /\ WatchInv
  BY DEF IInv
<1>2. /\ starter = "reset" /\ starter' = "returned"
      /\ UNCHANGED <<serverVars, managerVars, state, isConnected, registered, data, closer,
                     readVars>>
  BY DEF StartReset, cacheVars
<1>3. /\ jobs' \in [Jobs -> Nat] /\ jobs'[Store(0)] = jobs[Store(0)]
      /\ \A place \in {"reset", "exists", "get"} : jobs'[Job(place)] >= jobs[Job(place)]
  <2>1. CASE jobs' = [jobs EXCEPT ![Job("exists")] = @ + 1]
    BY <1>1, <2>1, MoreIs
  <2>2. CASE jobs' = jobs
    <3>1. \A place \in {"reset", "exists", "get"} : jobs[Job(place)] \in Nat
      BY <1>1, JobsAre DEF TypeOK
    <3> QED BY <1>1, <2>2, <3>1 DEF TypeOK
  <2> QED BY <2>1, <2>2 DEF StartReset
<1>4. TypeOK'
  BY <1>1, <1>2, <1>3 DEF TypeOK, serverVars, managerVars, readVars
<1>5. LifeInv'
  BY <1>1, <1>2, <1>3 DEF LifeInv
<1>6. MissedInv'
  BY <1>1, <1>2 DEF MissedInv, serverVars
<1>7. WatchInv'
  <2>1. \A place \in {"reset", "exists", "get"} : jobs'[Job(place)] \in Nat
    BY <1>3, JobsAre
  <2>2. (Steady' => Steady) /\ UNCHANGED <<node, missed, lastRead>>
    BY <1>2 DEF Steady, serverVars, readVars
  <2>3. watches' \in Nat /\ watches' >= watches
    BY <1>1, <1>2 DEF TypeOK, serverVars
  <2> QED BY <1>1, <1>3, <2>1, <2>2, <2>3, WatchGrows
<1> QED BY <1>4, <1>5, <1>6, <1>7 DEF IInv

LEMMA CloseKeeps ==
  ASSUME IInv, Close \/ RemoveListener
  PROVE  IInv'
<1>1. TypeOK /\ LifeInv /\ MissedInv /\ WatchInv
  BY DEF IInv
<1>2. /\ closer' \in {"remove", "returned"}
      /\ registered' \in BOOLEAN /\ (registered' => registered)
      /\ state' = state \/ (state = "STARTED" /\ state' = "STOPPED")
      /\ UNCHANGED <<serverVars, managerVars, isConnected, data, starter, jobs, readVars>>
  <2>1. registered \in BOOLEAN
    BY <1>1 DEF TypeOK
  <2>2. CASE Close
    BY <2>1, <2>2 DEF Close
  <2>3. CASE RemoveListener
    BY Zenon, <2>3 DEF RemoveListener
  <2> QED BY <2>2, <2>3
<1>3. TypeOK'
  BY <1>1, <1>2 DEF TypeOK, serverVars, managerVars, readVars
<1>4. LifeInv'
  BY <1>1, <1>2 DEF LifeInv
<1>5. MissedInv'
  BY <1>1, <1>2 DEF MissedInv, serverVars
<1>6. WatchInv'
  BY <1>1, <1>2 DEF WatchInv, Steady, serverVars, readVars
<1> QED BY <1>3, <1>4, <1>5, <1>6 DEF IInv

-----------------------------------------------------------------------------
(* The callbacks                                                            *)

\* A state that is shown: the cache leaves what it knew, or starts a reset.
LEMMA StateChangedKeeps ==
  ASSUME IInv, StateChanged
  PROVE  IInv'
<1>1. TypeOK /\ LifeInv /\ MissedInv /\ WatchInv
  BY DEF IInv
<1>2. /\ announced # <<>> /\ announced' = Tail(announced)
      /\ UNCHANGED <<serverVars, pending, current, state, registered, data, starter, closer,
                     lastRead>>
  BY Zenon DEF StateChanged, callVars
<1>3. announced' \in Seq(BOOLEAN)
  BY <1>1, <1>2 DEF TypeOK
<1>4. \/ jobs' = jobs
      \/ jobs' = [jobs EXCEPT ![Job("exists")] = @ + 1]
  BY Zenon DEF StateChanged
<1>5. jobs' \in [Jobs -> Nat] /\ jobs'[Store(0)] = jobs[Store(0)]
  BY <1>1, <1>4, MoreIs DEF TypeOK
<1>6. /\ isConnected' \in BOOLEAN /\ readFailed' \in BOOLEAN
      /\ registered \/ isConnected' = isConnected
  <2>1. isConnected \in BOOLEAN /\ readFailed \in BOOLEAN
    BY <1>1 DEF TypeOK
  <2> QED BY Zenon, <2>1 DEF StateChanged
<1>7. TypeOK'
  BY <1>1, <1>2, <1>3, <1>5, <1>6 DEF TypeOK, serverVars
<1>8. LifeInv'
  BY <1>1, <1>2, <1>5, <1>6 DEF LifeInv
<1>9. MissedInv'
  BY <1>1, <1>2 DEF MissedInv, serverVars
<1>10. WatchInv'
  <2> SUFFICES ASSUME Steady' PROVE WatchInv'
    BY NotSteady
  <2>1. state = "STARTED" /\ isConnected'
    BY <1>2 DEF Steady
  <2>2. CASE jobs' = [jobs EXCEPT ![Job("exists")] = @ + 1]
    BY <1>1, <2>2, MoreIs DEF WatchInv
  <2>3. CASE UNCHANGED <<isConnected, jobs, readFailed>>
    BY <1>1, <1>2, <2>3 DEF WatchInv, Steady, serverVars
  <2> QED BY Zenon, <2>1, <2>2, <2>3 DEF StateChanged
<1> QED BY <1>7, <1>8, <1>9, <1>10 DEF IInv

\* A goroutine that ends or moves, with a watch and a read it may leave: what the
\* steps of the background have in common.
Passes ==
  /\ UNCHANGED <<node, changes, online, missed, disconnects, others, managerVars, state,
                 isConnected, registered, starter, closer>>
  /\ jobs' \in [Jobs -> Nat] /\ jobs'[Store(0)] = 0
  /\ watches' \in Nat /\ watches' >= watches
  /\ data' \in Values /\ lastRead' \in Values /\ readFailed' \in {readFailed, TRUE}

LEMMA PassesKeeps ==
  ASSUME IInv, Passes, Steady /\ Steady' => WatchInv'
  PROVE  IInv'
<1>1. TypeOK /\ LifeInv /\ MissedInv
  BY DEF IInv
<1>2. readFailed' \in BOOLEAN
  BY Zenon, <1>1 DEF TypeOK, Passes
<1>3. TypeOK'
  BY <1>1, <1>2 DEF TypeOK, Passes, managerVars
<1>4. LifeInv'
  BY <1>1, LifeStays DEF LifeInv, Passes
<1>5. MissedInv'
  BY <1>1, MissedStays DEF Passes, TypeOK
<1>6. Steady' => Steady
  BY Zenon DEF Passes, Steady
<1>7. WatchInv'
  BY Zenon, <1>6, NotSteady
<1> QED BY <1>3, <1>4, <1>5, <1>7 DEF IInv

LEMMA ResetKeeps ==
  ASSUME IInv, Reset
  PROVE  IInv'
<1>1. TypeOK /\ LifeInv /\ jobs \in [Jobs -> Nat] /\ jobs[Job("reset")] > 0
  BY DEF IInv, TypeOK, Reset
<1>2. UNCHANGED <<node, changes, online, missed, disconnects, others, watches, managerVars,
                  state, isConnected, registered, starter, closer, data, lastRead,
                  readFailed>>
  BY DEF Reset, serverVars, cacheVars, callVars, readVars
<1>3. CASE CanReset
  <2>1. jobs' = Moved(Job("reset"), Job("exists"))
    BY <1>3 DEF Reset
  <2>2. /\ jobs' \in [Jobs -> Nat] /\ jobs'[Job("exists")] = jobs[Job("exists")] + 1
        /\ jobs'[Store(0)] = jobs[Store(0)] /\ jobs[Job("exists")] \in Nat
    BY <1>1, <2>1, JobsAre, MovedIs
  <2>3. WatchInv'
    BY <2>2 DEF WatchInv
  <2> QED BY <1>1, <1>2, <2>2, <2>3, PassesKeeps DEF Passes, LifeInv, TypeOK
<1>4. CASE ~CanReset
  <2>1. jobs' = Ended(Job("reset"))
    BY <1>4 DEF Reset
  <2>2. jobs' \in [Jobs -> Nat] /\ jobs'[Store(0)] = jobs[Store(0)]
    BY <1>1, <2>1, JobsAre, EndedIs
  <2> QED BY <1>1, <1>2, <1>4, <2>2, PassesKeeps DEF Passes, LifeInv, TypeOK, Steady, CanReset
<1> QED BY <1>3, <1>4

LEMMA ExistsKeeps ==
  ASSUME IInv, Exists
  PROVE  IInv'
<1>1. TypeOK /\ LifeInv /\ jobs \in [Jobs -> Nat] /\ jobs[Job("exists")] > 0 /\ watches \in Nat
  BY DEF IInv, TypeOK, Exists
<1>2. /\ UNCHANGED <<node, changes, online, missed, disconnects, others, managerVars, state,
                     isConnected, registered, starter, closer, data, lastRead, readFailed>>
      /\ watches' = watches + 1 /\ jobs' = Moved(Job("exists"), Job("get"))
  BY DEF Exists, cacheVars, callVars, readVars
<1>3. /\ jobs' \in [Jobs -> Nat] /\ jobs'[Job("get")] = jobs[Job("get")] + 1
      /\ jobs'[Store(0)] = jobs[Store(0)] /\ jobs[Job("get")] \in Nat
  BY <1>1, <1>2, JobsAre, MovedIs
<1>4. WatchInv'
  BY <1>1, <1>2, <1>3 DEF WatchInv
<1> QED BY <1>1, <1>2, <1>3, <1>4, PassesKeeps DEF Passes, LifeInv, TypeOK

\* The watch stays: CheckExists set one before.
LEMMA GetDataKeeps ==
  ASSUME IInv, GetData
  PROVE  IInv'
<1>1. /\ TypeOK /\ LifeInv /\ WatchInv /\ jobs \in [Jobs -> Nat] /\ jobs[Job("get")] > 0
      /\ watches \in Nat /\ node \in Values
  BY DEF IInv, TypeOK, GetData
<1>2. /\ UNCHANGED <<node, changes, online, missed, disconnects, others, managerVars, state,
                     isConnected, registered, starter, closer, data, readFailed>>
      /\ lastRead' = node /\ watches' \in {watches, watches + 1}
  BY DEF GetData, cacheVars, callVars, readVars
<1>3. /\ jobs' \in [Jobs -> Nat] /\ jobs'[Store(0)] = jobs[Store(0)]
      /\ jobs'[Job("reset")] = jobs[Job("reset")]
      /\ jobs'[Job("exists")] = jobs[Job("exists")]
  <2>1. CASE node # 0 /\ jobs' = Moved(Job("get"), Store(node))
    <3>1. /\ Store(node) \in Jobs /\ Store(node) # Store(0) /\ Store(0) \in Jobs
          /\ Store(node) \notin {Job("reset"), Job("exists"), Job("get")}
          /\ {Job("reset"), Job("exists"), Job("get")} \subseteq Jobs
          /\ Store(0) # Job("get") /\ Job("reset") # Job("get") /\ Job("exists") # Job("get")
      BY <1>1, <2>1, JobsAre
    <3> QED BY <1>1, <2>1, <3>1, MovedIs
  <2>2. CASE jobs' = Ended(Job("get"))
    BY <1>1, <2>2, JobsAre, EndedIs
  <2> QED BY <2>1, <2>2 DEF GetData
<1>4. Steady => WatchInv'
  <2> SUFFICES ASSUME Steady
               PROVE  watches' > 0 \/ jobs'[Job("reset")] > 0 \/ jobs'[Job("exists")] > 0
    BY <1>2 DEF WatchInv
  <2>1. watches > 0 \/ jobs[Job("reset")] > 0 \/ jobs[Job("exists")] > 0
    BY <1>1 DEF WatchInv
  <2> QED BY <1>1, <1>2, <1>3, <2>1
<1>5. Passes
  BY <1>1, <1>2, <1>3 DEF Passes, LifeInv, TypeOK
<1> QED BY <1>4, <1>5, PassesKeeps

LEMMA CallFailsKeeps ==
  ASSUME IInv, NEW place \in {"exists", "get"}, CallFails(place)
  PROVE  IInv'
<1>1. TypeOK /\ LifeInv /\ jobs \in [Jobs -> Nat] /\ jobs[Job(place)] > 0
  BY DEF IInv, TypeOK, CallFails
<1>2. /\ UNCHANGED <<node, changes, online, missed, disconnects, others, watches, managerVars,
                     state, isConnected, registered, starter, closer, data, lastRead>>
      /\ jobs' = Ended(Job(place)) /\ readFailed' = TRUE
  BY DEF CallFails, serverVars, cacheVars, callVars
<1>3. jobs' \in [Jobs -> Nat] /\ jobs'[Store(0)] = jobs[Store(0)]
  BY <1>1, <1>2, JobsAre, EndedIs
<1>4. Passes
  BY <1>1, <1>2, <1>3 DEF Passes, LifeInv, TypeOK
<1> QED BY <1>2, <1>4, PassesKeeps DEF Steady

LEMMA SetNewDataKeeps ==
  ASSUME IInv, NEW value \in Values, SetNewData(value)
  PROVE  IInv'
<1>1. TypeOK /\ LifeInv /\ WatchInv /\ jobs \in [Jobs -> Nat] /\ jobs[Store(value)] > 0
  BY DEF IInv, TypeOK, SetNewData
<1>2. /\ UNCHANGED <<node, changes, online, missed, disconnects, others, watches, managerVars,
                     state, isConnected, registered, starter, closer, lastRead, readFailed>>
      /\ jobs' = Ended(Store(value)) /\ data' = value
  BY DEF SetNewData, serverVars, cacheVars, callVars, readVars
<1>3. value # 0
  BY <1>1 DEF LifeInv
<1>4. /\ jobs' \in [Jobs -> Nat] /\ jobs'[Store(0)] = jobs[Store(0)]
      /\ \A place \in {"reset", "exists", "get"} : jobs'[Job(place)] = jobs[Job(place)]
  BY <1>1, <1>2, <1>3, JobsAre, EndedIs
<1>5. Passes
  BY <1>1, <1>2, <1>4 DEF Passes, LifeInv, TypeOK
<1>6. Steady => WatchInv'
  BY <1>1, <1>2, <1>4 DEF WatchInv
<1> QED BY <1>5, <1>6, PassesKeeps

-----------------------------------------------------------------------------
(* The invariant is inductive                                               *)

LEMMA Initially == Init => IInv
<1> SUFFICES ASSUME Init PROVE IInv
  OBVIOUS
<1>1. 0 \in Values /\ 0 \in 0 .. MaxChanges /\ Store(0) \in Jobs
      /\ 0 \in 0 .. MaxDisconnects /\ 0 \in 0 .. MaxOthers
  BY CacheAssumption, JobsAre
<1>2. TypeOK
  <2>1. announced \in Seq(BOOLEAN)
    BY DEF Init
  <2>2. jobs \in [Jobs -> Nat]
    BY DEF Init
  <2>3. /\ online \in BOOLEAN /\ missed \in BOOLEAN
        /\ registered \in BOOLEAN /\ isConnected \in BOOLEAN
        /\ current \in States /\ readFailed \in BOOLEAN
    BY Zenon DEF Init
  <2>4. pending \in [Events -> Nat]
    BY DEF Init
  <2> QED BY <1>1, <2>1, <2>2, <2>3, <2>4 DEF Init, TypeOK
<1>3. LifeInv
  BY <1>1 DEF Init, LifeInv
<1>4. MissedInv
  BY DEF Init, MissedInv
<1>5. WatchInv
  BY DEF Init, WatchInv, Steady
<1> QED BY <1>2, <1>3, <1>4, <1>5 DEF IInv

LEMMA Preserved == IInv /\ [Next]_vars => IInv'
<1> SUFFICES ASSUME IInv, [Next]_vars PROVE IInv'
  OBVIOUS
<1>1. CASE UNCHANGED vars
  <2>1. TypeOK'
    BY <1>1 DEF IInv, TypeOK, vars, serverVars, managerVars, cacheVars, callVars, readVars
  <2>2. LifeInv' /\ MissedInv' /\ WatchInv'
    BY <1>1 DEF IInv, LifeInv, MissedInv, WatchInv, Steady, vars, serverVars, cacheVars,
                callVars, readVars
  <2> QED BY <2>1, <2>2 DEF IInv
<1>2. CASE Lifecycle
  BY <1>2, StartKeeps, RebuildKeeps, StartResetKeeps, CloseKeeps DEF Lifecycle
<1>3. CASE Background
  BY <1>3, ResetKeeps, ExistsKeeps, GetDataKeeps, CallFailsKeeps, SetNewDataKeeps
     DEF Background
<1>4. CASE \/ Change \/ OtherEvent \/ Disconnect \/ Connect \/ Expire
           \/ ValidateConnection \/ StateChanged
  BY <1>4, ChangeKeeps, EventKeeps, SessionKeeps, ValidateKeeps, StateChangedKeeps
<1> QED BY <1>1, <1>2, <1>3, <1>4 DEF Next

-----------------------------------------------------------------------------
(* The theorems                                                             *)

\* A settled cache has a watch on the node, whatever the framework announced, and
\* when (cache.go, reset and connectionStateListener; exists.go, pathForeground).
THEOREM AlwaysWatches == Spec => []NotBlind
<1>1. IInv => NotBlind
  <2> SUFFICES ASSUME IInv, Settled PROVE watches > 0
    BY DEF NotBlind
  <2>1. jobs[Job("reset")] = 0 /\ jobs[Job("exists")] = 0
    BY DEF Settled
  <2>2. WatchInv /\ Steady
    BY DEF IInv, Settled, Steady
  <2> QED BY <2>1, <2>2 DEF WatchInv
<1> QED BY <1>1, Initially, Preserved, PTL DEF Spec

\* A settled cache with a connection has read the node's last value (cache.go, reset
\* and processBackgroundResult).
THEOREM ReadsTheLatest == Spec => []LatestWasRead
<1>1. IInv => LatestWasRead
  <2> SUFFICES ASSUME IInv, Settled, online PROVE lastRead = node
    BY DEF LatestWasRead
  <2>1. \A place \in {"reset", "exists", "get"} : ~(jobs[Job(place)] > 0)
    BY DEF Settled
  <2>2. WatchInv /\ Steady /\ ~missed
    BY DEF IInv, MissedInv, Settled, Steady
  <2> QED BY <2>1, <2>2 DEF WatchInv
<1> QED BY <1>1, Initially, Preserved, PTL DEF Spec

\* The types hold, and with them that no goroutine ends that was not started: the
\* numbers of those at each place of the cache's code stay natural (cache.go).
THEOREM TypeCorrect == Spec => []TypeOK
<1>1. IInv => TypeOK
  BY DEF IInv
<1> QED BY <1>1, Initially, Preserved, PTL DEF Spec
=============================================================================
