# A formal model of curator.go

TLA+ modules that model parts of curator.go, a Go client library for ZooKeeper:
what TLC checks of them on small instances, and what TLAPS proves of them for
every value of their constants. File names without a directory are below `src/`.

## The system and its parts

A `CuratorFramework` (`framework.go`) owns a `CuratorZookeeperClient`
(`client.go`), which owns a `connectionState` (`state.go`). The latter keeps one
ZooKeeper connection in a `handleHolder`, replaces it when the session expires or
the ensemble changes, and passes session events on. The framework turns those
events into connection states and gives them to a `connectionStateManager`
(`state.go`), whose goroutine calls the registered listeners. Every operation is a
builder (`create.go`, `data.go`, ...) that runs a call in a retry loop
(`retry.go`), in the foreground or on a goroutine of its own. The recipes build on
all this: a mutex (`recipes/locks.go`), an atomic value (`recipes/atomic.go`), a
cache of one node (`recipes/cache.go`).

| part | source | module | status |
| --- | --- | --- | --- |
| connection state manager | `state.go`, `listener.go` | `ConnectionStateManager`, `StateFeed` | modelled, proved |
| connection state, handle holder | `state.go`, `client.go`, `watcher.go` | `ConnectionState`, `CuratorFramework` | modelled, proved |
| inter-process mutex | `recipes/locks.go` | `InterProcessMutex` | modelled, proved |
| retry loop and policies | `retry.go` | `RetryLoop` | modelled, proved |
| node cache | `recipes/cache.go`, `exists.go`, `data.go`, `framework.go` | `NodeCache` | partly, proved |
| distributed atomic value | `recipes/atomic.go` | `DistributedAtomicValue` | modelled, proved |
| framework | `framework.go`, `event.go`, `builder.go` | `CuratorFramework` | partly, proved |
| operation builders | `create.go`, `delete.go`, ... | `Operations` | partly, proved |
| paths, ensure-path | `paths.go` | `Operations` | partly, proved |
| namespaces | `namespace.go` | `Operations` | partly, proved |
| transactions | `transaction.go` | `Transaction` | modelled, proved |
| tracing, compression, authentication | `trace.go`, ... | | no behaviour to check |
| mocks and examples | `mocks.go`, `examples/` | | not part of the library |

`PROJECT.json` has the same inventory with reasons, the correspondence of
definitions and source lines (`map`), and the hazards of the code with the
properties that would show them.

## The modules

**ConnectionStateManager.** State: the manager's state and
`currentConnectionState`, the channel `events`, the listener container, and one
program counter for each goroutine: the poster that holds `m.lock`, the
dispatcher (`processEvents`), the callers of `BlockUntilConnected`, and `Close`.
`events` holds positions in the history `posted` rather than states, so that
order and repetition can be seen. One action is one operation on the channel, one
locked section of the container, or one callback. A send on a closed channel,
which the code recovers from, ends the post. `ForEach` holds the read lock while
it calls; `AddListener`, `RemoveListener` and `Clear` wait for it.
`ConnectionStates` has the enumeration and `Connected`.

**StateFeed** is the abstract specification: listeners are told a legal story
(one CONNECTED, first; RECONNECTED only after something was suspended, lost or
read-only; no SUSPENDED after LOST), in order, and nothing twice; messages may be
skipped. The refinement mapping is `shown <- dispatcher.ev`.

**ConnectionState.** Handlers of session events and calls of `Start`, `Conn` and
`Close` run on goroutines (`Procs`) that share `helper`, `isConnected`, the
instance index and the channel of background errors without a lock. A step is one
access to shared state or one call of the ZooKeeper library. `helper` is nil, the
factory, or the connection that the cached `zookeeperCache` holds. `frame` has a
call's locals and where `reset` returns to. Events wait in `inflight` and are
taken in any order, since `Watchers.Fire` starts a goroutine for each. `Start` may
find that the ensemble provider's `Start` fails: it returns the error with the
client started and without a helper (`startFailed`, history). The providers of the
repository have a fixed connection string; that another one changes it
(`ChangeConnectionString`) is what `checkState` and `Conn` are written for, and is
external.

**CuratorFramework** composes the framework with the client below it and the
posting half of the manager above it: how a change of the session becomes an
announcement. `link` is the connection of the holder and the state of its session,
which the library changes (`LinkUp`, `LinkReadOnly`, `LinkDown`, `LinkExpires`);
each change is an epoch. `Process` is `connectionState.process`: the event waits in
`checks` for `checkState`, and in `callbacks` for the framework's watcher, which
`Validate` runs. Both are taken in any order, and `MayMiss` is the loop variable
that the goroutines of `process` share: while a `BlockUntilConnectedOrTimedOut` has
its watcher registered, the framework may miss an event. `syncs` are the background
syncs, with one step for each access to what others change (`SyncConn`,
`SyncTimeout`, `SyncGet`, `SyncCall`, `SyncIndex`, `SyncLost`). A sync that finds no
connection calls a method of nil: `panicked`. Coarser than the code: `reset` and
`Close` are one step each, since `ConnectionState` has their steps; dialling
succeeds; whether enough time has passed for a timeout is left open; and callbacks
of the blocked calls, which touch nothing of the framework's, are part of
`BlockReturn`. `disordered` and `synced` are history.

**InterProcessMutex.** The server is a set of nodes, each a sequence number and
the client that owns it. Each client has a `lockPath` and a `lockCount`, and each
goroutine goes through `internalLock`, `attemptLock`, `internalLockLoop` and
`Release` with one action per server call and per access to the count. Calls may
fail with or without effect, sessions expire, the framework closes (the next
request panics). `lost`, `hold` and `calls` are history. `MCMutex` says which
goroutine belongs to which client.

**RetryLoop.** `CallWithRetry` with the four policies; time is counted in small
units, and each attempt takes or sleeps some of it. A loop with a sleeper asks its
policy; the one that `newRetryLoop` makes has none and does not (`Sleepers` has both,
and every property holds for both). The product of the backoff is an `int64`, which
wraps around at `MaxInt` (`Wrapped`).

**Transaction** extends `RetryLoop`: the builders add requests, and `Commit` sends
them in one multi per attempt, which the server does as a whole or not at all
(`Multi`). The answer is that all is done, that an operation is refused, or an
error, with which the multi may have been done as well (`Broken`). A path on the
server is the namespace and the given path: `ForPath` of a result is the former, as
in the code, and `ResultPath` the latter. `before` and `lost` are history.

**NodeCache.** The server has a node (0, or the number of the change that wrote
it) and a number of watches. `jobs` counts the background goroutines by place:
about to reset, to call `CheckExists`, to call `GetData`, to store a value.
`StartAndInitalize` and `Close` are sequences of steps that interleave with them
and with the connection listener. Each change that fires watches starts a
goroutine for each. What the cache hears of the connection is what the framework
makes of the events: an event of a node carries `SyncConnected`, a lost connection
`Disconnected`, an ended session an error, and a connection of its own
(`HasSession`) nothing. The events wait in `pending` and are validated in any order
(`ValidateConnection`), each on its goroutine; a suspension may end in LOST when its
background sync fails. The manager keeps a state (`current`, of which the cache
tells three apart) and queues a change of it for the listeners (`announced`).
`lastRead` and `readFailed` are history. A read that fails is not repeated: a cache
that was shown a connection which had already gone, or that was made on a connected
client and so was shown none, stays blind until the state changes from not connected
to connected again. The properties are about the other caches, and say so.

**DistributedAtomicValue.** The server has one node with a value, a version and
the number of its creation, and a parent that may be missing. Each process runs one
method at a time, one server call per step. `ReplyLost` makes an update and loses
the reply: the retry loop then makes it again, or the method returns the error. Of
the promoted mutex there is the queue of its lock nodes; that `AcquireTimeout`
returns only with the first of them, and why, is what `InterProcessMutex` is about.
A listing that fails (`NotLocked`), a lost reply to the create (`LockReplyLost`) and
a failed delete, whose error the deferred `Release` ignores (`ReleaseFails`), leave a
lock node that nobody removes (`Left`). `read` is what `currentValue` found; `found`,
`applied`, `touched` and `repeated` are history.

**Operations.** The server is a tree: a function from the paths that exist to the
two versions of the node. Goroutines run operations of one namespaced framework:
`Call` starts any of the nine kinds, `Ensure` and `Lock` go through the namespace's
`EnsurePath`, and then there is one action per call to the server (`Create`,
`Delete`, ..., `MakeDirsExists`, `MakeDirsCreate`, `DeleteChildrenList`,
`DeleteChildrenSelf`). `at` has the next step, how far `MakeDirs` has got, and the
nested calls of `DeleteChildren`. `CallFails` and `Retry` are calls that fail with
or without effect; `Retry` runs the procedure of `CallWithRetry` again. `Ensure`
tests `p.helper` and reads it again without a lock, so that it may panic, which
ends the program. `GetData` may fail after the server has answered, in `Decompress`.
`MCOperations` has the paths.

## The runs

Passing runs:

| run | what it checks |
| --- | --- |
| `manager` | `postState` never loses the newest state (`NewestNotLost`), which is dispatched in the end (`NewestDispatched`); `ForEach` sees a stable list; no send on the closed channel of a `BlockUntilConnected`; `ImplementsFeed` |
| `conn` | with handlers and calls one after the other, and a provider whose `Start` may fail: at most one open connection, which the holder knows (`OneConnection`); `isConnected` is true only with one (`ConnectedHasConnection`); `Conn` returns an open one, and nil without an error only after such a failed start (`ConnReturnsOpen`); `Close` closes it (`CloseCloses`); an expired one is replaced (`ExpiredIsReplaced`) |
| `mutex` | with every fault, re-entrance, `Acquire` and `AcquireTimeout`: `MutualExclusion` among holders with a live session; waiters watch distinct nodes (`NoHerd`); the lock is given in order (`Fair`); every call returns, unless a failure left a node in front of its own that nobody removes (`AcquireReturns`) |
| `framework` | a connection that stays up ends up announced if watches fire (`UpIsAnnounced`), one that stays down does not stay announced (`DownIsAnnounced`), a suspension is resolved or found harmless (`SuspensionIsChecked`), a sync lacks its connection only after `Close` (`NoPanicWhileOpen`), and `Close` is final once what was under way is over (`ClosedForGood`) |
| `retry` | a transaction committed in the loop, with lost replies: a failed commit leaves no trace unless a reply was lost (`ErrorMeansUndone`), a successful one that its own effect protects was done once (`DoneOnce`), and any transaction is done whole, at most once for each attempt (`AppliedWhole`) |
| `cache` | a cache that has settled on a connection it was shown has a watch on the node (`NotBlind`) and has read its last value (`LatestWasRead`), and in the end always does (`EventuallyRead`), whatever is announced late, out of order or not at all |
| `operations` | no operation goes ahead of the namespace (`NamespaceEnsured`); a delete that succeeds has removed its node (`DeleteRemoves`); ErrNoNode has a cause (`NoNodeHasCause`); operations end (`OperationsEnd`) |
| `value` | an update that succeeds replaced what was read (`SuccessReplacesPreValue`); `Succeeded()` tells whether the call updated the node (`UpdatedIffSucceeded`); failure has a cause, a missing parent being one (`FailureHasCause`); one initializer (`OneInitializer`); every method returns, unless a failure left a lock node of the promoted mutex (`MethodsReturn`) |

Runs in which TLC violates what a document or comment of the repository says:

| run | what it shows |
| --- | --- |
| `block_timeout` | `BlockUntilConnected` with a timeout can hang: the dispatcher blocks on its unbuffered channel holding the read lock that the deferred `RemoveListener` waits for |
| `conn_leak` | two goroutines that find the factory both dial, and one connection is never closed |
| `mutex_goroutines` | two goroutines that share a mutex: the test of the count and its increment are two steps, and one ends with a lock that the server has given away |
| `cache_deleted` | a node is cached and deleted: `CheckExists` reports a missing node as no error (`exists.go:70`), the error of `GetData` ends the update, and the cache keeps the data, against `recipes/cache.go:78` |

The findings in `PROJECT.json` quote the lines. Further disagreements that the models
show, or show with a small change of a configuration, are listed among the hazards or
only here: `AcquireTimeout`, which goes on when its time is up, against "blocks until
it's available or the given time expires" (`recipes/locks.go:21`); the policy of a retry
loop, which `newRetryLoop` gives no sleeper and `CallWithRetry` therefore never asks
(`retry.go:51-57` and `79`), so that it does not end while the server keeps failing,
against "Retry policy that retries a max number of times" (`retry.go:115`); the policy
with N = 1, which where it is asked (`recipes/locks.go:238`, `recipes/atomic.go`) allows
one call and no retry, against "retries only once" (`retry.go:129`); a `Start` whose
provider fails, after which `Conn` returns nil without an error (`state.go:192`); the
nil helper that `Ensure` may call, and its failure, which is final; a deep delete that
reports ErrNoNode because a child has gone; the event of a successful background
`Create`, whose path keeps the namespace, and of `Sync`, which takes it off twice
(`create.go:53`, `sync.go:31` and `58`: read, not modelled); a lost wake-up of
`BlockUntilConnected`; a closed client that dials when an `Expired` event, or a `Conn`
past its first test, comes late; a background sync that panics after `Close`; a session
that is up and never announced, because `HasSession` announces nothing and only events
of nodes carry `SyncConnected` (`framework.go:361`); a second disconnection while
SUSPENDED, which starts no sync; a LOST that a late sync announces on a connection that
works again; a transaction that may be repeated and is done twice when a reply is lost;
`ForPath` of its results, which keeps the namespace (`transaction.go:117`); the node
that a failed `GetChildren` leaves behind, of a mutex and of an atomic value's; a
`TrySet` whose node has no parent, which fails without an error; a repeated update that
reports failure after it was made; `Initialize`, which creates the node with the
client's default data and ignores its argument (`recipes/atomic.go:198`, against the
comment on line 60).

### Bounds

Every bound is a constant (`Max...`) or the size of a set.

- `manager`: a channel of capacity 1 and three posts, so that it overflows, with a
  listener that comes and goes, a timed waiter and `Close`.
- `conn`: one goroutine, three dials, three events, three calls, so that a client
  whose start failed is closed or starts again, one changed connection string, a
  channel of one error; dials may fail. `conn_leak` has two goroutines.
- `mutex`: two clients with two calls each and all faults. A node that a lost reply or
  a failed delete has left is the third in the queue, so that one client waits behind
  another that waits, whose session may end.
- `framework`: three changes of the session, so that it is made, lost, and found again
  or expired, besides those that `reset` and `Close` cause; at most two events on
  their way when it changes, which is enough for one to overtake the other; a timeout
  resets the connection once; one blocked call, whose watcher is the second of the
  list.
- `retry`: policies for four retries, of which the backoff, with a limit of three,
  allows three, and at most four attempts; a base of 2 and a `MaxInt` of 3, so that a
  product of the backoff wraps around; two operations on two paths, so that they meet
  on a path or not; every node absent or present.
- `cache`: two changes, one lost connection and one event of another watch, which the
  framework may validate before or after the disconnection; a change happens only when
  at most two watches and goroutines exist (`MaxLoad`). Each reset sets two watches
  and each watch resets, so that the load doubles with every change; reads that
  overlap and watches that fire while others are being set occur below the bound.
  `cache_deleted` has the same bounds.
- `operations`: two goroutines, two operations, one failed call; an empty tree, or a
  full one in which a node has two children; a given path and one two levels below it,
  so that `MakeDirs` and `DeleteChildren` go more than one level deep and meet each
  other. The namespace's name is also the first name of the paths.
- `value`: two processes, two calls, so that any two methods overlap, one fault, two
  deletions, so that the node goes and then its parent, which is there at first or is
  not; one optimistic try and two with the mutex, which reaches every branch of both
  loops.

### Fairness

Goroutines that can run do run: weak fairness of each goroutine's steps, and in `conn`
strong fairness of taking an event, since a goroutine of its own waits for each. The
manager's environment (posts, listeners coming and going, `Close`) has none. In
`InterProcessMutex` users release what they hold (`FairSpec`), as the interface asks of
them; a timer of a select fires. In `NodeCache` the library reconnects, which it tries
for ever, and every event's goroutine runs; in `CuratorFramework` nothing of the library
is fair: that watches keep firing is a premise of `UpIsAnnounced`; changes,
disconnections and expiry have no fairness. In `DistributedAtomicValue` faults and
deletions have none, nor do new calls; likewise in `Operations`, where only the steps of
operations under way are fair. `OperationsEnd` holds because the number of operations is
bounded: `DeleteChildren` goes on for as long as others create children. The retry loop
has no fairness and no liveness property: as `newRetryLoop` makes it, it need not end.
Deadlock is not checked: all of these systems may come to rest.

## The proofs

`ConnectionStateManagerProofs` proves, for every queue size, set of listeners and
waiters, and number of posts: `TypeCorrect`, `NewestSafe`, `StableList`,
`SuccessSound`, `NoPanicOnSend`, and `FeedRefinement`: the manager implements
`StateFeed`.

The inductive invariant `IInv` adds to the properties themselves what they need:
positions in the channel grow and lie between the message that the dispatcher took
last and the one posted last (`OrderInv`), without which "newest" and "never
twice" do not survive a drop; `currentConnectionState` is what the last message
said, except that the first RECONNECTED is announced as CONNECTED (`HistoryInv`),
which makes each new message legal; a waiter is registered at most once and only
until it removes itself (`WaiterInv`), which is why its channel is open whenever
it is called; and the dispatcher runs only what it received, over no more than the
registered listeners. The lemmas on `RemoveAt` and `RemoveFirst` say what removal
does to a list of distinct elements. `TypeStep`, `OrderStep`, `NewestStep`,
`HistoryStep`, `DispatchStep`, `WaiterStep`, `ForEachStep` and `SuccessStep` each
prove one part; `NextIInv` puts them together.

`InterProcessMutexProofs` proves, for any number of clients and calls and every set
of faults: `TypeCorrect`; and, if no two goroutines share a mutex (`OneGoroutine`),
`Exclusion`, `FirstComeFirstServed` and `OneWatcher`. The hypothesis is needed:
`mutex_goroutines` violates exclusion without it. The invariant says that a sequence
number names one node (`NodeInv`); that the count is what the goroutine holds, plus a
Release under way (`CountInv`); that the paths it keeps are of its own nodes
(`OwnInv`); that a goroutine which has the lock, or is about to record it, and whose
session lives has the first node (`FirstInv`); and that what it watches was just
before its own node when it looked (`WatchInv`). Exclusion follows because two first
nodes are one. The proof shows that a step of one goroutine leaves the invariant of
every other intact (`UntouchedInv`), since it only removes nodes or adds a last one,
and then treats a goroutine's own steps in groups (`AcquireInv`, `TakeInv`,
`LoopInv`, `ReleaseInv`).

Three more theorems are the safety half of `AcquireReturns`. `NoMissedWakeup`, with all
faults and any number of goroutines: a goroutine counts on a watch only while the node
in front is still there, whatever happens between the listing and the select.
`NothingLeftBehind`: every node belongs to a goroutine that attempts, has or releases
the lock. `QueueMoves`: somebody in front of a goroutine that waits does not wait,
because the goroutine of the first node never does (`FirstMoves`). The last two need one
goroutine for each mutex, and creates, lists and deletes that do not fail
(`CallsSucceed`); watches may fail, waits may time out, sessions end and clients close.
Their invariant says that a goroutine accounts for every node of its client (`MineInv`).
With a failed create or list a node may stay behind, and everybody waits for the end of
its session: the exception of `AcquireReturns`. `NoMissedWakeup` says more than the run,
in which the timer of the select makes up for a watch that was missed.

`CuratorFrameworkProofs` proves, without the bounds on events and resets,
`TypeCorrect`, `SyncHasConnection` and `CloseIsFinal`. The strengthening for the
second, `ConnectionBehind`, says that whatever can lead to a background sync (an
event, a callback, a sync) exists only after a connection was made, and that only
`Close` takes the last connection away; `NoPanicWhileOpen` alone does not say where a
sync came from. `Closed`, of the third, is inductive as it stands.
`SuspensionUnderCheck` says that a suspension which nothing has resolved has a sync, or
the goroutine that is about to start one. `DownIsQuiet` says that a connection which is
down is not announced once the framework has validated what it was told, if it was told
in order and missed nothing; the strengthening `DownInv` follows the event that will
suspend it through the ones that are validated before and after. With fairness the two
are `SuspensionIsChecked` and `DownIsAnnounced`.

`DistributedAtomicValueProofs` proves, for any processes, values and numbers of
tries, faults and deletions, `TypeCorrect`, `ReplacedWhatWasRead`,
`SucceededIsTrue`, `FailureIsJustified` and `InitializedOnce`. The argument is that
the version identifies what the node was for as long as it is not created anew. So
what a process has read is of an earlier life of the node, or of an earlier version,
or is the node (`Seen`), and an update for its version replaces nothing else; every
step of the server keeps `Seen` for all that was read before (`Moves`). `Fits` has
what holds in the middle of a method: a call that has no result yet has updated
nothing, and one that was refused has lost its try to a change of the node or its
parent, or has no parent to create the node under (`Lost`). `MutexLeftOnlyByFaults`:
the holder of the promoted mutex has the first lock node, and until a call fails every
lock node is that of a `TrySet` that waits for the mutex or works with it. It follows
from where the holder is (`HolderWorks`) and from what a lock node says of its process
(`QueueInv`), which holds with failures too.

`TransactionProofs` proves `TypeCorrect`, `FailedLeavesNoTrace`, `NeverInPart` and
`CommittedOnce` of transactions with any operations, policy, number of attempts and lost
replies, and that `Commit` implements the retry loop (`CommitIsALoop`): each of its steps
is one of the loop's or a stutter. Of the policies it proves `BackoffSleeps`: a backoff
whose products fit into an `int64` sleeps between nothing and `maxSleep`. The premise is
needed, since a product that wraps around is negative and passes the test against
`maxSleep`.

`CommittedOnce` states `DoneOnce`. It needs to know what a sequence of operations comes
to: `After` is a recursive function of the number of operations done, and what it
computes is proved by an induction over that number. The library's induction theorems
take an operator, which the provers cannot instantiate; `LeastExists` and `UpTo` make the
same induction from the well-foundedness of the natural numbers, for a set instead.
`NotTwice` then says that a guarded transaction which has been done is refused when it is
repeated, so that the nodes are those from before or those of one run (`OnceInv`).
`NeverInPart` states `AppliedWhole`, by an induction over the attempts: an attempt that
is done adds one whole run to those before it, and any other adds none.

`ConnectionStateProofs` proves, for any number of goroutines, dials, events, calls and
changes of the connection string, `TypeCorrect`, however handlers and calls overlap, and
`NoConnectionLeft`, `ConnectedIsTrue`, `ConnIsOpen`, `CloseLeavesNone` and
`ExpiryNoticed` (an open connection whose session has expired has its event or its
handler on the way), if they do not overlap (`Serial`). The hypothesis is needed: two
goroutines that overlap leave a connection open (`conn_leak`), and `Conn` may then return
nil without an error. It is a hypothesis on behaviours, not on the number of goroutines:
each event has its own, and what is asked is that one ends before the next begins. The
properties speak of the moments between calls, so the invariant says what holds in the
middle of one: what the locals may be (`ControlInv`); which connections are open, for
instance that none is while `closeAndReset` has yet to make the factory, and that the
one just dialled is the only one (`OpenInv`); and that `isConnected` is never said of a factory
(`ConnectedInv`). The last is why `checkState`, which takes a factory for a changed
connection string, makes up for a late `HasSession` whose dial has failed.

`NodeCacheProofs` proves, for any number of changes, lost connections, ended sessions and
events, and in whatever order these are validated, `TypeCorrect`, `AlwaysWatches` and
`ReadsTheLatest`. A cache settles only when every goroutine of its own has ended, so the
invariant says what stands for the watch and for the read until then: a reset or a
`CheckExists` on its way, and also a `GetData` (`WatchInv`); and that a change which the
client has not been told of has a watch to fire (`MissedInv`). Nothing is assumed of the
announcements. That the cache was shown a connection starts a read, which succeeds or is
remembered (`readFailed`); from then on the watches carry the argument, and those that
an ended session takes away fire.

`OperationsProofs` proves, for any goroutines, namespace, paths and first nodes, and any
number of operations and faults, `NamespaceFirst`, `DeletedForSure` and
`NoNodeForAReason`. Nobody deletes the namespace once it is there, since the
operations work on paths below it; who holds the lock of `EnsurePath` is making its
directories, and who is past the lock has found it made or the one attempt failed
(`EnsureInv`, `LockInv`). For ErrNoNode, every directory that `MakeDirs` has got past,
and every node that `DeleteChildren` has still to delete, is there or is known to have
been deleted since (`DirsInv`, `StackInv`); so are the nodes that existed when the
operation began (`AbsentInv`). A step of one goroutine keeps all this for the others,
because deletions are noted for every operation they concern. The lemmas on paths
(`FirstNames`, `FirstOfFirst`, `ParentOf`, ...) say what `SubSeq` does to a path.
Nothing in the argument depends on the depth of a path or on how many children a node
has, which the run keeps small. `TypeCorrect` says how `DeleteChildren` moves: each
nested call is for a child of the node before, from the operation's own node on;
`GoodPlace` adds that the children a call has left are its own. Two more theorems are
about the tree and the lock: no step deletes, creates or changes a node that is not its
operation's own, one below it, above it or of the namespace, as its options allow
(`StaysWithinItsPath`); and the lock of `EnsurePath` is held only by a goroutine that is
in the middle of `MakeDirs` (`LockNeverLeft`).

The proofs assume the named `ASSUME` of each module and nothing else: the bounds are
natural numbers, paths are sequences of names, a goroutine belongs to a client, what
stands for "nobody" is not a member of the set it stands in, and the nodes of a tree
have their parents. `TypeOK` is proved of every component. The inductive invariants of
`ConnectionState`, `NodeCache` and `Operations` were also checked by TLC on the instances
of their runs, and so were `UnderCheck`, `DownInv`, `QueueInv`,
`OnceInv`, `HolderWorks`, `LockIsInUse`, `OwnNodes` and `GoodPlace`.

Every safety property of a passing run is proved. The liveness properties are only
model-checked, since the prover has neither fairness nor ENABLED. What each of them needs
of the states, apart from fairness, is proved where the table says so:

| only model-checked | proved about it |
| --- | --- |
| `NewestDispatched` | `NewestSafe` |
| `ExpiredIsReplaced` | `ExpiryNoticed` |
| `AcquireReturns` | `NoMissedWakeup`, `NothingLeftBehind`, `QueueMoves` |
| `EventuallyRead` | `AlwaysWatches`, `ReadsTheLatest` |
| `MethodsReturn` | `MutexLeftOnlyByFaults` |
| `OperationsEnd` | `LockNeverLeft` |
| `DownIsAnnounced` | `DownIsQuiet` |
| `SuspensionIsChecked` | `SuspensionUnderCheck` |
| `UpIsAnnounced` | nothing: its premise, that watches keep firing, is about the future |

## Not modelled

Within the modules: the order of lock nodes by name (the model orders them by number);
how a `NodeCache` tells its listeners; the end of a session in
`DistributedAtomicValue`, which would remove lock nodes; data, `Compress`, stats,
watches, sequential nodes and the events of background operations in `Operations`, and
its panic when the framework is not started, which `InterProcessMutex` has; payloads,
modes and stats in `Transaction`; a second `Commit` of a transaction, whose
operations are never cleared; and a string prefix of the namespace that ends within
a name. In `CuratorFramework`: the listeners of the application (`CuratorListener`,
`UnhandledErrorListener`), a failing dial and a changed connection string, which
`ConnectionState` has, and the events `Connecting` and `Connected`, which the
framework ignores and which make of `isConnected` what `Disconnected` makes of it.

Whole parts: the builder of the framework and the interfaces (`builder.go`, `api.go`)
assign fields; the facades of namespaces forward every call and only cache
themselves; tracing, compression and authentication have no state that others see;
`ExcludingLast`, `ValidatePath`, `JoinPath` and `SplitPath` are string functions
without state, whose results the models take as given. Mocks and examples are not
part of the library. `PathChildrenCache` and lock revocation are declared in the
source and not implemented. The ZooKeeper server and the Go client library are
modelled as the code uses them.
