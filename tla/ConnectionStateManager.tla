----------------------- MODULE ConnectionStateManager -----------------------
(***************************************************************************)
(* connectionStateManager (state.go): the part of the framework that turns  *)
(* connection changes into messages for the registered listeners.           *)
(*                                                                          *)
(* Goroutines: the callers of AddStateChange / SetToSuspended (serialised   *)
(* by m.lock, so one `poster' at a time), the dispatcher started by         *)
(* Start (processEvents), the callers of BlockUntilConnected, the callers   *)
(* of AddListener / RemoveListener, and one caller of Close.                *)
(*                                                                          *)
(* The channel m.events holds positions of the history `posted' instead of  *)
(* the states themselves: the message at position n is posted[n].           *)
(***************************************************************************)
EXTENDS ConnectionStates, SequencesExt

CONSTANTS
  QueueSize,      \* capacity of m.events (STATE_QUEUE_SIZE, 25, in the code)
  Listeners,      \* ConnectionStateListeners of the application
  Waiters,        \* goroutines calling BlockUntilConnected, once each
  TimedWaiters,   \* those that pass maxWaitTime > 0
  MaxPosts,       \* bound: state changes made
  MaxListeners    \* bound: AddListener calls in effect at a time

ASSUME ManagerAssumption ==
  /\ QueueSize \in Nat \ {0}
  /\ MaxPosts \in Nat
  /\ Listeners \cap Waiters = {}
  /\ TimedWaiters \subseteq Waiters

\* What validateConnection and doSyncForSuspendedConnection ever pass to
\* AddStateChange; SUSPENDED goes through SetToSuspended.
Changes == {LOST, RECONNECTED, READ_ONLY}

VARIABLES
  state,                      \* LATENT, STARTED or STOPPED
  currentConnectionState,
  initialConnectMessageSent,
  posted,                     \* history: every state given to postState
  events,                     \* m.events: positions of `posted'
  eventsClosed,
  poster,                     \* postState of the goroutine that holds m.lock
  dispatcher,                 \* processEvents
  listeners,                  \* the ListenerContainer
  delivered,                  \* last position each listener was called with
  waiter,                     \* BlockUntilConnected, per goroutine
  result,                     \* what it returned
  closer                      \* Close

vars == <<state, currentConnectionState, initialConnectMessageSent, posted,
          events, eventsClosed, poster, dispatcher, listeners, delivered,
          waiter, result, closer>>

managerVars  == <<state, currentConnectionState, initialConnectMessageSent>>
channelVars  == <<posted, events, eventsClosed>>
waiterVars   == <<waiter, result>>

TypeOK ==
  /\ state \in {"LATENT", "STARTED", "STOPPED"}
  /\ currentConnectionState \in ConnectionState
  /\ initialConnectMessageSent \in BOOLEAN
  /\ posted \in Seq(ConnectionState)
  /\ Len(posted) <= MaxPosts
  /\ events \in Seq(Nat)
  /\ Len(events) <= QueueSize
  /\ eventsClosed \in BOOLEAN
  /\ poster \in {"none", "send", "drop"}
  /\ dispatcher \in [pc : {"none", "receive", "rlock", "foreach", "exit"},
                     ev : Nat, todo : Seq(Listeners \cup Waiters)]
  /\ listeners \in Seq(Listeners \cup Waiters)
  /\ delivered \in [Listeners -> Nat]
  /\ waiter \in [Waiters -> {"idle", "add", "wait", "remove", "close",
                             "returned"}]
  /\ result \in [Waiters -> {"none", "nil", "ErrTimeout"}]
  /\ closer \in {"idle", "close", "clear", "done"}

Init ==
  /\ state = "LATENT"
  /\ currentConnectionState = UNKNOWN
  /\ initialConnectMessageSent = FALSE
  /\ posted = <<>>
  /\ events = <<>>
  /\ eventsClosed = FALSE
  /\ poster = "none"
  /\ dispatcher = [pc |-> "none", ev |-> 0, todo |-> <<>>]
  /\ listeners = <<>>
  /\ delivered = [l \in Listeners |-> 0]
  /\ waiter = [w \in Waiters |-> "idle"]
  /\ result = [w \in Waiters |-> "none"]
  /\ closer = "idle"

-----------------------------------------------------------------------------
(* Start.  The framework starts the manager before the client, so nothing   *)
(* can post between the change of state and the creation of the channel.    *)

Start ==
  /\ state = "LATENT"
  /\ state' = "STARTED"
  /\ dispatcher' = [dispatcher EXCEPT !.pc = "receive"]
  /\ UNCHANGED <<currentConnectionState, initialConnectMessageSent,
                 channelVars, poster, listeners, delivered, waiterVars, closer>>

-----------------------------------------------------------------------------
(* Posting.  m.lock is held from the first step to the end of postState;    *)
(* Close and the dispatcher do not take it.  The message on its way is the  *)
(* last one of `posted'.                                                    *)

\* Mutant of SetToSuspended: a lost connection can be suspended.
SetToSuspendedWhenLost ==
  /\ poster = "none"
  /\ Len(posted) < MaxPosts
  /\ state = "STARTED"
  /\ currentConnectionState # SUSPENDED
  /\ currentConnectionState' = SUSPENDED
  /\ posted' = Append(posted, SUSPENDED)
  /\ poster' = "send"
  /\ UNCHANGED <<state, initialConnectMessageSent, events, eventsClosed,
                 dispatcher, listeners, delivered, waiterVars, closer>>

SetToSuspended ==
  /\ poster = "none"
  /\ Len(posted) < MaxPosts
  /\ state = "STARTED"
  /\ currentConnectionState \notin {LOST, SUSPENDED}
  /\ currentConnectionState' = SUSPENDED
  /\ posted' = Append(posted, SUSPENDED)
  /\ poster' = "send"
  /\ UNCHANGED <<state, initialConnectMessageSent, events, eventsClosed,
                 dispatcher, listeners, delivered, waiterVars, closer>>

\* The first message that tells of a connection is CONNECTED, whatever the
\* new state is called (the switch and the CompareAndSwap).
FirstConnect(s) ==
  s \notin {LOST, SUSPENDED, READ_ONLY} /\ ~initialConnectMessageSent

AddStateChange(s) ==
  /\ poster = "none"
  /\ Len(posted) < MaxPosts
  /\ state = "STARTED"
  /\ currentConnectionState # s
  /\ currentConnectionState' = s
  /\ initialConnectMessageSent' = (initialConnectMessageSent \/ FirstConnect(s))
  /\ posted' = Append(posted, IF FirstConnect(s) THEN CONNECTED ELSE s)
  /\ poster' = "send"
  /\ UNCHANGED <<state, events, eventsClosed, dispatcher, listeners, delivered,
                 waiterVars, closer>>

\* postState, first select: the send succeeds, or the channel is full, or it
\* is closed and the panic is recovered.
PostSend ==
  /\ poster = "send"
  /\ \/ /\ ~eventsClosed
        /\ Len(events) < QueueSize
        /\ events' = Append(events, Len(posted))
        /\ poster' = "none"
     \/ /\ ~eventsClosed
        /\ Len(events) = QueueSize
        /\ poster' = "drop"
        /\ UNCHANGED events
     \/ /\ eventsClosed
        /\ poster' = "none"
        /\ UNCHANGED events
  /\ UNCHANGED <<managerVars, posted, eventsClosed, dispatcher, listeners,
                 delivered, waiterVars, closer>>

\* Mutant of PostDrop: postState returns after dropping, without a new send.
PostDropAndReturn ==
  /\ poster = "drop"
  /\ events' = IF events = <<>> THEN events ELSE Tail(events)
  /\ poster' = "none"
  /\ UNCHANGED <<managerVars, posted, eventsClosed, dispatcher, listeners,
                 delivered, waiterVars, closer>>

\* postState, second select: take the oldest message off the channel, whether
\* or not the dispatcher has made room in the meantime.
PostDrop ==
  /\ poster = "drop"
  /\ \/ /\ events # <<>>
        /\ events' = Tail(events)
        /\ poster' = "send"
     \/ /\ events = <<>>
        /\ poster' = IF eventsClosed THEN "none" ELSE "send"
        /\ UNCHANGED events
  /\ UNCHANGED <<managerVars, posted, eventsClosed, dispatcher, listeners,
                 delivered, waiterVars, closer>>

-----------------------------------------------------------------------------
(* The dispatcher.  ForEach holds the container's read lock from RLock to   *)
(* the last callback: `foreach' means it is held.                           *)

ReadLocked == dispatcher.pc = "foreach"

\* Mutant of Receive: an empty channel is taken for a closed one.
ReceiveOrExit ==
  /\ dispatcher.pc = "receive"
  /\ \/ /\ events # <<>>
        /\ dispatcher' = [dispatcher EXCEPT !.pc = "rlock", !.ev = Head(events)]
        /\ events' = Tail(events)
     \/ /\ events = <<>>
        /\ dispatcher' = [dispatcher EXCEPT !.pc = "exit"]
        /\ UNCHANGED events
  /\ UNCHANGED <<managerVars, posted, eventsClosed, poster, listeners,
                 delivered, waiterVars, closer>>

Receive ==
  /\ dispatcher.pc = "receive"
  /\ \/ /\ events # <<>>
        /\ dispatcher' = [dispatcher EXCEPT !.pc = "rlock", !.ev = Head(events)]
        /\ events' = Tail(events)
     \/ /\ events = <<>>
        /\ eventsClosed
        /\ dispatcher' = [dispatcher EXCEPT !.pc = "exit"]
        /\ UNCHANGED events
  /\ UNCHANGED <<managerVars, posted, eventsClosed, poster, listeners,
                 delivered, waiterVars, closer>>

RLock ==
  /\ dispatcher.pc = "rlock"
  /\ dispatcher' = [dispatcher EXCEPT !.pc = "foreach", !.todo = listeners]
  /\ UNCHANGED <<managerVars, channelVars, poster, listeners, delivered,
                 waiterVars, closer>>

Callee == Head(dispatcher.todo)

CallbackReturns == dispatcher' = [dispatcher EXCEPT !.todo = Tail(@)]

\* StateChanged of an application listener.
CallListener ==
  /\ ReadLocked
  /\ dispatcher.todo # <<>>
  /\ Callee \in Listeners
  /\ delivered' = [delivered EXCEPT ![Callee] = dispatcher.ev]
  /\ CallbackReturns
  /\ UNCHANGED <<managerVars, channelVars, poster, listeners, waiterVars, closer>>

\* The listener of BlockUntilConnected ignores a state that is not connected
\* and otherwise hands it to its goroutine over the unbuffered channel c: the
\* callback cannot return before that goroutine is in its select.
SendsTo(w) == /\ ReadLocked
              /\ dispatcher.todo # <<>>
              /\ Callee = w
              /\ Connected(posted[dispatcher.ev])

CallWaiter(w) ==
  /\ ReadLocked
  /\ dispatcher.todo # <<>>
  /\ Callee = w
  /\ \/ /\ ~Connected(posted[dispatcher.ev])
        /\ UNCHANGED waiterVars
     \/ /\ Connected(posted[dispatcher.ev])
        /\ waiter[w] = "wait"
        /\ waiter' = [waiter EXCEPT ![w] = "remove"]
        /\ result' = [result EXCEPT ![w] = "nil"]
  /\ CallbackReturns
  /\ UNCHANGED <<managerVars, channelVars, poster, listeners, delivered, closer>>

RUnlock ==
  /\ ReadLocked
  /\ dispatcher.todo = <<>>
  /\ dispatcher' = [dispatcher EXCEPT !.pc = "receive"]
  /\ UNCHANGED <<managerVars, channelVars, poster, listeners, delivered,
                 waiterVars, closer>>

-----------------------------------------------------------------------------
(* The listener container.  Add, Remove and Clear take the write lock for   *)
(* one assignment, so each is one step that waits for the read lock.        *)

AddListener(l) ==
  /\ ~ReadLocked
  /\ Len(listeners) < MaxListeners
  /\ listeners' = Append(listeners, l)
  /\ UNCHANGED <<managerVars, channelVars, poster, dispatcher, delivered,
                 waiterVars, closer>>

RemoveListener(l) ==
  /\ ~ReadLocked
  /\ listeners' = RemoveFirst(listeners, l)
  /\ UNCHANGED <<managerVars, channelVars, poster, dispatcher, delivered,
                 waiterVars, closer>>

-----------------------------------------------------------------------------
(* BlockUntilConnected.  It reads currentConnectionState without m.lock,    *)
(* registers a listener, waits, and on return runs its two deferred calls:  *)
(* RemoveListener, then close(c).                                           *)

WaiterCheck(w) ==
  /\ waiter[w] = "idle"
  /\ \/ /\ Connected(currentConnectionState)
        /\ waiter' = [waiter EXCEPT ![w] = "returned"]
        /\ result' = [result EXCEPT ![w] = "nil"]
     \/ /\ ~Connected(currentConnectionState)
        /\ waiter' = [waiter EXCEPT ![w] = "add"]
        /\ UNCHANGED result
  /\ UNCHANGED <<managerVars, channelVars, poster, dispatcher, listeners,
                 delivered, closer>>

\* Mutant of WaiterAdd: Add does not take the write lock.
WaiterAddUnlocked(w) ==
  /\ waiter[w] = "add"
  /\ listeners' = Append(listeners, w)
  /\ waiter' = [waiter EXCEPT ![w] = "wait"]
  /\ UNCHANGED <<managerVars, channelVars, poster, dispatcher, delivered,
                 result, closer>>

WaiterAdd(w) ==
  /\ waiter[w] = "add"
  /\ ~ReadLocked
  /\ listeners' = Append(listeners, w)
  /\ waiter' = [waiter EXCEPT ![w] = "wait"]
  /\ UNCHANGED <<managerVars, channelVars, poster, dispatcher, delivered,
                 result, closer>>

WaiterTimeout(w) ==
  /\ w \in TimedWaiters
  /\ waiter[w] = "wait"
  /\ waiter' = [waiter EXCEPT ![w] = "remove"]
  /\ result' = [result EXCEPT ![w] = "ErrTimeout"]
  /\ UNCHANGED <<managerVars, channelVars, poster, dispatcher, listeners,
                 delivered, closer>>

\* Mutant of WaiterRemove: Remove does not take the write lock.
WaiterRemoveUnlocked(w) ==
  /\ waiter[w] = "remove"
  /\ listeners' = RemoveFirst(listeners, w)
  /\ waiter' = [waiter EXCEPT ![w] = "close"]
  /\ UNCHANGED <<managerVars, channelVars, poster, dispatcher, delivered,
                 result, closer>>

WaiterRemove(w) ==
  /\ waiter[w] = "remove"
  /\ ~ReadLocked
  /\ listeners' = RemoveFirst(listeners, w)
  /\ waiter' = [waiter EXCEPT ![w] = "close"]
  /\ UNCHANGED <<managerVars, channelVars, poster, dispatcher, delivered,
                 result, closer>>

WaiterClose(w) ==
  /\ waiter[w] = "close"
  /\ waiter' = [waiter EXCEPT ![w] = "returned"]
  /\ UNCHANGED <<managerVars, channelVars, poster, dispatcher, listeners,
                 delivered, result, closer>>

-----------------------------------------------------------------------------
(* Close: the CompareAndSwap lets one caller through.                       *)

Close ==
  /\ closer = "idle"
  /\ state = "STARTED"
  /\ state' = "STOPPED"
  /\ closer' = "close"
  /\ UNCHANGED <<currentConnectionState, initialConnectMessageSent,
                 channelVars, poster, dispatcher, listeners, delivered, waiterVars>>

CloseEvents ==
  /\ closer = "close"
  /\ eventsClosed' = TRUE
  /\ closer' = "clear"
  /\ UNCHANGED <<managerVars, posted, events, poster, dispatcher, listeners,
                 delivered, waiterVars>>

CloseClear ==
  /\ closer = "clear"
  /\ ~ReadLocked
  /\ listeners' = <<>>
  /\ closer' = "done"
  /\ UNCHANGED <<managerVars, channelVars, poster, dispatcher, delivered,
                 waiterVars>>

-----------------------------------------------------------------------------
Post     == PostSend \/ PostDrop
Dispatch == Receive \/ RLock \/ CallListener \/ RUnlock
            \/ \E w \in Waiters : CallWaiter(w)
Block(w) == WaiterCheck(w) \/ WaiterAdd(w) \/ WaiterTimeout(w)
            \/ WaiterRemove(w) \/ WaiterClose(w)

Next ==
  \/ Start
  \/ SetToSuspended
  \/ \E s \in Changes : AddStateChange(s)
  \/ Post
  \/ Dispatch
  \/ \E l \in Listeners : AddListener(l) \/ RemoveListener(l)
  \/ \E w \in Waiters : Block(w)
  \/ Close \/ CloseEvents \/ CloseClear

Spec == Init /\ [][Next]_vars

\* The Go scheduler runs every goroutine that can run; a timer that was set
\* fires.  Nothing makes the application call in, or the connection change.
Fairness ==
  /\ WF_vars(Post)
  /\ WF_vars(Dispatch)
  /\ \A w \in Waiters : WF_vars(waiter[w] # "idle" /\ Block(w))
  /\ WF_vars(CloseEvents \/ CloseClear)

FairSpec == Spec /\ Fairness

-----------------------------------------------------------------------------
(* Properties.                                                              *)

Feed == INSTANCE StateFeed WITH shown <- dispatcher.ev

\* The manager implements the feed of module StateFeed: the states handed to
\* postState tell a legal story (one CONNECTED, first; no RECONNECTED unless
\* something was suspended, lost or read-only; never SUSPENDED after LOST),
\* and processEvents shows them in order and never twice, although postState
\* drops messages and races with the dispatcher and with Close.
ImplementsFeed == Feed!Spec

Newest == IF events = <<>> THEN dispatcher.ev ELSE events[Len(events)]

\* Dropping never loses the newest state: when postState has returned and the
\* channel is open, the last state posted is the last one in the channel, or
\* the one processEvents took last if the channel is empty.
NewestNotLost ==
  poster = "none" /\ ~eventsClosed => Newest = Len(posted)

\* A callback is never run for a listener that has been removed, and none is
\* skipped or run twice: while ForEach runs, what it has left to call is a
\* suffix of the registered listeners, whatever RemoveListener and Clear of
\* other goroutines try (they wait for the read lock).
ForEachSeesStableList ==
  ReadLocked =>
    dispatcher.todo = SubSeq(listeners,
                             Len(listeners) - Len(dispatcher.todo) + 1,
                             Len(listeners))

\* The callback of BlockUntilConnected never sends on a closed channel, which
\* would panic the dispatcher: RemoveListener, which waits for ForEach, runs
\* before close(c).
NoSendOnClosedChannel ==
  \A w \in Waiters : SendsTo(w) => waiter[w] # "returned"

\* BlockUntilConnected returns nil only if some connection was announced:
\* a connected state has been posted.
SuccessMeansConnected ==
  \A w \in Waiters : result[w] = "nil" =>
    \E i \in 1 .. Len(posted) : Connected(posted[i])

\* The dispatcher sends to a goroutine whose select is over and which waits for
\* the read lock that the dispatcher holds.
Hung == \E w \in Waiters : SendsTo(w) /\ waiter[w] = "remove"

\* Every posted state reaches processEvents, unless a newer one replaces it or
\* the manager is closed; the one thing that keeps a state from the listeners
\* is a BlockUntilConnected that timed out under the dispatcher's callback.
NewestDispatched ==
  \A n \in 1 .. MaxPosts :
    Len(posted) = n ~>
      (dispatcher.ev >= n \/ Len(posted) > n \/ state = "STOPPED" \/ Hung)

\* BlockUntilConnected with a maximum wait time returns ("Block until a
\* connection to ZooKeeper is available or the maxWaitTime has been exceeded",
\* framework.go:93).
TimedWaiterReturns ==
  \A w \in TimedWaiters : waiter[w] # "idle" ~> waiter[w] = "returned"
=============================================================================
