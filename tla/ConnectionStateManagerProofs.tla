-------------------- MODULE ConnectionStateManagerProofs --------------------
(***************************************************************************)
(* Proofs about ConnectionStateManager, for any queue size, any sets of     *)
(* listeners and waiters and any number of state changes: the inductive     *)
(* invariant, the facts about sequences it needs, and its parts, step by    *)
(* step.                                                                    *)
(***************************************************************************)
EXTENDS ConnectionStateManager, SequenceTheorems, WellFoundedInduction, TLAPS

Occurs(s, y) == \E i \in 1 .. Len(s) : s[i] = y

AtMostOnce(s, y) ==
  \A i, j \in 1 .. Len(s) : s[i] = y /\ s[j] = y => i = j

-----------------------------------------------------------------------------
(* The inductive invariant, one part per piece of the argument.             *)

\* Positions in the channel grow and lie between what the dispatcher took
\* last and what was posted last; a message being sent is newer than all.
OrderInv ==
  /\ dispatcher.ev <= Len(posted)
  /\ \A i \in 1 .. Len(events) :
       dispatcher.ev < events[i] /\ events[i] <= Len(posted)
  /\ \A i, j \in 1 .. Len(events) : i < j => events[i] < events[j]
  /\ poster # "none" =>
       /\ dispatcher.ev < Len(posted)
       /\ \A i \in 1 .. Len(events) : events[i] < Len(posted)

\* currentConnectionState is what the last message says, except that the
\* first RECONNECTED is announced as CONNECTED.
HistoryInv ==
  /\ initialConnectMessageSent <=> Occurs(posted, CONNECTED)
  /\ posted = <<>> => currentConnectionState = UNKNOWN
  /\ posted # <<>> =>
       \/ /\ currentConnectionState \in {SUSPENDED, LOST, READ_ONLY, RECONNECTED}
          /\ posted[Len(posted)] = currentConnectionState
       \/ /\ currentConnectionState = RECONNECTED
          /\ posted[Len(posted)] = CONNECTED

\* A waiter is registered at most once, and only until it runs RemoveListener.
WaiterInv ==
  \A w \in Waiters :
    /\ AtMostOnce(listeners, w)
    /\ Occurs(listeners, w) => waiter[w] \in {"wait", "remove"}

\* The dispatcher runs only messages it has received.
DispatchInv ==
  dispatcher.pc \in {"rlock", "foreach"} => dispatcher.ev \in 1 .. Len(posted)

\* ForEach has no more to call than there are listeners.
TodoInv ==
  ReadLocked => Len(dispatcher.todo) <= Len(listeners)

IInv ==
  /\ TypeOK
  /\ OrderInv
  /\ HistoryInv
  /\ WaiterInv
  /\ DispatchInv
  /\ TodoInv
  /\ NewestNotLost
  /\ ForEachSeesStableList
  /\ SuccessMeansConnected

-----------------------------------------------------------------------------
(* Facts about sequences.                                                   *)

\* A non-empty set of natural numbers contains its minimum.
LEMMA MinExists ==
  ASSUME NEW T, T \subseteq Nat, T # {}
  PROVE  Min(T) \in T /\ \A y \in T : Min(T) <= y
<1>1. PICK x \in T : \A y \in T : ~ (<<y, x>> \in OpToRel(<, Nat))
  BY Zenon, NatLessThanWellFounded, WFMin
<1>2. \A a, b \in Nat : <<a, b>> \in OpToRel(<, Nat) <=> a < b
  BY DEF OpToRel
<1>3. \A y \in T : ~ (y < x)
  BY <1>1, <1>2, Zenon
<1>4. \A y \in T : x <= y
  BY <1>3
<1> QED
  BY Zenon, <1>4 DEF Min

\* Remove of the listener container takes out the first occurrence, or nothing.
LEMMA RemoveFirstCases ==
  ASSUME NEW S, NEW s \in Seq(S), NEW x
  PROVE  \/ RemoveFirst(s, x) = s /\ ~ Occurs(s, x)
         \/ \E k \in 1 .. Len(s) : s[k] = x /\ RemoveFirst(s, x) = RemoveAt(s, k)
<1>1. CASE ~ Occurs(s, x)
  BY <1>1 DEF RemoveFirst, Occurs
<1>2. CASE Occurs(s, x)
  <2> DEFINE I == {i \in 1 .. Len(s) : s[i] = x}
  <2>1. I # {} /\ I \subseteq Nat
    BY <1>2 DEF Occurs
  <2>2. Min(I) \in I
    BY Zenon, <2>1, MinExists
  <2> QED
    BY Zenon, <1>2, <2>2, <2>1 DEF RemoveFirst, SelectInSeq, Occurs
<1> QED
  BY <1>1, <1>2

\* Taking out position k shifts what comes after it by one.
LEMMA RemoveAtProperties ==
  ASSUME NEW S, NEW s \in Seq(S), NEW k \in 1 .. Len(s)
  PROVE  /\ RemoveAt(s, k) \in Seq(S)
         /\ Len(RemoveAt(s, k)) = Len(s) - 1
         /\ \A i \in 1 .. Len(s) - 1 :
              RemoveAt(s, k)[i] = IF i < k THEN s[i] ELSE s[i + 1]
<1> DEFINE a == SubSeq(s, 1, k - 1)
           b == SubSeq(s, k + 1, Len(s))
<1>1. a \in Seq(S) /\ Len(a) = k - 1 /\ \A i \in 1 .. k - 1 : a[i] = s[i]
  OBVIOUS
<1>2. /\ b \in Seq(S) /\ Len(b) = Len(s) - k
      /\ \A i \in 1 .. Len(s) - k : b[i] = s[k + i]
  OBVIOUS
<1>3. /\ a \o b \in Seq(S)
      /\ Len(a \o b) = Len(a) + Len(b)
      /\ \A i \in 1 .. Len(a) + Len(b) :
           (a \o b)[i] = IF i <= Len(a) THEN a[i] ELSE b[i - Len(a)]
  BY ZenonT(30), <1>1, <1>2, ConcatProperties
<1>4. RemoveAt(s, k) = a \o b
  BY DEF RemoveAt
<1> HIDE DEF a, b
<1>5. ASSUME NEW i \in 1 .. Len(s) - 1
      PROVE  RemoveAt(s, k)[i] = IF i < k THEN s[i] ELSE s[i + 1]
  <2>1. CASE i < k
    BY <2>1, <1>1, <1>2, <1>3, <1>4
  <2>2. CASE i >= k
    <3> DEFINE c == a \o b
    <3>4. Len(a) \in Nat /\ Len(b) \in Nat
      BY <1>1, <1>2
    <3>0. \A j \in 1 .. Len(a) + Len(b) : j > Len(a) => c[j] = b[j - Len(a)]
      BY <1>3, <3>4
    <3>3. RemoveAt(s, k) = c
      BY <1>4
    <3> HIDE DEF c
    <3>1. c[i] = b[i - (k - 1)]
      BY <2>2, <1>1, <1>2, <3>0
    <3>2. b[i - (k - 1)] = s[i + 1]
      BY <2>2, <1>2
    <3> QED
      BY <2>2, <3>1, <3>2, <3>3
  <2> QED
    BY <2>1, <2>2
<1>6. Len(a \o b) = Len(s) - 1
  BY <1>1, <1>2, <1>3
<1> QED
  BY <1>3, <1>4, <1>5, <1>6, Zenon

\* What removing x leaves: no new elements, still no duplicates, and no x if
\* it was there at most once.
LEMMA RemoveFirstProperties ==
  ASSUME NEW S, NEW s \in Seq(S), NEW x
  PROVE  /\ RemoveFirst(s, x) \in Seq(S)
         /\ \A y : Occurs(RemoveFirst(s, x), y) => Occurs(s, y)
         /\ \A y : AtMostOnce(s, y) => AtMostOnce(RemoveFirst(s, x), y)
         /\ AtMostOnce(s, x) => ~ Occurs(RemoveFirst(s, x), x)
<1>1. CASE RemoveFirst(s, x) = s /\ ~ Occurs(s, x)
  BY <1>1
<1>2. ASSUME NEW k \in 1 .. Len(s), s[k] = x, RemoveFirst(s, x) = RemoveAt(s, k)
      PROVE  /\ RemoveFirst(s, x) \in Seq(S)
             /\ \A y : Occurs(RemoveFirst(s, x), y) => Occurs(s, y)
             /\ \A y : AtMostOnce(s, y) => AtMostOnce(RemoveFirst(s, x), y)
             /\ AtMostOnce(s, x) => ~ Occurs(RemoveFirst(s, x), x)
  <2> DEFINE r == RemoveAt(s, k)
  <2>1. /\ r \in Seq(S)
        /\ Len(r) = Len(s) - 1
        /\ \A i \in 1 .. Len(s) - 1 : r[i] = IF i < k THEN s[i] ELSE s[i + 1]
    BY RemoveAtProperties
  <2> HIDE DEF r
  <2>2. \A y : Occurs(r, y) => Occurs(s, y)
    BY <2>1 DEF Occurs
  <2>3. ASSUME NEW y, AtMostOnce(s, y),
               NEW i \in 1 .. Len(r), NEW j \in 1 .. Len(r), r[i] = y, r[j] = y
        PROVE  i = j
    <3> DEFINE old(n) == IF n < k THEN n ELSE n + 1
    <3>1. /\ old(i) \in 1 .. Len(s) /\ s[old(i)] = y
          /\ old(j) \in 1 .. Len(s) /\ s[old(j)] = y
      BY <2>1, <2>3
    <3>2. old(i) = old(j)
      BY Zenon, <3>1, <2>3 DEF AtMostOnce
    <3> QED
      BY <3>2
  <2>4. AtMostOnce(s, x) => ~ Occurs(r, x)
    BY SMTT(30), <2>1, <1>2 DEF AtMostOnce, Occurs
  <2> QED
    BY <1>2, <2>1, <2>2, <2>3, <2>4 DEF r, AtMostOnce
<1> QED
  BY <1>1, <1>2, RemoveFirstCases

-----------------------------------------------------------------------------
(* The steps.                                                               *)

\* Every step keeps the types and the bounds of TypeOK.
LEMMA TypeStep == TypeOK /\ [Next]_vars => TypeOK'
<1> SUFFICES ASSUME TypeOK, [Next]_vars
             PROVE  TypeOK'
  OBVIOUS
<1> USE ManagerAssumption
<1> USE DEF TypeOK, ConnectionState, UNKNOWN, CONNECTED, SUSPENDED, RECONNECTED,
            LOST, READ_ONLY, managerVars, channelVars, waiterVars
<1>1. CASE Start
  BY Zenon, <1>1 DEF Start
<1>2. CASE SetToSuspended
  BY <1>2 DEF SetToSuspended
<1>3. ASSUME NEW s \in Changes, AddStateChange(s)
      PROVE  TypeOK'
  BY <1>3 DEF AddStateChange, FirstConnect, Changes
<1>4. CASE PostSend
  <2>1. /\ Append(events, Len(posted)) \in Seq(Nat)
        /\ Len(Append(events, Len(posted))) = Len(events) + 1
    OBVIOUS
  <2>2. events' \in Seq(Nat) /\ Len(events') <= QueueSize
    <3>1. \/ Len(events) < QueueSize /\ events' = Append(events, Len(posted))
          \/ events' = events
      BY <1>4 DEF PostSend
    <3>2. Len(events) \in Nat /\ QueueSize \in Nat
      OBVIOUS
    <3>3. CASE events' = events
      BY <3>3
    <3>4. CASE Len(events) < QueueSize /\ events' = Append(events, Len(posted))
      BY <2>1, <3>2, <3>4
    <3> QED
      BY <3>1, <3>3, <3>4
  <2>3. poster' \in {"none", "send", "drop"}
    BY <1>4 DEF PostSend
  <2> QED
    BY <1>4, <2>2, <2>3 DEF PostSend
<1>5. CASE PostDrop
  <2>1. events # <<>> => Tail(events) \in Seq(Nat) /\ Len(Tail(events)) < Len(events)
    OBVIOUS
  <2>2. events' \in Seq(Nat) /\ Len(events') <= QueueSize
    <3>1. (events # <<>> /\ events' = Tail(events)) \/ events' = events
      BY <1>5 DEF PostDrop
    <3>2. Len(events) \in Nat /\ QueueSize \in Nat
      OBVIOUS
    <3>3. CASE events' = events
      BY <3>3
    <3>4. CASE events # <<>> /\ events' = Tail(events)
      BY <2>1, <3>2, <3>4
    <3> QED
      BY <3>1, <3>3, <3>4
  <2>3. poster' \in {"none", "send", "drop"}
    BY <1>5 DEF PostDrop
  <2> QED
    BY <1>5, <2>2, <2>3 DEF PostDrop
<1>6. CASE Receive
  <2>1. events # <<>> => /\ Tail(events) \in Seq(Nat)
                         /\ Len(Tail(events)) < Len(events)
                         /\ Head(events) \in Nat
    OBVIOUS
  <2>2. events' \in Seq(Nat) /\ Len(events') <= QueueSize
    <3>1. (events # <<>> /\ events' = Tail(events)) \/ events' = events
      BY <1>6 DEF Receive
    <3>2. Len(events) \in Nat /\ QueueSize \in Nat
      OBVIOUS
    <3>3. CASE events' = events
      BY <3>3
    <3>4. CASE events # <<>> /\ events' = Tail(events)
      BY <2>1, <3>2, <3>4
    <3> QED
      BY <3>1, <3>3, <3>4
  <2>3. dispatcher' \in [pc : {"none", "receive", "rlock", "foreach", "exit"},
                         ev : Nat, todo : Seq(Listeners \cup Waiters)]
    BY Zenon, <1>6, <2>1 DEF Receive
  <2> QED
    BY <1>6, <2>2, <2>3 DEF Receive
<1>7. CASE RLock
  BY ZenonT(30), <1>7 DEF RLock
<1>8. CASE CallListener
  <2>1. Tail(dispatcher.todo) \in Seq(Listeners \cup Waiters)
    BY <1>8 DEF CallListener
  <2>2. dispatcher' \in [pc : {"none", "receive", "rlock", "foreach", "exit"},
                         ev : Nat, todo : Seq(Listeners \cup Waiters)]
    BY Zenon, <1>8, <2>1 DEF CallListener, CallbackReturns
  <2>3. delivered' \in [Listeners -> Nat]
    BY <1>8 DEF CallListener
  <2> QED
    BY <1>8, <2>2, <2>3 DEF CallListener
<1>9. ASSUME NEW w \in Waiters, CallWaiter(w)
      PROVE  TypeOK'
  <2>1. Tail(dispatcher.todo) \in Seq(Listeners \cup Waiters)
    BY <1>9 DEF CallWaiter
  <2>2. dispatcher' \in [pc : {"none", "receive", "rlock", "foreach", "exit"},
                         ev : Nat, todo : Seq(Listeners \cup Waiters)]
    BY Zenon, <1>9, <2>1 DEF CallWaiter, CallbackReturns
  <2>3. /\ waiter' \in [Waiters -> {"idle", "add", "wait", "remove", "close",
                                    "returned"}]
        /\ result' \in [Waiters -> {"none", "nil", "ErrTimeout"}]
    BY Zenon, <1>9 DEF CallWaiter
  <2> QED
    BY <1>9, <2>2, <2>3 DEF CallWaiter
<1>10. CASE RUnlock
  BY ZenonT(30), <1>10 DEF RUnlock, ReadLocked
<1>11. ASSUME NEW l \in Listeners, AddListener(l)
       PROVE  TypeOK'
  BY <1>11 DEF AddListener
<1>12. ASSUME NEW l \in Listeners, RemoveListener(l)
       PROVE  TypeOK'
  <2>1. RemoveFirst(listeners, l) \in Seq(Listeners \cup Waiters)
    BY RemoveFirstProperties
  <2> QED
    BY <1>12, <2>1 DEF RemoveListener
<1>13. ASSUME NEW w \in Waiters, Block(w)
       PROVE  TypeOK'
  <2>1. CASE WaiterCheck(w)
    <3>1. /\ waiter' \in [Waiters -> {"idle", "add", "wait", "remove", "close",
                                      "returned"}]
          /\ result' \in [Waiters -> {"none", "nil", "ErrTimeout"}]
      BY Zenon, <2>1 DEF WaiterCheck
    <3> QED
      BY <2>1, <3>1 DEF WaiterCheck
  <2>2. CASE WaiterAdd(w)
    BY <2>2 DEF WaiterAdd
  <2>3. CASE WaiterTimeout(w)
    BY <2>3 DEF WaiterTimeout
  <2>4. CASE WaiterRemove(w)
    <3>1. RemoveFirst(listeners, w) \in Seq(Listeners \cup Waiters)
      BY RemoveFirstProperties
    <3> QED
      BY <2>4, <3>1 DEF WaiterRemove
  <2>5. CASE WaiterClose(w)
    BY <2>5 DEF WaiterClose
  <2> QED
    BY Zenon, <1>13, <2>1, <2>2, <2>3, <2>4, <2>5 DEF Block
<1>14. CASE Close
  BY Zenon, <1>14 DEF Close
<1>15. CASE CloseEvents
  BY <1>15 DEF CloseEvents
<1>16. CASE CloseClear
  BY <1>16 DEF CloseClear
<1>17. CASE UNCHANGED vars
  BY <1>17 DEF vars
<1> QED
  BY Zenon, <1>1, <1>2, <1>3, <1>4, <1>5, <1>6, <1>7, <1>8, <1>9, <1>10, <1>11,
     <1>12, <1>13, <1>14, <1>15, <1>16, <1>17 DEF Next, Post, Dispatch

Appends ==
  SetToSuspended \/ \E s \in Changes : AddStateChange(s)

\* Only posting and receiving touch the history, the channel and the position
\* of the dispatcher; the channel is never reopened.
LEMMA ChannelFrame ==
  TypeOK /\ [Next]_vars =>
    \/ Appends \/ PostSend \/ PostDrop \/ Receive
    \/ /\ UNCHANGED <<posted, events, poster>>
       /\ dispatcher'.ev = dispatcher.ev
       /\ eventsClosed => eventsClosed'
<1> SUFFICES ASSUME TypeOK, [Next]_vars,
                    ~ Appends, ~ PostSend, ~ PostDrop, ~ Receive
             PROVE  /\ UNCHANGED <<posted, events, poster>>
                    /\ dispatcher'.ev = dispatcher.ev
                    /\ eventsClosed => eventsClosed'
  OBVIOUS
<1> USE DEF TypeOK, managerVars, channelVars, waiterVars
<1>1. CASE Start
  BY <1>1 DEF Start
<1>2. CASE RLock \/ RUnlock
  BY Zenon, <1>2 DEF RLock, RUnlock
<1>3. CASE CallListener
  BY <1>3 DEF CallListener, CallbackReturns
<1>4. ASSUME NEW w \in Waiters, CallWaiter(w)
      PROVE  /\ UNCHANGED <<posted, events, poster>>
             /\ dispatcher'.ev = dispatcher.ev
             /\ eventsClosed => eventsClosed'
  BY <1>4 DEF CallWaiter, CallbackReturns
<1>5. ASSUME NEW l \in Listeners, AddListener(l) \/ RemoveListener(l)
      PROVE  UNCHANGED <<posted, events, poster, dispatcher, eventsClosed>>
  BY <1>5 DEF AddListener, RemoveListener
<1>6. ASSUME NEW w \in Waiters, Block(w)
      PROVE  UNCHANGED <<posted, events, poster, dispatcher, eventsClosed>>
  BY Zenon, <1>6 DEF Block, WaiterCheck, WaiterAdd, WaiterTimeout, WaiterRemove,
     WaiterClose
<1>7. CASE Close \/ CloseEvents \/ CloseClear
  BY Zenon, <1>7 DEF Close, CloseEvents, CloseClear
<1>8. CASE UNCHANGED vars
  BY <1>8 DEF vars
<1> QED
  BY Zenon, <1>1, <1>2, <1>3, <1>4, <1>5, <1>6, <1>7, <1>8 DEF Next, Post, Dispatch,
     Appends

\* What posting does to the history: one message more, and a poster that was
\* not there before.
LEMMA AppendsEffect ==
  ASSUME TypeOK, Appends
  PROVE  /\ poster = "none" /\ poster' = "send"
         /\ UNCHANGED <<events, eventsClosed, dispatcher>>
         /\ \E m \in ConnectionState : posted' = Append(posted, m)
         /\ Len(posted') = Len(posted) + 1
<1> USE DEF TypeOK, ConnectionState, UNKNOWN, CONNECTED, SUSPENDED, RECONNECTED,
            LOST, READ_ONLY, waiterVars
<1>1. CASE SetToSuspended
  BY <1>1 DEF SetToSuspended
<1>2. ASSUME NEW s \in Changes, AddStateChange(s)
      PROVE  /\ poster = "none" /\ poster' = "send"
             /\ UNCHANGED <<events, eventsClosed, dispatcher>>
             /\ \E m \in ConnectionState : posted' = Append(posted, m)
             /\ Len(posted') = Len(posted) + 1
  <2> DEFINE m == IF FirstConnect(s) THEN CONNECTED ELSE s
  <2>1. m \in ConnectionState
    BY DEF Changes
  <2>2. posted' = Append(posted, m)
    BY <1>2 DEF AddStateChange
  <2> HIDE DEF m
  <2>3. Len(posted') = Len(posted) + 1
    BY <2>1, <2>2
  <2> QED
    BY <1>2, <2>1, <2>2, <2>3 DEF AddStateChange
<1> QED
  BY Zenon, <1>1, <1>2 DEF Appends

\* A receive takes the head of the channel, or ends the dispatcher.
LEMMA ReceiveEffect ==
  ASSUME TypeOK, Receive
  PROVE  /\ UNCHANGED <<posted, poster, eventsClosed, listeners, waiter, result>>
         /\ \/ /\ events # <<>>
               /\ events' = Tail(events)
               /\ dispatcher'.ev = events[1]
               /\ dispatcher'.pc = "rlock"
            \/ /\ UNCHANGED events
               /\ dispatcher'.ev = dispatcher.ev
               /\ dispatcher'.pc = "exit"
<1>1. events # <<>> => Head(events) = events[1]
  BY DEF TypeOK
<1>2. CASE events # <<>>
  BY Zenon, <1>1, <1>2 DEF Receive, TypeOK, managerVars, waiterVars
<1>3. CASE events = <<>>
  BY <1>3 DEF Receive, TypeOK, managerVars, waiterVars
<1> QED
  BY <1>2, <1>3

\* The order of positions survives every step: a position is appended only
\* when it is larger than all others, and removed only at the head.
LEMMA OrderStep == TypeOK /\ OrderInv /\ [Next]_vars => OrderInv'
<1> SUFFICES ASSUME TypeOK, OrderInv, [Next]_vars
             PROVE  OrderInv'
  OBVIOUS
<1>0. /\ events \in Seq(Nat) /\ Len(posted) \in Nat /\ dispatcher.ev \in Nat
      /\ poster \in {"none", "send", "drop"}
  BY DEF TypeOK
<1>1. CASE Appends
  BY <1>0, <1>1, AppendsEffect DEF OrderInv
<1>2. CASE PostSend
  <2>1. CASE events' = Append(events, Len(posted)) /\ poster' = "none"
    BY <1>0, <1>2, <2>1 DEF OrderInv, PostSend
  <2>2. CASE events' = events
    BY <1>2, <2>2 DEF OrderInv, PostSend
  <2> QED
    BY <1>2, <2>1, <2>2 DEF PostSend
<1>3. CASE PostDrop
  <2>1. CASE events # <<>> /\ events' = Tail(events)
    BY <1>0, <1>3, <2>1 DEF OrderInv, PostDrop
  <2>2. CASE events' = events
    BY <1>3, <2>2 DEF OrderInv, PostDrop
  <2> QED
    BY <1>3, <2>1, <2>2 DEF PostDrop
<1>4. CASE Receive
  <2>1. CASE events # <<>> /\ events' = Tail(events) /\ dispatcher'.ev = events[1]
    <3>1. dispatcher'.ev = events[1] /\ UNCHANGED <<posted, poster>>
      BY <1>4, <2>1, ReceiveEffect
    <3> QED
      BY <1>0, <2>1, <3>1 DEF OrderInv
  <2>2. CASE events' = events /\ dispatcher'.ev = dispatcher.ev
    BY <1>4, <2>2 DEF OrderInv, Receive
  <2> QED
    BY <1>4, <2>1, <2>2, ReceiveEffect
<1>5. CASE UNCHANGED <<posted, events, poster>> /\ dispatcher'.ev = dispatcher.ev
  BY <1>5 DEF OrderInv
<1> QED
  BY <1>1, <1>2, <1>3, <1>4, <1>5, ChannelFrame

\* The newest message stays last in the channel, or last received.
LEMMA NewestStep ==
  TypeOK /\ OrderInv /\ NewestNotLost /\ [Next]_vars => NewestNotLost'
<1> SUFFICES ASSUME TypeOK, OrderInv, NewestNotLost, [Next]_vars,
                    poster' = "none", ~ eventsClosed'
             PROVE  Newest' = Len(posted)'
  BY DEF NewestNotLost
<1>0. events \in Seq(Nat) /\ Len(posted) \in Nat /\ dispatcher.ev \in Nat
  BY DEF TypeOK
<1>1. CASE Appends
  BY <1>1, AppendsEffect
<1>2. CASE PostSend
  <2>1. events' = Append(events, Len(posted)) /\ UNCHANGED posted
    BY <1>2 DEF PostSend
  <2>2. events' # <<>> /\ events'[Len(events')] = Len(posted)
    BY <1>0, <2>1
  <2> QED
    BY <2>1, <2>2 DEF Newest
<1>3. CASE PostDrop
  BY <1>3 DEF PostDrop
<1>4. CASE Receive
  <2>1. CASE events # <<>> /\ events' = Tail(events) /\ dispatcher'.ev = events[1]
    <3>1. dispatcher'.ev = events[1] /\ UNCHANGED <<posted, poster, eventsClosed>>
      BY <1>4, <2>1, ReceiveEffect
    <3>2. Newest = Len(posted)
      BY <3>1 DEF NewestNotLost
    <3>3. events[Len(events)] = Len(posted)
      BY <2>1, <3>2 DEF Newest
    <3>4. CASE events' = <<>>
      <4>1. Len(events) \in Nat /\ Len(events') = Len(events) - 1
        BY <1>0, <2>1
      <4>2. Len(events) = 1
        BY <3>4, <4>1
      <4> QED
        BY <3>1, <3>3, <3>4, <4>2 DEF Newest
    <3>5. CASE events' # <<>>
      <4>1. events'[Len(events')] = events[Len(events)]
        BY <1>0, <2>1, <3>5
      <4> QED
        BY <3>1, <3>3, <3>5, <4>1 DEF Newest
    <3> QED
      BY <3>4, <3>5
  <2>2. CASE events' = events /\ dispatcher'.ev = dispatcher.ev
    BY <1>4, <2>2, ReceiveEffect DEF NewestNotLost, Newest
  <2> QED
    BY <1>4, <2>1, <2>2, ReceiveEffect
<1>5. CASE /\ UNCHANGED <<posted, events, poster>>
           /\ dispatcher'.ev = dispatcher.ev
           /\ eventsClosed => eventsClosed'
  BY <1>5 DEF NewestNotLost, Newest
<1> QED
  BY <1>1, <1>2, <1>3, <1>4, <1>5, ChannelFrame

-----------------------------------------------------------------------------
(* The other parts of the invariant, step by step.                          *)

\* Only posting touches the manager's own fields, apart from its life cycle.
LEMMA HistoryFrame ==
  [Next]_vars =>
    \/ Appends
    \/ UNCHANGED <<posted, currentConnectionState, initialConnectMessageSent>>
BY Zenon DEF Next, Post, Dispatch, Block, Appends, vars, managerVars, channelVars,
       Start, PostSend, PostDrop, Receive, RLock, CallListener, CallWaiter,
       RUnlock, AddListener, RemoveListener, WaiterCheck, WaiterAdd,
       WaiterTimeout, WaiterRemove, WaiterClose, Close, CloseEvents, CloseClear

\* currentConnectionState and initialConnectMessageSent summarise the history.
LEMMA HistoryStep == TypeOK /\ HistoryInv /\ [Next]_vars => HistoryInv'
<1> SUFFICES ASSUME TypeOK, HistoryInv, [Next]_vars
             PROVE  HistoryInv'
  OBVIOUS
<1> USE DEF UNKNOWN, CONNECTED, SUSPENDED, RECONNECTED, LOST, READ_ONLY
<1>0. posted \in Seq(ConnectionState) /\ initialConnectMessageSent \in BOOLEAN
  BY DEF TypeOK
<1>1. ASSUME NEW m \in ConnectionState, posted' = Append(posted, m)
      PROVE  /\ posted' # <<>> /\ posted'[Len(posted')] = m
             /\ Occurs(posted', CONNECTED) <=> Occurs(posted, CONNECTED) \/ m = CONNECTED
  BY <1>0, <1>1 DEF Occurs
<1>2. CASE SetToSuspended
  <2>1. posted' = Append(posted, SUSPENDED) /\ SUSPENDED \in ConnectionState
    BY <1>2 DEF SetToSuspended, ConnectionState
  <2>2. /\ posted' # <<>> /\ posted'[Len(posted')] = SUSPENDED
        /\ Occurs(posted', CONNECTED) <=> Occurs(posted, CONNECTED)
    BY <1>1, <2>1
  <2> QED
    BY <1>2, <2>2 DEF HistoryInv, SetToSuspended
<1>3. ASSUME NEW s \in Changes, AddStateChange(s)
      PROVE  HistoryInv'
  <2> DEFINE m == IF FirstConnect(s) THEN CONNECTED ELSE s
  <2>1. posted' = Append(posted, m) /\ m \in ConnectionState
    BY <1>3 DEF AddStateChange, ConnectionState, Changes
  <2> HIDE DEF m
  <2>2. /\ posted' # <<>> /\ posted'[Len(posted')] = m
        /\ Occurs(posted', CONNECTED) <=> Occurs(posted, CONNECTED) \/ m = CONNECTED
    BY <1>1, <2>1
  <2>3. /\ currentConnectionState' = s
        /\ initialConnectMessageSent' <=> initialConnectMessageSent \/ m = CONNECTED
        /\ m = s \/ (m = CONNECTED /\ s = RECONNECTED)
    <3>1. CASE FirstConnect(s)
      <4>1. s = RECONNECTED /\ m = CONNECTED
        BY <3>1 DEF FirstConnect, Changes, m
      <4> QED
        BY Zenon, <1>3, <3>1, <4>1 DEF AddStateChange
    <3>2. CASE ~ FirstConnect(s)
      <4>1. m = s /\ m # CONNECTED
        BY <3>2 DEF m, Changes
      <4>2. /\ currentConnectionState' = s
            /\ initialConnectMessageSent' = (initialConnectMessageSent \/ FirstConnect(s))
        BY <1>3 DEF AddStateChange
      <4>3. initialConnectMessageSent' <=> initialConnectMessageSent
        BY <3>2, <4>2, Zenon
      <4> QED
        BY <4>1, <4>2, <4>3
    <3> QED
      BY <3>1, <3>2
  <2> QED
    BY <1>3, <2>2, <2>3 DEF HistoryInv, Changes
<1>4. CASE UNCHANGED <<posted, currentConnectionState, initialConnectMessageSent>>
  BY <1>4 DEF HistoryInv, Occurs
<1> QED
  BY <1>2, <1>3, <1>4, HistoryFrame DEF Appends

\* The dispatcher handles a position that was posted.
LEMMA DispatchStep ==
  TypeOK /\ OrderInv /\ DispatchInv /\ [Next]_vars => DispatchInv'
<1> SUFFICES ASSUME TypeOK, OrderInv, DispatchInv, [Next]_vars
             PROVE  DispatchInv'
  OBVIOUS
<1>0. events \in Seq(Nat) /\ Len(posted) \in Nat /\ dispatcher.ev \in Nat
  BY DEF TypeOK
<1>1. CASE Appends
  BY <1>0, <1>1, AppendsEffect DEF DispatchInv
<1>2. CASE Receive
  <2>1. CASE events # <<>> /\ dispatcher'.ev = events[1]
    <3>1. events[1] \in 1 .. Len(posted)
      BY <1>0, <2>1 DEF OrderInv
    <3> QED
      BY <1>2, <2>1, <3>1, ReceiveEffect DEF DispatchInv
  <2>2. CASE dispatcher'.pc = "exit"
    BY <2>2 DEF DispatchInv
  <2> QED
    BY <1>2, <2>1, <2>2, ReceiveEffect
<1>3. CASE /\ UNCHANGED posted
           /\ dispatcher'.ev = dispatcher.ev
           /\ dispatcher'.pc \in {"rlock", "foreach"} =>
                dispatcher.pc \in {"rlock", "foreach"}
  BY SMTT(30), <1>3 DEF DispatchInv
<1>4. \/ Appends \/ Receive
      \/ /\ UNCHANGED posted
         /\ dispatcher'.ev = dispatcher.ev
         /\ dispatcher'.pc \in {"rlock", "foreach"} =>
              dispatcher.pc \in {"rlock", "foreach"}
  BY Zenon DEF TypeOK, Next, Post, Dispatch, Block, Appends, vars, managerVars,
         channelVars, Start, PostSend, PostDrop, RLock, CallListener, CallWaiter,
         CallbackReturns, ReadLocked, RUnlock, AddListener, RemoveListener,
         WaiterCheck, WaiterAdd, WaiterTimeout, WaiterRemove, WaiterClose, Close,
         CloseEvents, CloseClear
<1> QED
  BY <1>1, <1>2, <1>3, <1>4

\* Registering and removing keep every waiter registered at most once, and
\* only while its channel is open.
LEMMA WaiterStep == TypeOK /\ WaiterInv /\ [Next]_vars => WaiterInv'
<1> SUFFICES ASSUME TypeOK, WaiterInv, [Next]_vars
             PROVE  WaiterInv'
  OBVIOUS
<1>0. listeners \in Seq(Listeners \cup Waiters)
  BY DEF TypeOK
<1>1. ASSUME NEW x, listeners' = Append(listeners, x)
      PROVE  \A w : /\ w # x /\ AtMostOnce(listeners, w) => AtMostOnce(listeners', w)
                    /\ w # x /\ Occurs(listeners', w) => Occurs(listeners, w)
                    /\ ~ Occurs(listeners, w) => AtMostOnce(listeners', w)
  BY <1>0, <1>1 DEF Occurs, AtMostOnce
<1>2. ASSUME NEW x, listeners' = RemoveFirst(listeners, x)
      PROVE  \A w : /\ AtMostOnce(listeners, w) => AtMostOnce(listeners', w)
                    /\ Occurs(listeners', w) => Occurs(listeners, w)
                    /\ w = x /\ AtMostOnce(listeners, w) => ~ Occurs(listeners', w)
  BY <1>0, <1>2, RemoveFirstProperties
<1>3. ASSUME NEW l \in Listeners, AddListener(l)
      PROVE  WaiterInv'
  BY <1>1, <1>3, ManagerAssumption DEF AddListener, WaiterInv, waiterVars
<1>4. ASSUME NEW l \in Listeners, RemoveListener(l)
      PROVE  WaiterInv'
  BY Zenon, <1>2, <1>4 DEF RemoveListener, WaiterInv, waiterVars
<1>5. ASSUME NEW w \in Waiters, WaiterAdd(w)
      PROVE  WaiterInv'
  BY Zenon, <1>1, <1>5 DEF WaiterAdd, WaiterInv, TypeOK
<1>6. ASSUME NEW w \in Waiters, WaiterRemove(w)
      PROVE  WaiterInv'
  BY Zenon, <1>2, <1>6 DEF WaiterRemove, WaiterInv, TypeOK
<1>7. CASE CloseClear
  BY <1>7 DEF CloseClear, WaiterInv, Occurs, AtMostOnce
<1>8. ASSUME NEW w \in Waiters, CallWaiter(w) \/ WaiterTimeout(w)
      PROVE  WaiterInv'
  BY Zenon, <1>8 DEF CallWaiter, WaiterTimeout, WaiterInv, TypeOK, waiterVars
<1>9. ASSUME NEW w \in Waiters, WaiterCheck(w) \/ WaiterClose(w)
      PROVE  WaiterInv'
  BY SMTT(30), <1>9 DEF WaiterCheck, WaiterClose, WaiterInv, TypeOK
<1>10. CASE UNCHANGED <<listeners, waiter>>
  BY <1>10 DEF WaiterInv
<1>11. \/ \E l \in Listeners : AddListener(l) \/ RemoveListener(l)
       \/ \E w \in Waiters : Block(w) \/ CallWaiter(w)
       \/ CloseClear
       \/ UNCHANGED <<listeners, waiter>>
  BY Zenon DEF Next, Post, Dispatch, vars, waiterVars, Start, SetToSuspended,
         AddStateChange, PostSend, PostDrop, Receive, RLock, CallListener,
         RUnlock, Close, CloseEvents
<1> QED
  BY <1>3, <1>4, <1>5, <1>6, <1>7, <1>8, <1>9, <1>10, <1>11 DEF Block

\* The list of listeners does not change while ForEach walks it.
LEMMA ForEachStep ==
  TypeOK /\ TodoInv /\ ForEachSeesStableList /\ [Next]_vars
    => TodoInv' /\ ForEachSeesStableList'
<1> SUFFICES ASSUME TypeOK, TodoInv, ForEachSeesStableList, [Next]_vars, ReadLocked'
             PROVE  /\ Len(dispatcher.todo') <= Len(listeners')
                    /\ dispatcher.todo' = SubSeq(listeners',
                                            Len(listeners') - Len(dispatcher.todo') + 1,
                                            Len(listeners'))
  BY Zenon DEF TodoInv, ForEachSeesStableList
<1> DEFINE L == Listeners \cup Waiters
<1>0. listeners \in Seq(L) /\ dispatcher.todo \in Seq(L)
  BY DEF TypeOK
<1>1. CASE RLock
  <2>1. dispatcher'.todo = listeners /\ UNCHANGED listeners
    BY <1>1 DEF RLock, TypeOK
  <2>2. SubSeq(listeners, 1, Len(listeners)) = listeners
    BY <1>0, SubSeqFull
  <2>3. Len(listeners) - Len(listeners) + 1 = 1
    BY <1>0
  <2> QED
    BY <1>0, <2>1, <2>2, <2>3
<1>2. CASE /\ ReadLocked /\ dispatcher.todo # <<>>
           /\ dispatcher'.todo = Tail(dispatcher.todo) /\ UNCHANGED listeners
  <2> DEFINE t == dispatcher.todo
             k == Len(t)
             n == Len(listeners)
  <2>1. t \in Seq(L) /\ t # <<>> /\ t = SubSeq(listeners, n - k + 1, n) /\ k <= n
    BY Zenon, <1>0, <1>2 DEF TodoInv, ForEachSeesStableList
  <2>2. k \in Nat /\ n \in Nat /\ k >= 1 /\ Len(Tail(t)) = k - 1
    BY <1>0, <2>1
  <2> HIDE DEF t, k, n
  <2>3. n - k + 1 \in 1 .. n /\ n \in n - k + 1 .. n
    BY <2>1, <2>2
  <2>4. Tail(SubSeq(listeners, n - k + 1, n)) = SubSeq(listeners, n - k + 1 + 1, n)
    BY Zenon, <1>0, <2>3, HeadTailOfSubSeq DEF n
  <2>5. n - (k - 1) + 1 = n - k + 1 + 1
    BY <2>2
  <2>6. Tail(t) = SubSeq(listeners, n - Len(Tail(t)) + 1, n)
    BY <2>1, <2>2, <2>4, <2>5
  <2>7. Len(Tail(t)) <= n
    BY <2>1, <2>2
  <2> QED
    BY Zenon, <1>2, <2>6, <2>7 DEF t, n
<1>3. CASE ReadLocked /\ UNCHANGED <<listeners, dispatcher>>
  BY Zenon, <1>3 DEF TodoInv, ForEachSeesStableList
<1>4. \/ RLock
      \/ /\ ReadLocked /\ dispatcher.todo # <<>>
         /\ dispatcher'.todo = Tail(dispatcher.todo) /\ UNCHANGED listeners
      \/ ReadLocked /\ UNCHANGED <<listeners, dispatcher>>
  <2>1. CASE Start \/ Receive \/ RUnlock
    BY Zenon, <2>1 DEF Start, Receive, RUnlock, ReadLocked, TypeOK
  <2>2. CASE CallListener
    BY <2>2 DEF CallListener, CallbackReturns, TypeOK
  <2>3. ASSUME NEW w \in Waiters, CallWaiter(w)
        PROVE  /\ ReadLocked /\ dispatcher.todo # <<>>
               /\ dispatcher'.todo = Tail(dispatcher.todo) /\ UNCHANGED listeners
    BY <2>3 DEF CallWaiter, CallbackReturns, TypeOK
  <2>4. CASE Appends \/ PostSend \/ PostDrop
    BY Zenon, <2>4 DEF Appends, SetToSuspended, AddStateChange, PostSend, PostDrop,
       ReadLocked
  <2>5. ASSUME NEW l \in Listeners, AddListener(l) \/ RemoveListener(l)
        PROVE  FALSE
    BY <2>5 DEF AddListener, RemoveListener, ReadLocked
  <2>6. ASSUME NEW w \in Waiters, Block(w)
        PROVE  ReadLocked /\ UNCHANGED <<listeners, dispatcher>>
    BY Zenon, <2>6 DEF Block, WaiterCheck, WaiterAdd, WaiterTimeout, WaiterRemove,
                WaiterClose, ReadLocked
  <2>7. CASE Close \/ CloseEvents \/ CloseClear
    BY Zenon, <2>7 DEF Close, CloseEvents, CloseClear, ReadLocked
  <2>8. CASE UNCHANGED vars
    BY Zenon, <2>8 DEF vars, ReadLocked
  <2> QED
    BY Zenon, <2>1, <2>2, <2>3, <2>4, <2>5, <2>6, <2>7, <2>8
       DEF Next, Post, Dispatch, Appends
<1> QED
  BY Zenon, <1>1, <1>2, <1>3, <1>4

\* A waiter is told of success only when a connected state was posted, and the
\* history only grows.
LEMMA SuccessStep ==
  /\ TypeOK /\ HistoryInv /\ DispatchInv /\ SuccessMeansConnected /\ [Next]_vars
  => SuccessMeansConnected'
<1> SUFFICES ASSUME TypeOK, HistoryInv, DispatchInv, SuccessMeansConnected, [Next]_vars
             PROVE  SuccessMeansConnected'
  OBVIOUS
<1> DEFINE Announced == \E i \in 1 .. Len(posted) : Connected(posted[i])
<1>0. posted \in Seq(ConnectionState)
  BY DEF TypeOK
<1>1. Announced => Announced'
  <2>1. CASE Appends
    <3>1. PICK m \in ConnectionState : posted' = Append(posted, m)
      BY <2>1, AppendsEffect
    <3> QED
      BY <1>0, <3>1 DEF Connected
  <2>2. CASE UNCHANGED posted
    BY <2>2
  <2> QED
    BY <2>1, <2>2, HistoryFrame
<1>2. ASSUME NEW w \in Waiters, WaiterCheck(w)
      PROVE  SuccessMeansConnected'
  <2>1. CASE Connected(currentConnectionState)
    <3>1. posted # <<>> /\ Connected(posted[Len(posted)])
      BY <2>1 DEF HistoryInv, Connected, UNKNOWN, CONNECTED, SUSPENDED,
                  RECONNECTED, LOST, READ_ONLY
    <3>2. Len(posted) \in 1 .. Len(posted)
      BY <1>0, <3>1
    <3>3. Announced
      BY <3>1, <3>2
    <3> QED
      BY Zenon, <1>1, <3>3 DEF SuccessMeansConnected
  <2>2. CASE UNCHANGED result
    BY <1>1, <2>2 DEF SuccessMeansConnected
  <2> QED
    BY Zenon, <1>2, <2>1, <2>2 DEF WaiterCheck
<1>3. ASSUME NEW w \in Waiters, CallWaiter(w)
      PROVE  SuccessMeansConnected'
  <2>1. CASE Connected(posted[dispatcher.ev])
    <3>1. dispatcher.ev \in 1 .. Len(posted)
      BY Zenon, <1>3 DEF CallWaiter, ReadLocked, DispatchInv
    <3>2. Announced
      BY <2>1, <3>1
    <3> QED
      BY <1>1, <3>2 DEF SuccessMeansConnected
  <2>2. CASE UNCHANGED result
    BY <1>1, <2>2 DEF SuccessMeansConnected
  <2> QED
    BY Zenon, <1>3, <2>1, <2>2 DEF CallWaiter, waiterVars
<1>4. ASSUME NEW w \in Waiters, WaiterTimeout(w)
      PROVE  SuccessMeansConnected'
  <2>1. \A v \in Waiters : result'[v] = "nil" => result[v] = "nil"
    BY Zenon, <1>4 DEF WaiterTimeout, TypeOK
  <2> QED
    BY <1>1, <2>1 DEF SuccessMeansConnected
<1>5. CASE UNCHANGED result
  BY SMTT(30), <1>1, <1>5 DEF SuccessMeansConnected
<1>6. \/ \E w \in Waiters : WaiterCheck(w) \/ CallWaiter(w) \/ WaiterTimeout(w)
      \/ UNCHANGED result
  BY Zenon DEF Next, Post, Dispatch, Block, vars, waiterVars, Start, SetToSuspended,
         AddStateChange, PostSend, PostDrop, Receive, RLock, CallListener,
         RUnlock, AddListener, RemoveListener, WaiterAdd, WaiterRemove,
         WaiterClose, Close, CloseEvents, CloseClear
<1> QED
  BY <1>2, <1>3, <1>4, <1>5, <1>6

-----------------------------------------------------------------------------
(* The theorems.                                                            *)

LEMMA InitIInv == Init => IInv
<1> SUFFICES ASSUME Init
             PROVE  IInv
  OBVIOUS
<1> USE ManagerAssumption DEF Init
<1>1. TypeOK
  <2>1. /\ posted = <<>> /\ events = <<>> /\ listeners = <<>>
        /\ dispatcher = [pc |-> "none", ev |-> 0, todo |-> <<>>]
    BY Zenon
  <2>2. /\ posted \in Seq(ConnectionState) /\ Len(posted) <= MaxPosts
        /\ events \in Seq(Nat) /\ Len(events) <= QueueSize
        /\ listeners \in Seq(Listeners \cup Waiters)
        /\ dispatcher.todo \in Seq(Listeners \cup Waiters)
    BY <2>1
  <2>3. currentConnectionState \in ConnectionState
    BY DEF ConnectionState
  <2>4. dispatcher \in [pc : {"none", "receive", "rlock", "foreach", "exit"},
                       ev : Nat, todo : Seq(Listeners \cup Waiters)]
    BY <2>1, <2>2
  <2> QED
    BY Zenon, <2>2, <2>3, <2>4 DEF TypeOK
<1>2. OrderInv /\ HistoryInv /\ WaiterInv /\ DispatchInv
  BY DEF OrderInv, HistoryInv, WaiterInv, DispatchInv, Occurs, AtMostOnce
<1>3. NewestNotLost /\ ForEachSeesStableList /\ SuccessMeansConnected /\ TodoInv
  BY DEF NewestNotLost, Newest, ForEachSeesStableList, SuccessMeansConnected,
         TodoInv, ReadLocked
<1> QED
  BY Zenon, <1>1, <1>2, <1>3 DEF IInv

LEMMA NextIInv == IInv /\ [Next]_vars => IInv'
BY TypeStep, OrderStep, HistoryStep, WaiterStep, DispatchStep, NewestStep,
   ForEachStep, SuccessStep DEF IInv

\* The inductive invariant holds in every reachable state.
THEOREM Invariance == Spec => []IInv
BY InitIInv, NextIInv, PTL DEF Spec

\* connectionStateManager keeps its types and bounds: the channel never holds
\* more than QueueSize messages, whatever the interleaving of posters and
\* dispatcher.
THEOREM TypeCorrect == Spec => []TypeOK
<1>1. IInv => TypeOK
  BY DEF IInv
<1> QED
  BY <1>1, Invariance, PTL

\* postState drops old messages but never the newest one.
THEOREM NewestSafe == Spec => []NewestNotLost
<1>1. IInv => NewestNotLost
  BY DEF IInv
<1> QED
  BY <1>1, Invariance, PTL

\* ForEach calls exactly the listeners registered when it took the read lock,
\* none of which can be removed before it is done.
THEOREM StableList == Spec => []ForEachSeesStableList
<1>1. IInv => ForEachSeesStableList
  BY DEF IInv
<1> QED
  BY <1>1, Invariance, PTL

\* BlockUntilConnected reports success only after a connection was announced.
THEOREM SuccessSound == Spec => []SuccessMeansConnected
<1>1. IInv => SuccessMeansConnected
  BY DEF IInv
<1> QED
  BY <1>1, Invariance, PTL

\* The dispatcher never sends on the closed channel of a BlockUntilConnected
\* that has returned.
THEOREM NoPanicOnSend == Spec => []NoSendOnClosedChannel
<1>1. IInv => NoSendOnClosedChannel
  <2> SUFFICES ASSUME IInv, NEW w \in Waiters, SendsTo(w)
               PROVE  waiter[w] # "returned"
    BY DEF NoSendOnClosedChannel
  <2> DEFINE L == Listeners \cup Waiters
             t == dispatcher.todo
             k == Len(t)
             n == Len(listeners)
  <2>1. /\ listeners \in Seq(L) /\ t \in Seq(L) /\ t # <<>>
        /\ k <= n /\ t = SubSeq(listeners, n - k + 1, n)
        /\ Head(t) = w
    BY Zenon DEF IInv, TypeOK, TodoInv, ForEachSeesStableList, SendsTo, Callee
  <2>2. k \in Nat /\ n \in Nat /\ k >= 1
    BY <2>1
  <2> HIDE DEF t, k, n
  <2>3. n - k + 1 \in 1 .. n /\ n \in n - k + 1 .. n
    BY <2>1, <2>2
  <2>4. Head(SubSeq(listeners, n - k + 1, n)) = listeners[n - k + 1]
    BY Zenon, <2>1, <2>3, HeadTailOfSubSeq DEF n
  <2>5. Occurs(listeners, w)
    BY <2>1, <2>3, <2>4 DEF Occurs, n
  <2> QED
    BY <2>5 DEF IInv, WaiterInv
<1> QED
  BY <1>1, Invariance, PTL

\* The manager implements the feed: every step posts a legal message, shows a
\* newer one, or changes neither.
THEOREM FeedRefinement == Spec => ImplementsFeed
<1> USE DEF UNKNOWN, CONNECTED, SUSPENDED, RECONNECTED, LOST, READ_ONLY,
            Feed!UNKNOWN, Feed!CONNECTED, Feed!SUSPENDED, Feed!RECONNECTED,
            Feed!LOST, Feed!READ_ONLY, Feed!ConnectionState
<1>1. Init => Feed!Init
  BY DEF Init, Feed!Init
<1>2. IInv /\ [Next]_vars => [Feed!Post \/ Feed!Show]_Feed!feedVars
  <2> SUFFICES ASSUME IInv, [Next]_vars
               PROVE  \/ Feed!Post \/ Feed!Show
                      \/ UNCHANGED Feed!feedVars
    BY Zenon
  <2>0. posted \in Seq(ConnectionState) /\ events \in Seq(Nat) /\ dispatcher.ev \in Nat
    BY Zenon DEF IInv, TypeOK
  <2>1. /\ Feed!EverConnected <=> initialConnectMessageSent
        /\ \/ Feed!LastPosted = currentConnectionState
           \/ Feed!LastPosted = CONNECTED /\ currentConnectionState = RECONNECTED
        /\ currentConnectionState # CONNECTED
    BY Zenon DEF IInv, HistoryInv, Occurs, Feed!EverConnected, Feed!LastPosted
  <2>2. CASE SetToSuspended
    <3>1. Feed!Legal(SUSPENDED)
      BY Zenon, <2>1, <2>2 DEF SetToSuspended, Feed!Legal
    <3>2. posted' = Append(posted, SUSPENDED) /\ dispatcher'.ev = dispatcher.ev
      BY <2>2 DEF SetToSuspended
    <3> QED
      BY Zenon, <3>1, <3>2 DEF Feed!Post, ConnectionState
  <2>3. ASSUME NEW s \in Changes, AddStateChange(s)
        PROVE  Feed!Post
    <3> DEFINE m == IF FirstConnect(s) THEN CONNECTED ELSE s
    <3>1. Feed!Legal(m)
      <4>1. CASE FirstConnect(s)
        BY <2>1, <4>1 DEF FirstConnect, Feed!Legal
      <4>2. CASE ~ FirstConnect(s)
        <5>1. currentConnectionState # s
          BY <2>3 DEF AddStateChange
        <5>2. CASE s = RECONNECTED
          <6>1. initialConnectMessageSent
            BY <4>2, <5>2 DEF FirstConnect
          <6>2. posted # <<>>
            BY <2>0, <2>1, <6>1 DEF Feed!EverConnected
          <6>3. currentConnectionState \in {SUSPENDED, LOST, READ_ONLY}
            BY Zenon, <5>1, <5>2, <6>2 DEF IInv, HistoryInv
          <6> QED
            BY <2>1, <4>2, <5>2, <6>1, <6>3 DEF Feed!Legal
        <5>3. CASE s \in {LOST, READ_ONLY}
          BY <2>1, <4>2, <5>1, <5>3 DEF Feed!Legal
        <5> QED
          BY <5>2, <5>3 DEF Changes
      <4> QED
        BY Zenon, <4>1, <4>2
    <3>2. m \in ConnectionState
      BY DEF Changes, ConnectionState
    <3>3. posted' = Append(posted, m) /\ dispatcher'.ev = dispatcher.ev
      BY <2>3 DEF AddStateChange
    <3> HIDE DEF m
    <3> QED
      BY Zenon, <3>1, <3>2, <3>3 DEF Feed!Post, ConnectionState
  <2>4. CASE Receive
    <3>1. CASE events # <<>> /\ dispatcher'.ev = events[1]
      <4>1. events[1] \in dispatcher.ev + 1 .. Len(posted)
        BY <2>0, <3>1 DEF IInv, OrderInv
      <4> QED
        BY Zenon, <2>4, <3>1, <4>1, ReceiveEffect DEF Feed!Show, IInv
    <3>2. CASE dispatcher'.ev = dispatcher.ev
      BY Zenon, <2>4, <3>2, ReceiveEffect DEF Feed!feedVars, IInv
    <3> QED
      BY Zenon, <2>4, <3>1, <3>2, ReceiveEffect DEF IInv
  <2>5. CASE PostSend \/ PostDrop
    BY Zenon, <2>5 DEF PostSend, PostDrop, Feed!feedVars
  <2>6. CASE UNCHANGED posted /\ dispatcher'.ev = dispatcher.ev
    BY <2>6 DEF Feed!feedVars
  <2> QED
    BY Zenon, <2>2, <2>3, <2>4, <2>5, <2>6, ChannelFrame DEF Appends, IInv
<1> QED
  BY <1>1, <1>2, Invariance, PTL DEF Spec, ImplementsFeed, Feed!Spec

=============================================================================
