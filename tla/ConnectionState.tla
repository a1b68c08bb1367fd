--------------------------- MODULE ConnectionState ---------------------------
(***************************************************************************)
(* state.go: connectionState and its handleHolder, with the parts of        *)
(* curatorZookeeperClient (client.go) that call them.                       *)
(*                                                                          *)
(* Every event of a connection is processed in a goroutine of its own and   *)
(* users call Conn from theirs; nothing locks connectionState or the        *)
(* holder.  A process of the model is one such goroutine, and a step is one *)
(* access to shared state or one call to the zookeeper library.  The events *)
(* that connectionState passes on to its parent watchers are not modelled.  *)
(***************************************************************************)
EXTENDS Integers

CONSTANTS
  Procs,      \* goroutines that run at the same time
  MaxErrors,  \* MAX_BACKGROUND_ERRORS
  DialFails,  \* whether Dial may fail
  MaxDials,   \* bound: connections made
  MaxEvents,  \* bound: session events
  MaxCalls,   \* bound: calls of Start, Conn and Close
  MaxChanges  \* bound: changes of the ensemble's connection string

ASSUME ConnectionStateAssumption ==
  /\ Procs # {}
  /\ MaxErrors \in Nat \ {0}
  /\ DialFails \in BOOLEAN
  /\ {MaxDials, MaxEvents, MaxCalls, MaxChanges} \subseteq Nat

VARIABLES
  \* curatorZookeeperClient, connectionState and handleHolder
  started, isConnected, instanceIndex, backgroundErrors,
  helper,      \* Nil, Factory, or the connection that zookeeperCache holds
  elapsed,     \* since connectionStart: 0 below the smaller of the two
               \* timeouts, 1 between them, 2 above the larger
  \* the zookeeper library and the ensemble
  \* (inflight holds the kinds of event that wait for their goroutine)
  dials, open, session, dialled, connString, inflight, emitted,
  startFailed,  \* history: the provider's Start failed in the last Start
  \* the goroutines, and what their calls of Conn returned
  pc, frame, ret, calls

holderVars == <<helper, dials, open, session, dialled, inflight>>
stateVars  == <<started, isConnected, instanceIndex, backgroundErrors>>
procVars   == <<pc, frame, ret, calls>>
worldVars  == <<connString, emitted, startFailed>>
vars == <<holderVars, stateVars, elapsed, worldVars, procVars>>

Nil     == -1
Factory == 0
Conns   == 1 .. MaxDials

NoResult  == -2
ErrResult == 0

SessionEvents == {"HasSession", "Disconnected", "Expired"}

\* The locals of a call: the event, wasConnected, newIsConnected, the conn it
\* works on, the last error, and where reset and Dial return to.
NoFrame == [ev |-> "none", was |-> FALSE, new |-> FALSE, conn |-> Nil,
            err |-> FALSE, after |-> "idle", then |-> "idle"]

Labels == {"idle", "load", "checkString", "handled", "queue", "drain", "set",
           "stamp", "reset", "close", "closeConn", "factory", "initiate", "dial",
           "assign", "deque", "check", "timeout", "timedOut", "get", "clear",
           "clearConn", "clearHelper", "unset", "returned"}

TypeOK ==
  /\ started \in BOOLEAN
  /\ isConnected \in BOOLEAN
  /\ instanceIndex \in Nat
  /\ backgroundErrors \in 0 .. MaxErrors
  /\ helper \in {Nil, Factory} \cup 1 .. dials
  /\ elapsed \in 0 .. 2
  /\ dials \in 0 .. MaxDials
  /\ open \subseteq 1 .. dials
  /\ session \in [Conns -> {"connecting", "up", "down", "expired"}]
  /\ dialled \in [Conns -> 0 .. MaxChanges]
  /\ connString \in 0 .. MaxChanges
  /\ inflight \subseteq SessionEvents
  /\ emitted \in 0 .. MaxEvents
  /\ startFailed \in BOOLEAN
  /\ pc \in [Procs -> Labels]
  /\ frame \in [Procs -> [ev : SessionEvents \cup {"none"}, was : BOOLEAN,
                          new : BOOLEAN, conn : {Nil} \cup 1 .. dials,
                          err : BOOLEAN, after : Labels, then : Labels]]
  /\ ret \in [Procs -> {NoResult, ErrResult, Nil} \cup 1 .. dials]
  /\ calls \in 0 .. MaxCalls

Init ==
  /\ started = FALSE
  /\ isConnected = FALSE
  /\ instanceIndex = 0
  /\ backgroundErrors = 0
  /\ helper = Nil
  /\ elapsed = 0
  /\ dials = 0
  /\ open = {}
  /\ session = [c \in Conns |-> "connecting"]
  /\ dialled = [c \in Conns |-> 0]
  /\ connString = 0
  /\ inflight = {}
  /\ emitted = 0
  /\ startFailed = FALSE
  /\ pc = [p \in Procs |-> "idle"]
  /\ frame = [p \in Procs |-> NoFrame]
  /\ ret = [p \in Procs |-> NoResult]
  /\ calls = 0

-----------------------------------------------------------------------------
(* Helpers                                                                  *)

\* The call goes on, with its locals as they are or as given.
Goto(p, label) ==
  /\ pc' = [pc EXCEPT ![p] = label]
  /\ UNCHANGED <<frame, ret, calls>>

GotoWith(p, label, locals) ==
  /\ pc' = [pc EXCEPT ![p] = label]
  /\ frame' = [frame EXCEPT ![p] = locals]
  /\ UNCHANGED <<ret, calls>>

\* The call returns; result is what Conn gives its caller.
Return(p, result) ==
  /\ pc' = [pc EXCEPT ![p] = "idle"]
  /\ frame' = [frame EXCEPT ![p] = NoFrame]
  /\ ret' = [ret EXCEPT ![p] = result]
  /\ UNCHANGED calls

\* Mutant of HasNewConnectionString: the factory is passed over.
IgnoreFactoryString == helper \in Conns /\ dialled[helper] # connString

\* The factory's connection string is empty, unlike any ensemble's.
HasNewConnectionString ==
  \/ helper = Factory
  \/ helper \in Conns /\ dialled[helper] # connString

-----------------------------------------------------------------------------
(* handleHolder: internalClose, closeAndReset, closeAndClear, and the       *)
(* factory's Dial.                                                          *)

\* The library closes a connection; one that was up reports the end.
CloseConnection(c) ==
  /\ open' = open \ {c}
  /\ \/ /\ session[c] = "up"
        /\ session' = [session EXCEPT ![c] = "down"]
        /\ inflight' = inflight \cup {"Disconnected"}
     \/ session[c] # "up" /\ UNCHANGED <<session, inflight>>

\* internalClose gets the connection to close from the helper: the factory
\* dials one for the purpose.
CloseOld(p) ==
  /\ pc[p] = "close"
  /\ \/ helper = Nil /\ Goto(p, "factory")
     \/ helper = Factory /\ GotoWith(p, "dial", [frame[p] EXCEPT !.then = "closeConn"])
     \/ helper \in Conns /\ GotoWith(p, "closeConn", [frame[p] EXCEPT !.conn = helper])
  /\ UNCHANGED <<holderVars, stateVars, elapsed, worldVars>>

\* Mutant of CloseConn: the old connection is dropped, not closed.
ForgetToClose(p) ==
  /\ pc[p] = "closeConn"
  /\ Goto(p, "factory")
  /\ UNCHANGED <<holderVars, stateVars, elapsed, worldVars>>

CloseConn(p) ==
  /\ pc[p] = "closeConn"
  /\ CloseConnection(frame[p].conn)
  /\ Goto(p, "factory")
  /\ UNCHANGED <<helper, dials, dialled, stateVars, elapsed, worldVars>>

NewFactory(p) ==
  /\ pc[p] = "factory"
  /\ helper' = Factory
  /\ Goto(p, "initiate")
  /\ UNCHANGED <<dials, open, session, dialled, inflight, stateVars, elapsed,
                 worldVars>>

\* zookeeperFactory.GetZookeeperConnection, up to the result of Dial.  An error
\* while closing is ignored by reset; other errors go to the caller.
Dial(p) ==
  /\ pc[p] = "dial"
  /\ \/ /\ dials < MaxDials
        /\ dials' = dials + 1
        /\ open' = open \cup {dials'}
        /\ dialled' = [dialled EXCEPT ![dials'] = connString]
        /\ GotoWith(p, "assign", [frame[p] EXCEPT !.conn = dials'])
     \/ /\ DialFails \/ dials = MaxDials
        /\ \/ frame[p].then = "closeConn" /\ Goto(p, "initiate")
           \/ /\ frame[p].then = "reset"
              /\ GotoWith(p, frame[p].after, [frame[p] EXCEPT !.err = TRUE])
           \/ frame[p].then = "get" /\ Return(p, ErrResult)
        /\ UNCHANGED <<dials, open, dialled>>
  /\ UNCHANGED <<helper, session, inflight, elapsed, stateVars, worldVars>>

\* h.helper = &zookeeperCache{connectString, conn}
Assign(p) ==
  /\ pc[p] = "assign"
  /\ helper' = frame[p].conn
  /\ \/ frame[p].then = "closeConn" /\ Goto(p, "closeConn")
     \/ /\ frame[p].then = "reset"
        /\ GotoWith(p, frame[p].after, [frame[p] EXCEPT !.err = FALSE])
     \/ frame[p].then = "get" /\ Return(p, frame[p].conn)
  /\ UNCHANGED <<dials, open, session, dialled, inflight, stateVars, elapsed,
                 worldVars>>

\* Mutant of Clear: internalClose is not called.
ClearWithoutClose(p) ==
  /\ pc[p] = "clear"
  /\ \/ helper = Factory /\ Goto(p, "unset")
     \/ helper # Factory /\ Goto(p, "clearHelper")
  /\ UNCHANGED <<holderVars, stateVars, elapsed, worldVars>>

\* closeAndClear leaves a factory where it is.
Clear(p) ==
  /\ pc[p] = "clear"
  /\ \/ helper = Factory /\ Goto(p, "unset")
     \/ helper = Nil /\ Goto(p, "clearHelper")
     \/ helper \in Conns /\ GotoWith(p, "clearConn", [frame[p] EXCEPT !.conn = helper])
  /\ UNCHANGED <<holderVars, stateVars, elapsed, worldVars>>

ClearConn(p) ==
  /\ pc[p] = "clearConn"
  /\ CloseConnection(frame[p].conn)
  /\ Goto(p, "clearHelper")
  /\ UNCHANGED <<helper, dials, dialled, stateVars, elapsed, worldVars>>

ClearHelper(p) ==
  /\ pc[p] = "clearHelper"
  /\ helper' = Nil
  /\ Goto(p, "unset")
  /\ UNCHANGED <<dials, open, session, dialled, inflight, stateVars, elapsed,
                 worldVars>>

-----------------------------------------------------------------------------
(* connectionState.reset                                                    *)

Reset(p) ==
  /\ pc[p] = "reset"
  /\ instanceIndex' = instanceIndex + 1
  /\ isConnected' = FALSE
  /\ Goto(p, "close")
  /\ UNCHANGED <<started, backgroundErrors, holderVars, elapsed, worldVars>>

\* "initiate connection": the helper may be any other goroutine's by now.
Initiate(p) ==
  /\ pc[p] = "initiate"
  /\ \/ helper = Factory /\ GotoWith(p, "dial", [frame[p] EXCEPT !.then = "reset"])
     \/ /\ helper # Factory
        /\ GotoWith(p, frame[p].after, [frame[p] EXCEPT !.err = FALSE])
  /\ UNCHANGED <<holderVars, stateVars, elapsed, worldVars>>

\* handleNewConnectionString and handleExpiredSession, after reset.
Handled(p) ==
  /\ pc[p] = "handled"
  /\ Goto(p, IF frame[p].err THEN "queue"
             ELSE IF frame[p].ev = "none" THEN "get" ELSE "set")
  /\ UNCHANGED <<holderVars, stateVars, elapsed, worldVars>>

\* queueBackgroundException: the channel takes the error, or one is received
\* to make room.
Queue(p) ==
  /\ pc[p] = "queue"
  /\ \/ /\ backgroundErrors < MaxErrors
        /\ backgroundErrors' = backgroundErrors + 1
        /\ Goto(p, IF frame[p].ev = "none" THEN "get" ELSE "set")
     \/ /\ backgroundErrors = MaxErrors
        /\ Goto(p, "drain")
        /\ UNCHANGED backgroundErrors
  /\ UNCHANGED <<started, isConnected, instanceIndex, holderVars, elapsed,
                 worldVars>>

\* This receive has no default: it waits while the channel is empty.
Drain(p) ==
  /\ pc[p] = "drain"
  /\ backgroundErrors > 0
  /\ backgroundErrors' = backgroundErrors - 1
  /\ Goto(p, "queue")
  /\ UNCHANGED <<started, isConnected, instanceIndex, holderVars, elapsed,
                 worldVars>>

-----------------------------------------------------------------------------
(* connectionState.process: a goroutine for each event, in any order.       *)

Process(p) ==
  /\ pc[p] = "idle"
  /\ \E e \in inflight :
       /\ inflight' = inflight \ {e}
       /\ GotoWith(p, "load", [frame[p] EXCEPT !.ev = e])
  /\ UNCHANGED <<helper, dials, open, session, dialled, stateVars, elapsed,
                 worldVars>>

\* Mutant of Load: an expired session is a disconnection like any other.
LoadIgnoringExpiry(p) ==
  /\ pc[p] = "load"
  /\ GotoWith(p, "checkString",
              [frame[p] EXCEPT !.was = isConnected, !.new = (frame[p].ev = "HasSession")])
  /\ UNCHANGED <<holderVars, stateVars, elapsed, worldVars>>

\* wasConnected, and the switch of checkState.
Load(p) ==
  /\ pc[p] = "load"
  /\ \/ /\ frame[p].ev = "Expired"
        /\ GotoWith(p, "reset",
                    [frame[p] EXCEPT !.was = isConnected, !.after = "handled"])
     \/ /\ frame[p].ev # "Expired"
        /\ GotoWith(p, "checkString",
              [frame[p] EXCEPT !.was = isConnected, !.new = (frame[p].ev = "HasSession")])
  /\ UNCHANGED <<holderVars, stateVars, elapsed, worldVars>>

CheckString(p) ==
  /\ pc[p] = "checkString"
  /\ \/ /\ HasNewConnectionString
        /\ GotoWith(p, "reset", [frame[p] EXCEPT !.new = FALSE, !.after = "handled"])
     \/ ~HasNewConnectionString /\ Goto(p, "set")
  /\ UNCHANGED <<holderVars, stateVars, elapsed, worldVars>>

SetConnected(p) ==
  /\ pc[p] = "set"
  /\ \/ /\ frame[p].new # frame[p].was
        /\ isConnected' = frame[p].new
        /\ Goto(p, "stamp")
     \/ /\ frame[p].new = frame[p].was
        /\ Return(p, NoResult)
        /\ UNCHANGED isConnected
  /\ UNCHANGED <<started, instanceIndex, backgroundErrors, holderVars, elapsed,
                 worldVars>>

\* s.connectionStart = time.Now()
Stamp(p) ==
  /\ pc[p] = "stamp"
  /\ elapsed' = 0
  /\ Return(p, NoResult)
  /\ UNCHANGED <<holderVars, stateVars, worldVars>>

-----------------------------------------------------------------------------
(* Start, Conn and Close of the client                                      *)

\* The client is started; then the ensemble provider is, and if that fails Start
\* returns the error and the client stays started, with the helper it had.
Start(p) ==
  /\ pc[p] = "idle"
  /\ ~started
  /\ calls < MaxCalls
  /\ started' = TRUE
  /\ calls' = calls + 1
  /\ startFailed' \in BOOLEAN
  /\ pc' = [pc EXCEPT ![p] = IF startFailed' THEN "returned" ELSE "reset"]
  /\ frame' = [frame EXCEPT ![p].after = "returned"]
  /\ UNCHANGED <<ret, isConnected, instanceIndex, backgroundErrors, holderVars,
                 elapsed, connString, emitted>>

Returned(p) ==
  /\ pc[p] = "returned"
  /\ Return(p, NoResult)
  /\ UNCHANGED <<holderVars, stateVars, elapsed, worldVars>>

Conn(p) ==
  /\ pc[p] = "idle"
  /\ started
  /\ calls < MaxCalls
  /\ calls' = calls + 1
  /\ pc' = [pc EXCEPT ![p] = "deque"]
  /\ ret' = [ret EXCEPT ![p] = NoResult]
  /\ UNCHANGED <<frame, holderVars, stateVars, elapsed, worldVars>>

DequeBackgroundException(p) ==
  /\ pc[p] = "deque"
  /\ \/ /\ backgroundErrors > 0
        /\ backgroundErrors' = backgroundErrors - 1
        /\ Return(p, ErrResult)
     \/ backgroundErrors = 0 /\ Goto(p, "check") /\ UNCHANGED backgroundErrors
  /\ UNCHANGED <<started, isConnected, instanceIndex, holderVars, elapsed,
                 worldVars>>

CheckConnected(p) ==
  /\ pc[p] = "check"
  /\ Goto(p, IF isConnected THEN "get" ELSE "timeout")
  /\ UNCHANGED <<holderVars, stateVars, elapsed, worldVars>>

CheckTimeout(p) ==
  /\ pc[p] = "timeout"
  /\ \/ elapsed = 0 /\ Goto(p, "get")
     \/ /\ elapsed > 0 /\ HasNewConnectionString
        /\ GotoWith(p, "reset", [frame[p] EXCEPT !.after = "handled"])
     \/ /\ elapsed = 2 /\ ~HasNewConnectionString
        /\ GotoWith(p, "reset", [frame[p] EXCEPT !.after = "timedOut"])
     \/ elapsed = 1 /\ ~HasNewConnectionString /\ Return(p, ErrResult)
  /\ UNCHANGED <<holderVars, stateVars, elapsed, worldVars>>

TimedOut(p) ==
  /\ pc[p] = "timedOut"
  /\ IF frame[p].err THEN Return(p, ErrResult) ELSE Goto(p, "get")
  /\ UNCHANGED <<holderVars, stateVars, elapsed, worldVars>>

\* Mutant of Get: a factory gives no connection instead of dialling.
GetEvenFromFactory(p) ==
  /\ pc[p] = "get"
  /\ Return(p, IF helper = Factory THEN Nil ELSE helper)
  /\ UNCHANGED <<holderVars, stateVars, elapsed, worldVars>>

\* getZookeeperConnection; a helper that is nil gives no connection, no error.
Get(p) ==
  /\ pc[p] = "get"
  /\ \/ helper = Factory /\ GotoWith(p, "dial", [frame[p] EXCEPT !.then = "get"])
     \/ helper # Factory /\ Return(p, helper)
  /\ UNCHANGED <<holderVars, stateVars, elapsed, worldVars>>

Close(p) ==
  /\ pc[p] = "idle"
  /\ calls < MaxCalls
  /\ started' = FALSE
  /\ calls' = calls + 1
  /\ pc' = [pc EXCEPT ![p] = "clear"]
  /\ UNCHANGED <<frame, ret, isConnected, instanceIndex, backgroundErrors,
                 holderVars, elapsed, worldVars>>

Unset(p) ==
  /\ pc[p] = "unset"
  /\ isConnected' = FALSE
  /\ Return(p, NoResult)
  /\ UNCHANGED <<started, instanceIndex, backgroundErrors, holderVars, elapsed,
                 worldVars>>

-----------------------------------------------------------------------------
(* The zookeeper library, the ensemble and time                             *)

SessionEvent(c, from, to, event) ==
  /\ c \in open
  /\ emitted < MaxEvents
  /\ emitted' = emitted + 1
  /\ session[c] \in from
  /\ session' = [session EXCEPT ![c] = to]
  /\ inflight' = inflight \cup {event}
  /\ UNCHANGED <<helper, dials, open, dialled, stateVars, elapsed, connString,
                 startFailed, procVars>>

SessionUp(c) == SessionEvent(c, {"connecting", "down", "expired"}, "up", "HasSession")

SessionDown(c) == SessionEvent(c, {"up"}, "down", "Disconnected")

SessionExpires(c) == SessionEvent(c, {"down"}, "expired", "Expired")

ChangeConnectionString ==
  /\ connString < MaxChanges
  /\ connString' = connString + 1
  /\ UNCHANGED <<holderVars, stateVars, elapsed, emitted, startFailed, procVars>>

Tick ==
  /\ elapsed < 2
  /\ elapsed' = elapsed + 1
  /\ UNCHANGED <<holderVars, stateVars, worldVars, procVars>>

Running(p) ==
  \/ CloseOld(p) \/ CloseConn(p) \/ NewFactory(p) \/ Dial(p) \/ Assign(p)
  \/ Clear(p) \/ ClearConn(p) \/ ClearHelper(p) \/ Unset(p)
  \/ Reset(p) \/ Initiate(p) \/ Handled(p) \/ Queue(p) \/ Drain(p)
  \/ Load(p) \/ CheckString(p) \/ SetConnected(p) \/ Stamp(p)
  \/ Returned(p) \/ DequeBackgroundException(p) \/ CheckConnected(p)
  \/ CheckTimeout(p) \/ TimedOut(p) \/ Get(p)

Next ==
  \/ \E p \in Procs : Running(p) \/ Process(p) \/ Start(p) \/ Conn(p) \/ Close(p)
  \/ \E c \in Conns : SessionUp(c) \/ SessionDown(c) \/ SessionExpires(c)
  \/ ChangeConnectionString
  \/ Tick

Spec == Init /\ [][Next]_vars

\* The Go scheduler runs every goroutine that can run, and starts one for every
\* event.
FairSpec ==
  /\ Spec
  /\ \A p \in Procs : WF_vars(Running(p)) /\ SF_vars(Process(p))

-----------------------------------------------------------------------------
(* Properties                                                               *)

Quiet == \A p \in Procs : pc[p] = "idle"

\* Between calls the holder knows every open connection: reset, which closes
\* what it finds and dials again, leaves none behind.
OneConnection == Quiet => open \subseteq {helper}

\* "CuratorFramework instances are fully thread-safe" (doc/framework.md:20):
\* however handlers and calls overlap, they do not leave two connections open.
ThreadSafe == Quiet => \A c, d \in open : c = d

\* Conn gives out the managed connection ("Return the managed ZK connection",
\* client.go:95), which is open, or an error.  It is nil without an error only
\* when the provider's Start has failed, which leaves the client started, and no
\* reset has come since.
ConnReturnsOpen ==
  [][\A p \in Procs :
       ret'[p] # ret[p] /\ ret'[p] \notin {NoResult, ErrResult} =>
         ret'[p] \in open \/ (ret'[p] = Nil /\ helper = Nil /\ startFailed)]_vars

\* When Close returns there is no open connection, even when the holder had a
\* factory, which closeAndClear leaves alone.
CloseCloses ==
  [][\A p \in Procs : pc[p] = "unset" /\ pc'[p] = "idle" => open = {}]_vars

\* A started client that says it is connected has an open connection: the late
\* HasSession of a connection that reset has closed does not hide that the new
\* dial failed, because checkState takes the factory for a changed string.  The
\* exception is a client without any helper whose provider's Start failed: a late
\* HasSession of before the Close is then believed.
ConnectedHasConnection ==
  Quiet /\ started /\ isConnected => helper \in open \/ (helper = Nil /\ startFailed)

\* A connection whose session has expired is replaced, or comes up again by
\* itself: handleExpiredSession closes it whatever happens to the new dial.
ExpiredIsReplaced ==
  \A c \in Conns : session[c] = "expired" ~> (c \notin open \/ session[c] = "up")

=============================================================================
