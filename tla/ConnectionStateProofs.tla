------------------------ MODULE ConnectionStateProofs ------------------------
(***************************************************************************)
(* The connection that connectionState manages, for any number of dials,   *)
(* events, calls and changes of the connection string. However the         *)
(* handlers of events and the calls of users overlap, the types hold. When *)
(* they do not overlap, no connection is left behind, what Conn returns is *)
(* open unless the ensemble provider failed to start, Close closes, and an *)
(* expired session is noticed (the conn_leak run shows what happens when   *)
(* they do overlap).                                                       *)
(***************************************************************************)
EXTENDS ConnectionState, TLAPS

\* Handlers and calls run one after the other, in whichever goroutines.
Serial == \A p, q \in Procs : pc[p] # "idle" /\ pc[q] # "idle" => p = q

Alone(p) == \A q \in Procs \ {p} : pc[q] = "idle"

Frames == [ev : SessionEvents \cup {"none"}, was : BOOLEAN, new : BOOLEAN, conn : Int,
           err : BOOLEAN, after : Labels, then : Labels]

Types ==
  /\ started \in BOOLEAN /\ isConnected \in BOOLEAN
  /\ dials \in 0 .. MaxDials
  /\ helper \in {Nil, Factory} \cup Conns
  /\ open \subseteq Conns
  /\ inflight \subseteq SessionEvents
  /\ pc \in [Procs -> Labels]
  /\ frame \in [Procs -> Frames]
  /\ ret \in [Procs -> Int]

Resetting == {"reset", "close", "closeConn", "factory", "initiate"}
Dialling  == {"dial", "assign"}
Closing   == {"clear", "clearConn", "clearHelper", "unset"}
Calling   == {"deque", "check", "timeout", "timedOut", "get", "returned"}
Handling  == {"load", "checkString", "set", "stamp"}

\* What the locals of a call are, by where it is.
ControlInv(p) ==
  /\ pc[p] = "idle" => frame[p] = NoFrame
  /\ pc[p] \in {"idle"} \cup Closing \cup Calling => frame[p].ev = "none"
  /\ pc[p] \in Handling => frame[p].ev # "none"
  /\ pc[p] \notin {"checkString", "set", "stamp"} => ~frame[p].new
  /\ pc[p] \in Dialling => frame[p].then \in {"closeConn", "reset", "get"}
  /\ pc[p] \in Dialling /\ frame[p].then = "get" => frame[p].ev = "none"
  /\ pc[p] \in Resetting \/ (pc[p] \in Dialling /\ frame[p].then # "get") =>
       /\ frame[p].after \in {"handled", "timedOut", "returned"}
       /\ frame[p].ev # "none" => frame[p].after = "handled"

\* Which connections are open, by where the one call in progress is.
OpenInv(p) ==
  /\ pc[p] \notin {"factory", "assign", "clearHelper"} => open \subseteq {helper}
  /\ pc[p] \in {"factory", "clearHelper", "unset"} => open = {}
  /\ pc[p] \in {"initiate", "dial", "assign"} => helper = Factory
  /\ pc[p] = "assign" => open = {frame[p].conn}
  /\ pc[p] \in {"closeConn", "clearConn"} => frame[p].conn = helper
  /\ pc[p] \notin {"factory", "clearHelper"} => helper \in {Nil, Factory} \cup open

\* A started client has a helper, except while reset makes one or when the provider
\* failed to start, and isConnected is not said of a factory.
ConnectedInv(p) ==
  /\ started /\ helper = Nil => startFailed \/ pc[p] \in {"reset", "close", "factory"}
  /\ pc[p] \in Closing => ~started
  /\ frame[p].ev = "none" /\ pc[p] \notin {"idle"} \cup Closing => started
  /\ helper = Factory => ~isConnected
  /\ pc[p] \in {"close", "closeConn", "factory"} => ~isConnected
  /\ pc[p] = "set" /\ frame[p].new => helper # Factory

IInv ==
  /\ Types
  /\ \A p \in Procs : ControlInv(p)
  /\ \A p \in Procs : Alone(p) => OpenInv(p) /\ ConnectedInv(p)

-----------------------------------------------------------------------------
(* What a step of one goroutine shows                                       *)

\* The other goroutines stay where they are, and the invariant holds of p.
Post(p) ==
  /\ Types'
  /\ \A q \in Procs \ {p} : pc'[q] = pc[q] /\ frame'[q] = frame[q]
  /\ ControlInv(p)' /\ OpenInv(p)' /\ ConnectedInv(p)'

\* A call, and no other, moves, with its locals as they are or as given.
Moved(p, label, locals) ==
  /\ pc' \in [Procs -> Labels] /\ frame' \in [Procs -> Frames] /\ ret' \in [Procs -> Int]
  /\ \A q \in Procs \ {p} : pc'[q] = pc[q] /\ frame'[q] = frame[q]
  /\ pc'[p] = label /\ frame'[p] = locals

LEMMA NoFrameType == NoFrame \in Frames
<1>1. Nil \in Int
  BY DEF Nil
<1> QED BY <1>1 DEF NoFrame, Frames, Labels

LEMMA GotoMoves ==
  ASSUME Types, NEW p \in Procs, NEW label \in Labels, Goto(p, label)
  PROVE  Moved(p, label, frame[p])
BY DEF Types, Goto, Moved

LEMMA GotoWithMoves ==
  ASSUME Types, NEW p \in Procs, NEW label \in Labels, NEW locals \in Frames,
         GotoWith(p, label, locals)
  PROVE  Moved(p, label, locals)
BY DEF Types, GotoWith, Moved

LEMMA ReturnMoves ==
  ASSUME Types, NEW p \in Procs, NEW result \in Int, Return(p, result)
  PROVE  Moved(p, "idle", NoFrame)
<1>1. pc' \in [Procs -> Labels] /\ pc'[p] = "idle"
  BY DEF Types, Return, Labels
<1>2. frame' \in [Procs -> Frames] /\ frame'[p] = NoFrame
  BY NoFrameType DEF Types, Return
<1>3. ret' \in [Procs -> Int]
  BY DEF Types, Return
<1>4. \A q \in Procs \ {p} : pc'[q] = pc[q] /\ frame'[q] = frame[q]
  BY DEF Types, Return
<1> QED BY <1>1, <1>2, <1>3, <1>4 DEF Moved

\* The call in progress is the only one.
LEMMA StepKeeps ==
  ASSUME IInv, Serial, Serial', NEW p \in Procs,
         pc[p] # "idle" \/ pc'[p] # "idle",
         \A q \in Procs \ {p} : pc'[q] = pc[q],
         Alone(p) => Post(p)
  PROVE  IInv'
<1>1. Alone(p)
  BY DEF Serial, Alone
<1>2. Post(p)
  BY <1>1
<1>3. ASSUME NEW q \in Procs, q # p
      PROVE  ControlInv(q)' /\ (Alone(q)' => OpenInv(q)' /\ ConnectedInv(q)')
  <2>1. pc'[q] = pc[q] /\ frame'[q] = frame[q] /\ ControlInv(q)
    BY <1>2, <1>3 DEF Post, IInv
  <2>2. ControlInv(q)'
    BY <2>1 DEF ControlInv
  <2>3. ASSUME Alone(q)' PROVE OpenInv(q)' /\ ConnectedInv(q)'
    <3>1. pc'[p] = "idle" /\ pc'[q] = "idle"
      BY <1>1, <1>3, <2>1, <2>3 DEF Alone
    <3>2. frame'[p] = frame'[q]
      BY <1>2, <2>2, <3>1 DEF Post, ControlInv
    <3> QED BY <1>2, <3>1, <3>2 DEF Post, OpenInv, ConnectedInv
  <2> QED BY <2>2, <2>3
<1>4. ControlInv(p)' /\ OpenInv(p)' /\ ConnectedInv(p)' /\ Types'
  BY <1>2 DEF Post
<1> QED BY <1>3, <1>4 DEF IInv

USE DEF Resetting, Dialling, Closing, Calling, Handling

LEMMA Distinct == Nil # Factory /\ Nil \notin Conns /\ Factory \notin Conns
BY ConnectionStateAssumption DEF Nil, Factory, Conns

LEMMA ConnType == \A c \in Conns : c \in Int
BY ConnectionStateAssumption DEF Conns

\* What is known of the one call in progress.
LEMMA Now ==
  ASSUME IInv, NEW p \in Procs, Alone(p)
  PROVE  /\ Types /\ frame[p] \in Frames
         /\ ControlInv(p) /\ OpenInv(p) /\ ConnectedInv(p)
BY DEF IInv, Types

\* The locals after an assignment to one of them
LEMMA Set ==
  ASSUME NEW f \in Frames
  PROVE  /\ \A x \in Int : [f EXCEPT !.conn = x] \in Frames
         /\ \A x \in Labels : [f EXCEPT !.then = x] \in Frames
         /\ \A x \in Labels : [f EXCEPT !.after = x] \in Frames
         /\ \A x \in BOOLEAN : [f EXCEPT !.err = x] \in Frames
         /\ \A x \in SessionEvents : [f EXCEPT !.ev = x] \in Frames
BY DEF Frames

LEMMA AfterMoves ==
  ASSUME Types, NEW p \in Procs, frame[p] \in Frames, NEW err \in BOOLEAN,
         frame[p].after \in {"handled", "timedOut", "returned"},
         GotoWith(p, frame[p].after, [frame[p] EXCEPT !.err = err])
  PROVE  Moved(p, frame[p].after, [frame[p] EXCEPT !.err = err])
<1>1. frame[p].after \in Labels
  BY DEF Labels
<1>2. [frame[p] EXCEPT !.err = err] \in Frames
  BY Set
<1> QED BY <1>1, <1>2, GotoWithMoves

\* A step that leaves the holder and isConnected alone
Leaves == UNCHANGED <<started, isConnected, startFailed, dials, helper, open, inflight>>

LEMMA LeavesPost ==
  ASSUME Types, Leaves, NEW p \in Procs, NEW label, NEW locals, Moved(p, label, locals),
         ControlInv(p)', OpenInv(p)', ConnectedInv(p)'
  PROVE  Post(p)
<1>1. Types'
  BY DEF Types, Moved, Leaves
<1> QED BY <1>1 DEF Post, Moved

\* A call returns; between calls the holder has a helper that is open or a factory,
\* if the client is started and its provider was.
LEMMA ReturnPost ==
  ASSUME Types, NEW p \in Procs, NEW result \in Int, Return(p, result),
         UNCHANGED <<dials, open, inflight>>,
         helper' \in {Nil, Factory} \cup Conns, {started', isConnected'} \subseteq BOOLEAN,
         open' \subseteq {helper'}, helper' \in {Nil, Factory} \cup open',
         started' => helper' # Nil \/ startFailed', helper' = Factory => ~isConnected'
  PROVE  Post(p)
<1>1. Moved(p, "idle", NoFrame)
  BY ReturnMoves
<1>2. Types'
  BY <1>1 DEF Types, Moved
<1>3. ControlInv(p)'
  BY <1>1 DEF ControlInv, Moved, NoFrame
<1>4. OpenInv(p)'
  BY <1>1 DEF OpenInv, Moved
<1>5. ConnectedInv(p)'
  BY <1>1 DEF ConnectedInv, Moved, NoFrame
<1> QED BY <1>1, <1>2, <1>3, <1>4, <1>5 DEF Post, Moved

-----------------------------------------------------------------------------
(* handleHolder                                                             *)

LEMMA CloseOldKeeps ==
  ASSUME IInv, NEW p \in Procs, Alone(p), CloseOld(p)
  PROVE  Post(p)
<1>1. /\ Types /\ frame[p] \in Frames
      /\ ControlInv(p) /\ OpenInv(p) /\ ConnectedInv(p)
  BY Now
<1>2. pc[p] = "close" /\ Leaves
  BY DEF CloseOld, holderVars, stateVars, worldVars, Leaves
<1>3. CASE helper = Nil /\ Goto(p, "factory")
  <2>1. Moved(p, "factory", frame[p])
    BY <1>1, <1>3, GotoMoves DEF Labels
  <2>2. ControlInv(p)'
    BY <1>1, <1>2, <2>1 DEF ControlInv, Moved
  <2>3. OpenInv(p)'
    BY <1>1, <1>2, <1>3, <2>1, Distinct DEF OpenInv, Leaves, Moved, Types
  <2>4. ConnectedInv(p)'
    BY <1>1, <1>2, <1>3, <2>1 DEF ConnectedInv, Leaves, Moved
  <2> QED BY <1>1, <1>2, <2>1, <2>2, <2>3, <2>4, LeavesPost
<1>4. CASE helper = Factory /\ GotoWith(p, "dial", [frame[p] EXCEPT !.then = "closeConn"])
  <2>1. Moved(p, "dial", [frame[p] EXCEPT !.then = "closeConn"])
    BY Zenon, <1>1, <1>4, GotoWithMoves, Set DEF Labels
  <2>2. ControlInv(p)'
    BY <1>1, <1>2, <2>1 DEF ControlInv, Moved, Frames
  <2>3. OpenInv(p)'
    BY <1>1, <1>2, <1>4, <2>1 DEF OpenInv, Leaves, Moved, Frames
  <2>4. ConnectedInv(p)'
    BY <1>1, <1>2, <1>4, <2>1, Distinct DEF ConnectedInv, Leaves, Moved, Frames
  <2> QED BY <1>1, <1>2, <2>1, <2>2, <2>3, <2>4, LeavesPost
<1>5. CASE helper \in Conns /\ GotoWith(p, "closeConn", [frame[p] EXCEPT !.conn = helper])
  <2>1. Moved(p, "closeConn", [frame[p] EXCEPT !.conn = helper])
    BY Zenon, <1>1, <1>5, ConnType, GotoWithMoves, Set DEF Labels
  <2>2. ControlInv(p)'
    BY <1>1, <1>2, <2>1 DEF ControlInv, Moved, Frames
  <2>3. OpenInv(p)'
    BY <1>1, <1>2, <1>5, <2>1 DEF OpenInv, Leaves, Moved, Frames
  <2>4. ConnectedInv(p)'
    BY <1>1, <1>2, <1>5, <2>1, Distinct DEF ConnectedInv, Leaves, Moved, Frames
  <2> QED BY <1>1, <1>2, <2>1, <2>2, <2>3, <2>4, LeavesPost
<1> QED BY <1>3, <1>4, <1>5 DEF CloseOld

\* The library closes one connection.
LEMMA Closed ==
  ASSUME Types, NEW c, CloseConnection(c)
  PROVE  open' = open \ {c} /\ inflight' \subseteq SessionEvents
BY Zenon DEF Types, CloseConnection, SessionEvents

LEMMA CloseConnKeeps ==
  ASSUME IInv, NEW p \in Procs, Alone(p), CloseConn(p)
  PROVE  Post(p)
<1>1. /\ Types /\ frame[p] \in Frames
      /\ ControlInv(p) /\ OpenInv(p) /\ ConnectedInv(p)
  BY Now
<1>2. pc[p] = "closeConn" /\ UNCHANGED <<started, isConnected, dials, helper>>
  BY DEF CloseConn, stateVars
<1>3. open' = {} /\ inflight' \subseteq SessionEvents
  BY <1>1, <1>2, Closed DEF CloseConn, OpenInv
<1>4. Moved(p, "factory", frame[p])
  BY <1>1, GotoMoves DEF CloseConn, Labels
<1>5. Types'
  BY <1>1, <1>2, <1>3, <1>4 DEF Types, Moved
<1>6. ControlInv(p)'
  BY <1>1, <1>2, <1>4 DEF ControlInv, Moved
<1>7. OpenInv(p)'
  BY <1>3, <1>4 DEF OpenInv, Moved
<1>8. ConnectedInv(p)'
  BY Zenon, <1>1, <1>2, <1>4 DEF ConnectedInv, Moved
<1> QED BY <1>4, <1>5, <1>6, <1>7, <1>8 DEF Post, Moved

LEMMA NewFactoryKeeps ==
  ASSUME IInv, NEW p \in Procs, Alone(p), NewFactory(p)
  PROVE  Post(p)
<1>1. /\ Types /\ frame[p] \in Frames
      /\ ControlInv(p) /\ OpenInv(p) /\ ConnectedInv(p)
  BY Now
<1>2. /\ pc[p] = "factory" /\ helper' = Factory
      /\ UNCHANGED <<started, isConnected, dials, open, inflight>>
  BY DEF NewFactory, stateVars
<1>3. Moved(p, "initiate", frame[p])
  BY <1>1, GotoMoves DEF NewFactory, Labels
<1>4. Types'
  BY <1>1, <1>2, <1>3 DEF Types, Moved
<1>5. ControlInv(p)'
  BY <1>1, <1>2, <1>3 DEF ControlInv, Moved
<1>6. OpenInv(p)'
  BY <1>1, <1>2, <1>3 DEF OpenInv, Moved
<1>7. ConnectedInv(p)'
  BY <1>1, <1>2, <1>3, Distinct DEF ConnectedInv, Moved
<1> QED BY Zenon, <1>3, <1>4, <1>5, <1>6, <1>7 DEF Post, Moved

\* A connection is made, or the caller of Dial gets an error.
LEMMA DialKeeps ==
  ASSUME IInv, NEW p \in Procs, Alone(p), Dial(p)
  PROVE  Post(p)
<1>1. /\ Types /\ frame[p] \in Frames
      /\ ControlInv(p) /\ OpenInv(p) /\ ConnectedInv(p)
  BY Now
<1>2. pc[p] = "dial" /\ UNCHANGED <<started, isConnected, helper, inflight>>
  BY DEF Dial, stateVars
<1>3. helper = Factory /\ open = {} /\ ~isConnected /\ started \in BOOLEAN
  BY <1>1, <1>2, Distinct DEF OpenInv, ConnectedInv, Types
<1>4. CASE /\ dials < MaxDials /\ dials' = dials + 1 /\ open' = open \cup {dials'}
           /\ GotoWith(p, "assign", [frame[p] EXCEPT !.conn = dials'])
  <2>1. dials' \in Conns /\ dials' \in 0 .. MaxDials /\ dials' \in Int
    BY <1>1, <1>4, ConnectionStateAssumption DEF Types, Conns
  <2>2. Moved(p, "assign", [frame[p] EXCEPT !.conn = dials'])
    BY Zenon, <1>1, <1>4, <2>1, GotoWithMoves, Set DEF Labels
  <2>3. Types'
    BY <1>1, <1>2, <1>3, <1>4, <2>1, <2>2 DEF Types, Moved
  <2>4. ControlInv(p)'
    BY <1>1, <1>2, <2>2 DEF ControlInv, Moved, Frames
  <2>5. OpenInv(p)'
    BY <1>2, <1>3, <1>1, <1>4, <2>2 DEF OpenInv, Moved, Frames
  <2>6. ConnectedInv(p)'
    BY <1>1, <1>2, <1>3, <2>2, Distinct DEF ConnectedInv, Moved, Frames
  <2> QED BY <2>2, <2>3, <2>4, <2>5, <2>6 DEF Post, Moved
<1>5. CASE frame[p].then = "closeConn" /\ Goto(p, "initiate") /\ UNCHANGED <<dials, open>>
  <2>1. Moved(p, "initiate", frame[p])
    BY <1>1, <1>5, GotoMoves DEF Labels
  <2>2. Types'
    BY <1>1, <1>2, <1>5, <2>1 DEF Types, Moved
  <2>3. ControlInv(p)'
    BY Zenon, <1>1, <1>2, <1>5, <2>1 DEF ControlInv, Moved
  <2>4. OpenInv(p)'
    BY <1>2, <1>3, <1>5, <2>1 DEF OpenInv, Moved
  <2>5. ConnectedInv(p)'
    BY Zenon, <1>1, <1>2, <1>3, <2>1, Distinct DEF ConnectedInv, Moved
  <2> QED BY <2>1, <2>2, <2>3, <2>4, <2>5 DEF Post, Moved
<1>6. CASE /\ frame[p].then = "reset" /\ UNCHANGED <<dials, open>>
           /\ GotoWith(p, frame[p].after, [frame[p] EXCEPT !.err = TRUE])
  <2>1. frame[p].after \in {"handled", "timedOut", "returned"}
    BY <1>1, <1>2, <1>6 DEF ControlInv
  <2>2. Moved(p, frame[p].after, [frame[p] EXCEPT !.err = TRUE])
    BY Zenon, <1>1, <1>6, <2>1, AfterMoves
  <2>3. Types'
    BY <1>1, <1>2, <1>6, <2>2 DEF Types, Moved
  <2>4. ControlInv(p)'
    BY <1>1, <1>2, <1>6, <2>1, <2>2 DEF ControlInv, Moved, Frames
  <2>5. OpenInv(p)'
    BY <1>2, <1>3, <1>6, <2>1, <2>2 DEF OpenInv, Moved
  <2>6. ConnectedInv(p)'
    BY <1>1, <1>2, <1>3, <2>1, <2>2, Distinct DEF ConnectedInv, Moved, Frames
  <2> QED BY <2>2, <2>3, <2>4, <2>5, <2>6 DEF Post, Moved
<1>7. CASE frame[p].then = "get" /\ Return(p, ErrResult) /\ UNCHANGED <<dials, open>>
  <2>1. ErrResult \in Int /\ isConnected \in BOOLEAN
    BY <1>1 DEF ErrResult, Types
  <2> QED BY <1>1, <1>2, <1>3, <1>7, <2>1, Distinct, ReturnPost
<1> QED BY <1>4, <1>5, <1>6, <1>7 DEF Dial

\* The new connection becomes the helper.
LEMMA AssignKeeps ==
  ASSUME IInv, NEW p \in Procs, Alone(p), Assign(p)
  PROVE  Post(p)
<1>1. /\ Types /\ frame[p] \in Frames
      /\ ControlInv(p) /\ OpenInv(p) /\ ConnectedInv(p)
  BY Now
<1>2. /\ pc[p] = "assign" /\ helper' = frame[p].conn
      /\ UNCHANGED <<started, isConnected, dials, open, inflight>>
  BY DEF Assign, stateVars
<1>3. /\ open = {frame[p].conn} /\ frame[p].conn \in Conns /\ frame[p].conn \in Int
      /\ ~isConnected /\ started \in BOOLEAN /\ isConnected \in BOOLEAN
  BY <1>1, <1>2, ConnType DEF OpenInv, ConnectedInv, Types
<1>4. CASE frame[p].then = "closeConn" /\ Goto(p, "closeConn")
  <2>1. Moved(p, "closeConn", frame[p])
    BY <1>1, <1>4, GotoMoves DEF Labels
  <2>2. Types'
    BY <1>1, <1>2, <1>3, <2>1 DEF Types, Moved
  <2>3. ControlInv(p)'
    BY Zenon, <1>1, <1>2, <1>4, <2>1 DEF ControlInv, Moved
  <2>4. OpenInv(p)'
    BY Zenon, <1>2, <1>3, <2>1 DEF OpenInv, Moved
  <2>5. ConnectedInv(p)'
    BY Zenon, <1>1, <1>2, <1>3, <2>1, Distinct DEF ConnectedInv, Moved
  <2> QED BY <2>1, <2>2, <2>3, <2>4, <2>5 DEF Post, Moved
<1>5. CASE /\ frame[p].then = "reset"
           /\ GotoWith(p, frame[p].after, [frame[p] EXCEPT !.err = FALSE])
  <2>1. frame[p].after \in {"handled", "timedOut", "returned"}
    BY <1>1, <1>2, <1>5 DEF ControlInv
  <2>2. Moved(p, frame[p].after, [frame[p] EXCEPT !.err = FALSE])
    BY Zenon, <1>1, <1>5, <2>1, AfterMoves
  <2>3. Types'
    BY <1>1, <1>2, <1>3, <2>2 DEF Types, Moved
  <2>4. ControlInv(p)'
    BY <1>1, <1>2, <1>5, <2>1, <2>2 DEF ControlInv, Moved, Frames
  <2>5. OpenInv(p)'
    BY <1>2, <1>3, <2>1, <2>2 DEF OpenInv, Moved
  <2>6. ConnectedInv(p)'
    BY <1>1, <1>2, <1>3, <2>1, <2>2, Distinct DEF ConnectedInv, Moved, Frames
  <2> QED BY <2>2, <2>3, <2>4, <2>5, <2>6 DEF Post, Moved
<1>6. CASE frame[p].then = "get" /\ Return(p, frame[p].conn)
  BY <1>1, <1>2, <1>3, <1>6, Distinct, ReturnPost
<1> QED BY <1>4, <1>5, <1>6 DEF Assign

LEMMA ClearKeeps ==
  ASSUME IInv, NEW p \in Procs, Alone(p), Clear(p)
  PROVE  Post(p)
<1>1. /\ Types /\ frame[p] \in Frames
      /\ ControlInv(p) /\ OpenInv(p) /\ ConnectedInv(p)
  BY Now
<1>2. pc[p] = "clear" /\ Leaves
  BY DEF Clear, holderVars, stateVars, worldVars, Leaves
<1>3. ASSUME NEW label \in {"unset", "clearHelper"}, helper \notin Conns, Goto(p, label)
      PROVE  Post(p)
  <2>1. Moved(p, label, frame[p])
    BY <1>1, <1>3, GotoMoves DEF Labels
  <2>2. ControlInv(p)'
    BY Zenon, <1>1, <1>2, <1>3, <2>1 DEF ControlInv, Moved
  <2>3. OpenInv(p)'
    BY Zenon, <1>1, <1>2, <1>3, <2>1, Distinct DEF OpenInv, Leaves, Moved, Types
  <2>4. ConnectedInv(p)'
    BY Zenon, <1>1, <1>2, <1>3, <2>1 DEF ConnectedInv, Leaves, Moved
  <2> QED BY Zenon, <1>1, <1>2, <2>1, <2>2, <2>3, <2>4, LeavesPost
<1>4. CASE helper \in Conns /\ GotoWith(p, "clearConn", [frame[p] EXCEPT !.conn = helper])
  <2>1. Moved(p, "clearConn", [frame[p] EXCEPT !.conn = helper])
    BY Zenon, <1>1, <1>4, ConnType, GotoWithMoves, Set DEF Labels
  <2>2. ControlInv(p)'
    BY <1>1, <1>2, <2>1 DEF ControlInv, Moved, Frames
  <2>3. OpenInv(p)'
    BY <1>1, <1>2, <1>4, <2>1 DEF OpenInv, Leaves, Moved, Frames
  <2>4. ConnectedInv(p)'
    BY <1>1, <1>2, <1>4, <2>1, Distinct DEF ConnectedInv, Leaves, Moved, Frames
  <2> QED BY <1>1, <1>2, <2>1, <2>2, <2>3, <2>4, LeavesPost
<1> QED BY <1>3, <1>4, Distinct DEF Clear

LEMMA ClearConnKeeps ==
  ASSUME IInv, NEW p \in Procs, Alone(p), ClearConn(p)
  PROVE  Post(p)
<1>1. /\ Types /\ frame[p] \in Frames
      /\ ControlInv(p) /\ OpenInv(p) /\ ConnectedInv(p)
  BY Now
<1>2. pc[p] = "clearConn" /\ UNCHANGED <<started, isConnected, dials, helper>>
  BY DEF ClearConn, stateVars
<1>3. open' = {} /\ inflight' \subseteq SessionEvents
  BY <1>1, <1>2, Closed DEF ClearConn, OpenInv
<1>4. Moved(p, "clearHelper", frame[p])
  BY Zenon, <1>1, GotoMoves DEF ClearConn, Labels
<1>5. Types'
  BY <1>1, <1>2, <1>3, <1>4 DEF Types, Moved
<1>6. ControlInv(p)'
  BY <1>1, <1>2, <1>4 DEF ControlInv, Moved
<1>7. OpenInv(p)'
  BY <1>3, <1>4 DEF OpenInv, Moved
<1>8. ConnectedInv(p)'
  BY <1>1, <1>2, <1>4 DEF ConnectedInv, Moved
<1> QED BY <1>4, <1>5, <1>6, <1>7, <1>8 DEF Post, Moved

LEMMA ClearHelperKeeps ==
  ASSUME IInv, NEW p \in Procs, Alone(p), ClearHelper(p)
  PROVE  Post(p)
<1>1. /\ Types /\ frame[p] \in Frames
      /\ ControlInv(p) /\ OpenInv(p) /\ ConnectedInv(p)
  BY Now
<1>2. /\ pc[p] = "clearHelper" /\ helper' = Nil
      /\ UNCHANGED <<started, isConnected, dials, open, inflight>>
  BY DEF ClearHelper, stateVars
<1>3. Moved(p, "unset", frame[p])
  BY <1>1, GotoMoves DEF ClearHelper, Labels
<1>4. Types'
  BY <1>1, <1>2, <1>3 DEF Types, Moved
<1>5. ControlInv(p)'
  BY Zenon, <1>1, <1>2, <1>3 DEF ControlInv, Moved
<1>6. OpenInv(p)'
  BY Zenon, <1>1, <1>2, <1>3 DEF OpenInv, Moved
<1>7. ConnectedInv(p)'
  BY Zenon, <1>1, <1>2, <1>3, Distinct DEF ConnectedInv, Moved
<1> QED BY Zenon, <1>3, <1>4, <1>5, <1>6, <1>7 DEF Post, Moved

\* Between calls, and in a call that does not touch the holder
LEMMA Steady ==
  ASSUME IInv, NEW p \in Procs, Alone(p),
         pc[p] \in {"idle", "unset"} \cup Handling \cup Calling
  PROVE  /\ helper \in {Nil, Factory} \cup Conns /\ {started, isConnected} \subseteq BOOLEAN
         /\ open \subseteq {helper} /\ helper \in {Nil, Factory} \cup open
         /\ started => helper # Nil \/ startFailed
         /\ helper = Factory => ~isConnected
<1>1. Types /\ OpenInv(p) /\ ConnectedInv(p)
  BY Zenon, Now
<1> QED BY <1>1 DEF Types, OpenInv, ConnectedInv

LEMMA UnsetKeeps ==
  ASSUME IInv, NEW p \in Procs, Alone(p), Unset(p)
  PROVE  Post(p)
<1>1. Types /\ pc[p] = "unset" /\ isConnected' = FALSE /\ Return(p, NoResult)
  BY Zenon, Now DEF Unset
<1>2. UNCHANGED <<helper, started, startFailed, dials, open, inflight>> /\ NoResult \in Int
  BY DEF Unset, holderVars, worldVars, NoResult
<1> QED BY Zenon, <1>1, <1>2, Steady, ReturnPost

-----------------------------------------------------------------------------
(* connectionState.reset and the handlers                                   *)

LEMMA ResetKeeps ==
  ASSUME IInv, NEW p \in Procs, Alone(p), Reset(p)
  PROVE  Post(p)
<1>1. /\ Types /\ frame[p] \in Frames
      /\ ControlInv(p) /\ OpenInv(p) /\ ConnectedInv(p)
  BY Now
<1>2. /\ pc[p] = "reset" /\ isConnected' = FALSE
      /\ UNCHANGED <<started, dials, helper, open, inflight>>
  BY DEF Reset, holderVars
<1>3. Moved(p, "close", frame[p])
  BY <1>1, GotoMoves DEF Reset, Labels
<1>4. Types'
  BY Zenon, <1>1, <1>2, <1>3 DEF Types, Moved
<1>5. ControlInv(p)'
  BY Zenon, <1>1, <1>2, <1>3 DEF ControlInv, Moved
<1>6. OpenInv(p)'
  BY Zenon, <1>1, <1>2, <1>3 DEF OpenInv, Moved
<1>7. ConnectedInv(p)'
  BY Zenon, <1>1, <1>2, <1>3 DEF ConnectedInv, Moved
<1> QED BY Zenon, <1>3, <1>4, <1>5, <1>6, <1>7 DEF Post, Moved

\* reset goes on with a factory, which no other call has replaced.
LEMMA InitiateKeeps ==
  ASSUME IInv, NEW p \in Procs, Alone(p), Initiate(p)
  PROVE  Post(p)
<1>1. /\ Types /\ frame[p] \in Frames
      /\ ControlInv(p) /\ OpenInv(p) /\ ConnectedInv(p)
  BY Now
<1>2. pc[p] = "initiate" /\ Leaves
  BY DEF Initiate, holderVars, stateVars, worldVars, Leaves
<1>3. helper = Factory
  BY <1>1, <1>2 DEF OpenInv
<1>4. Moved(p, "dial", [frame[p] EXCEPT !.then = "reset"])
  BY Zenon, <1>1, <1>3, GotoWithMoves, Set DEF Initiate, Labels
<1>5. ControlInv(p)'
  BY <1>1, <1>2, <1>4 DEF ControlInv, Moved, Frames
<1>6. OpenInv(p)'
  BY <1>1, <1>2, <1>3, <1>4 DEF OpenInv, Leaves, Moved
<1>7. ConnectedInv(p)'
  BY <1>1, <1>2, <1>3, <1>4, Distinct DEF ConnectedInv, Leaves, Moved, Frames
<1> QED BY <1>1, <1>2, <1>4, <1>5, <1>6, <1>7, LeavesPost

\* A call goes on to its next test.
LEMMA GotoPost ==
  ASSUME IInv, NEW p \in Procs, Alone(p), Leaves,
         pc[p] \in {"handled", "queue", "drain", "checkString"} \cup Calling,
         NEW label \in {"queue", "drain", "set", "check", "timeout", "get"},
         label \in {"queue", "drain"} => pc[p] \in {"handled", "queue", "drain"},
         label = "set" => frame[p].ev # "none" /\ (frame[p].new => helper # Factory),
         label \in {"check", "timeout", "get"} => frame[p].ev = "none",
         frame[p].new => label = "set",
         Goto(p, label)
  PROVE  Post(p)
<1>1. /\ Types /\ frame[p] \in Frames
      /\ ControlInv(p) /\ OpenInv(p) /\ ConnectedInv(p)
  BY Zenon, Now
<1>2. Moved(p, label, frame[p])
  <2>1. label \in Labels
    BY DEF Labels
  <2> QED BY Zenon, <1>1, <2>1, GotoMoves
<1>3. ControlInv(p)'
  BY Zenon, <1>1, <1>2 DEF ControlInv, Moved
<1>4. OpenInv(p)'
  BY Zenon, <1>1, <1>2 DEF OpenInv, Leaves, Moved
<1>5. ConnectedInv(p)'
  BY Zenon, <1>1, <1>2 DEF ConnectedInv, Leaves, Moved
<1> QED BY Zenon, <1>1, <1>2, <1>3, <1>4, <1>5, LeavesPost

LEMMA HandledKeeps ==
  ASSUME IInv, NEW p \in Procs, Alone(p), Handled(p) \/ Queue(p) \/ Drain(p)
  PROVE  Post(p)
<1>1. ControlInv(p) /\ pc[p] \in {"handled", "queue", "drain"} /\ Leaves
  BY Now DEF Handled, Queue, Drain, holderVars, stateVars, worldVars, Leaves
<1>2. ~frame[p].new
  BY Zenon, <1>1 DEF ControlInv
<1>3. PICK label \in {"queue", "drain", "set", "get"} :
        /\ Goto(p, label)
        /\ label = "set" => frame[p].ev # "none"
        /\ label = "get" => frame[p].ev = "none"
  BY DEF Handled, Queue, Drain
<1> QED BY Zenon, <1>1, <1>2, <1>3, GotoPost

\* An event of the session, or a call that finds the connection string changed or
\* the time run out, resets the connection.
LEMMA ResetPost ==
  ASSUME IInv, NEW p \in Procs, Alone(p), Leaves,
         pc[p] \in {"load", "checkString", "timeout"}, NEW locals \in Frames,
         locals.ev = frame[p].ev, ~locals.new,
         locals.after \in {"handled", "timedOut"},
         frame[p].ev # "none" => locals.after = "handled",
         GotoWith(p, "reset", locals)
  PROVE  Post(p)
<1>1. Types /\ ControlInv(p) /\ OpenInv(p) /\ ConnectedInv(p)
  BY Now
<1>2. Moved(p, "reset", locals)
  <2>1. "reset" \in Labels
    BY DEF Labels
  <2> QED BY <1>1, <2>1, GotoWithMoves
<1>3. ControlInv(p)'
  BY Zenon, <1>1, <1>2 DEF ControlInv, Moved
<1>4. OpenInv(p)'
  BY Zenon, <1>1, <1>2 DEF OpenInv, Leaves, Moved
<1>5. ConnectedInv(p)'
  BY Zenon, <1>1, <1>2 DEF ConnectedInv, Leaves, Moved
<1> QED BY Zenon, <1>1, <1>2, <1>3, <1>4, <1>5, LeavesPost

LEMMA LoadKeeps ==
  ASSUME IInv, NEW p \in Procs, Alone(p), Load(p)
  PROVE  Post(p)
<1>1. /\ Types /\ frame[p] \in Frames /\ isConnected \in BOOLEAN
      /\ ControlInv(p) /\ OpenInv(p) /\ ConnectedInv(p)
  BY Now DEF Types
<1>2. pc[p] = "load" /\ Leaves
  BY DEF Load, holderVars, stateVars, worldVars, Leaves
<1>3. frame[p].ev # "none" /\ ~frame[p].new
  BY <1>1, <1>2 DEF ControlInv
<1>4. CASE frame[p].ev = "Expired"
  <2> DEFINE f == [frame[p] EXCEPT !.was = isConnected, !.after = "handled"]
  <2>1. f \in Frames /\ f.ev = frame[p].ev /\ ~f.new /\ f.after = "handled"
    BY Zenon, <1>1, <1>3 DEF Frames, Labels
  <2>2. GotoWith(p, "reset", f)
    BY <1>4 DEF Load
  <2> HIDE DEF f
  <2> QED BY Zenon, <1>2, <2>1, <2>2, ResetPost
<1>5. CASE frame[p].ev # "Expired"
  <2> DEFINE f == [frame[p] EXCEPT !.was = isConnected,
                                   !.new = (frame[p].ev = "HasSession")]
  <2>1. f \in Frames /\ f.ev = frame[p].ev
    BY Zenon, <1>1 DEF Frames
  <2>2. GotoWith(p, "checkString", f)
    BY <1>5 DEF Load
  <2> HIDE DEF f
  <2>3. Moved(p, "checkString", f)
    BY <1>1, <2>1, <2>2, GotoWithMoves DEF Labels
  <2>4. ControlInv(p)'
    BY Zenon, <1>3, <2>1, <2>3 DEF ControlInv, Moved
  <2>5. OpenInv(p)'
    BY Zenon, <1>1, <1>2, <2>3 DEF OpenInv, Leaves, Moved
  <2>6. ConnectedInv(p)'
    BY Zenon, <1>1, <1>2, <1>3, <2>1, <2>3 DEF ConnectedInv, Leaves, Moved
  <2> QED BY <1>1, <1>2, <2>3, <2>4, <2>5, <2>6, LeavesPost
<1> QED BY <1>4, <1>5

\* checkState takes a factory for a new connection string.
LEMMA CheckStringKeeps ==
  ASSUME IInv, NEW p \in Procs, Alone(p), CheckString(p)
  PROVE  Post(p)
<1>1. /\ Types /\ frame[p] \in Frames
      /\ ControlInv(p) /\ OpenInv(p) /\ ConnectedInv(p)
  BY Now
<1>2. pc[p] = "checkString" /\ Leaves
  BY DEF CheckString, holderVars, stateVars, worldVars, Leaves
<1>3. frame[p].ev # "none"
  BY Zenon, <1>1, <1>2 DEF ControlInv
<1>4. CASE HasNewConnectionString
  <2> DEFINE f == [frame[p] EXCEPT !.new = FALSE, !.after = "handled"]
  <2>1. f \in Frames /\ f.ev = frame[p].ev /\ ~f.new /\ f.after = "handled"
    BY Zenon, <1>1 DEF Frames, Labels
  <2>2. GotoWith(p, "reset", f)
    BY <1>4 DEF CheckString
  <2> HIDE DEF f
  <2> QED BY Zenon, <1>2, <2>1, <2>2, ResetPost
<1>5. CASE ~HasNewConnectionString
  <2>1. Goto(p, "set") /\ helper # Factory
    BY <1>5 DEF CheckString, HasNewConnectionString
  <2> QED BY <1>2, <1>3, <2>1, GotoPost
<1> QED BY <1>4, <1>5

LEMMA SetConnectedKeeps ==
  ASSUME IInv, NEW p \in Procs, Alone(p), SetConnected(p)
  PROVE  Post(p)
<1>1. /\ Types /\ frame[p] \in Frames
      /\ ControlInv(p) /\ OpenInv(p) /\ ConnectedInv(p)
  BY Now
<1>2. pc[p] = "set" /\ UNCHANGED <<started, startFailed, dials, helper, open, inflight>>
  BY DEF SetConnected, holderVars, worldVars
<1>3. CASE isConnected' = frame[p].new /\ Goto(p, "stamp")
  <2>1. Moved(p, "stamp", frame[p])
    BY <1>1, <1>3, GotoMoves DEF Labels
  <2>2. frame[p].new \in BOOLEAN
    BY <1>1 DEF Frames
  <2>3. Types'
    BY <1>1, <1>2, <1>3, <2>1, <2>2 DEF Types, Moved
  <2>4. ControlInv(p)'
    BY Zenon, <1>1, <1>2, <2>1 DEF ControlInv, Moved
  <2>5. OpenInv(p)'
    BY Zenon, <1>1, <1>2, <2>1 DEF OpenInv, Moved
  <2>6. ConnectedInv(p)'
    BY Zenon, <1>1, <1>2, <1>3, <2>1 DEF ConnectedInv, Moved
  <2> QED BY <2>1, <2>3, <2>4, <2>5, <2>6 DEF Post, Moved
<1>4. CASE Return(p, NoResult) /\ UNCHANGED isConnected
  <2>1. NoResult \in Int
    BY DEF NoResult
  <2> QED BY Zenon, <1>1, <1>2, <1>4, <2>1, Steady, ReturnPost
<1> QED BY Zenon, <1>3, <1>4 DEF SetConnected

-----------------------------------------------------------------------------
(* Start, Conn and Close of the client                                      *)

LEMMA LeavesReturn ==
  ASSUME IInv, NEW p \in Procs, Alone(p), Leaves, pc[p] \in Handling \cup Calling,
         NEW result \in Int, Return(p, result)
  PROVE  Post(p)
<1>1. Types /\ UNCHANGED <<started, isConnected, startFailed, dials, helper, open, inflight>>
  BY Now DEF Leaves
<1> QED BY <1>1, Steady, ReturnPost

LEMMA ReturnedKeeps ==
  ASSUME IInv, NEW p \in Procs, Alone(p), Stamp(p) \/ Returned(p)
  PROVE  Post(p)
<1>1. pc[p] \in {"stamp", "returned"} /\ Leaves /\ NoResult \in Int /\ Return(p, NoResult)
  BY DEF Stamp, Returned, holderVars, stateVars, worldVars, Leaves, NoResult
<1> QED BY <1>1, LeavesReturn

\* The tests that Conn makes before it gets the connection
LEMMA TestsKeep ==
  ASSUME IInv, NEW p \in Procs, Alone(p),
         DequeBackgroundException(p) \/ CheckConnected(p) \/ CheckTimeout(p) \/ TimedOut(p)
  PROVE  Post(p)
<1>1. /\ pc[p] \in {"deque", "check", "timeout", "timedOut"} /\ Leaves
      /\ ControlInv(p) /\ frame[p] \in Frames
  BY Now DEF DequeBackgroundException, CheckConnected, CheckTimeout, TimedOut,
             holderVars, stateVars, worldVars, Leaves
<1>2. frame[p].ev = "none" /\ ~frame[p].new
  BY <1>1 DEF ControlInv
<1>3. ASSUME NEW label \in {"check", "timeout", "get"}, Goto(p, label)
      PROVE  Post(p)
  BY <1>1, <1>2, <1>3, GotoPost
<1>4. ASSUME Return(p, ErrResult) PROVE Post(p)
  <2>1. ErrResult \in Int
    BY DEF ErrResult
  <2> QED BY <1>1, <1>4, <2>1, LeavesReturn
<1>5. ASSUME NEW after \in {"handled", "timedOut"}, pc[p] = "timeout",
             GotoWith(p, "reset", [frame[p] EXCEPT !.after = after])
      PROVE  Post(p)
  <2> DEFINE f == [frame[p] EXCEPT !.after = after]
  <2>1. f \in Frames /\ f.ev = frame[p].ev /\ ~f.new /\ f.after = after
    BY <1>1, <1>2 DEF Frames, Labels
  <2> HIDE DEF f
  <2>2. GotoWith(p, "reset", f)
    BY <1>5 DEF f
  <2> QED BY <1>1, <1>2, <1>5, <2>1, <2>2, ResetPost
<1>6. CASE DequeBackgroundException(p)
  BY <1>3, <1>4, <1>6 DEF DequeBackgroundException
<1>7. CASE CheckConnected(p)
  BY <1>3, <1>7 DEF CheckConnected
<1>8. CASE CheckTimeout(p)
  BY <1>3, <1>4, <1>5, <1>8 DEF CheckTimeout
<1>9. CASE TimedOut(p)
  BY Zenon, <1>3, <1>4, <1>9 DEF TimedOut
<1> QED BY <1>6, <1>7, <1>8, <1>9

LEMMA GetKeeps ==
  ASSUME IInv, NEW p \in Procs, Alone(p), Get(p)
  PROVE  Post(p)
<1>1. /\ Types /\ frame[p] \in Frames
      /\ ControlInv(p) /\ OpenInv(p) /\ ConnectedInv(p)
  BY Now
<1>2. pc[p] = "get" /\ Leaves
  BY DEF Get, holderVars, stateVars, worldVars, Leaves
<1>3. CASE helper = Factory
  <2>1. Moved(p, "dial", [frame[p] EXCEPT !.then = "get"])
    BY Zenon, <1>1, <1>3, GotoWithMoves, Set DEF Get, Labels
  <2>2. ControlInv(p)'
    BY <1>1, <1>2, <2>1 DEF ControlInv, Moved, Frames
  <2>3. OpenInv(p)'
    BY <1>1, <1>2, <1>3, <2>1 DEF OpenInv, Leaves, Moved
  <2>4. ConnectedInv(p)'
    BY <1>1, <1>2, <1>3, <2>1, Distinct DEF ConnectedInv, Leaves, Moved, Frames
  <2> QED BY <1>1, <1>2, <2>1, <2>2, <2>3, <2>4, LeavesPost
<1>4. CASE helper # Factory
  <2>1. helper \in Int /\ Return(p, helper)
    BY <1>1, <1>4, ConnType DEF Get, Types, Nil, Factory
  <2> QED BY <1>2, <2>1, LeavesReturn
<1> QED BY <1>3, <1>4

\* A goroutine begins: with an event, or with a call of the user's.
LEMMA ProcessKeeps ==
  ASSUME IInv, NEW p \in Procs, Alone(p), Process(p)
  PROVE  Post(p)
<1>1. /\ Types /\ frame[p] \in Frames
      /\ ControlInv(p) /\ OpenInv(p) /\ ConnectedInv(p)
  BY Now
<1>2. pc[p] = "idle" /\ UNCHANGED <<started, isConnected, startFailed, dials, helper, open>>
  BY DEF Process, stateVars, worldVars
<1>3. PICK e \in inflight : /\ inflight' = inflight \ {e}
                            /\ GotoWith(p, "load", [frame[p] EXCEPT !.ev = e])
  BY DEF Process
<1>4. e \in SessionEvents /\ e # "none"
  BY <1>1, <1>3 DEF Types, SessionEvents
<1>5. Moved(p, "load", [frame[p] EXCEPT !.ev = e])
  BY Zenon, <1>1, <1>3, <1>4, GotoWithMoves, Set DEF Labels
<1>6. Types'
  BY <1>1, <1>2, <1>3, <1>5 DEF Types, Moved
<1>7. ControlInv(p)'
  BY <1>1, <1>2, <1>4, <1>5 DEF ControlInv, Moved, Frames
<1>8. OpenInv(p)'
  BY <1>1, <1>2, <1>5 DEF OpenInv, Moved
<1>9. ConnectedInv(p)'
  BY <1>1, <1>2, <1>4, <1>5 DEF ConnectedInv, Moved, Frames
<1> QED BY <1>5, <1>6, <1>7, <1>8, <1>9 DEF Post, Moved

LEMMA StartKeeps ==
  ASSUME IInv, NEW p \in Procs, Alone(p), Start(p)
  PROVE  Post(p)
<1>1. /\ Types /\ frame[p] \in Frames
      /\ ControlInv(p) /\ OpenInv(p) /\ ConnectedInv(p)
  BY Now
<1>2. /\ pc[p] = "idle" /\ started' = TRUE
      /\ UNCHANGED <<ret, isConnected, dials, helper, open, inflight>>
  BY DEF Start, holderVars
<1> DEFINE l == IF startFailed' THEN "returned" ELSE "reset"
<1>3. /\ l \in {"returned", "reset"} /\ (l = "returned" => startFailed')
      /\ Moved(p, l, [frame[p] EXCEPT !.after = "returned"])
  <2>1. [frame[p] EXCEPT !.after = "returned"] \in Frames
    BY Zenon, <1>1, Set DEF Labels
  <2>2. pc' = [pc EXCEPT ![p] = l]
    BY Zenon DEF Start
  <2>3. frame' = [frame EXCEPT ![p] = [frame[p] EXCEPT !.after = "returned"]]
    BY <1>1 DEF Start, Types, Frames
  <2>4. l \in {"returned", "reset"} /\ (l = "returned" => startFailed')
    OBVIOUS
  <2> HIDE DEF l
  <2> QED BY <1>1, <1>2, <2>1, <2>2, <2>3, <2>4 DEF Types, Moved, Labels
<1> HIDE DEF l
<1>4. Types'
  BY <1>1, <1>2, <1>3 DEF Types, Moved
<1>5. ControlInv(p)'
  BY <1>1, <1>2, <1>3 DEF ControlInv, Moved, Frames
<1>6. OpenInv(p)'
  BY <1>1, <1>2, <1>3 DEF OpenInv, Moved
<1>7. ConnectedInv(p)'
  BY <1>1, <1>2, <1>3 DEF ConnectedInv, Moved, Frames
<1> QED BY <1>3, <1>4, <1>5, <1>6, <1>7 DEF Post, Moved

LEMMA ConnKeeps ==
  ASSUME IInv, NEW p \in Procs, Alone(p), Conn(p)
  PROVE  Post(p)
<1>1. /\ Types /\ frame[p] \in Frames
      /\ ControlInv(p) /\ OpenInv(p) /\ ConnectedInv(p)
  BY Now
<1>2. pc[p] = "idle" /\ started /\ Leaves
  BY DEF Conn, holderVars, stateVars, worldVars, Leaves
<1>3. Moved(p, "deque", frame[p])
  <2>1. NoResult \in Int
    BY DEF NoResult
  <2> QED BY <1>1, <2>1 DEF Conn, Types, Moved, Labels
<1>4. ControlInv(p)'
  BY Zenon, <1>1, <1>2, <1>3 DEF ControlInv, Moved
<1>5. OpenInv(p)'
  BY Zenon, <1>1, <1>2, <1>3 DEF OpenInv, Leaves, Moved
<1>6. ConnectedInv(p)'
  BY Zenon, <1>1, <1>2, <1>3 DEF ConnectedInv, Leaves, Moved
<1> QED BY Zenon, <1>1, <1>2, <1>3, <1>4, <1>5, <1>6, LeavesPost

LEMMA CloseKeeps ==
  ASSUME IInv, NEW p \in Procs, Alone(p), Close(p)
  PROVE  Post(p)
<1>1. /\ Types /\ frame[p] \in Frames
      /\ ControlInv(p) /\ OpenInv(p) /\ ConnectedInv(p)
  BY Now
<1>2. /\ pc[p] = "idle" /\ started' = FALSE
      /\ UNCHANGED <<isConnected, dials, helper, open, inflight>>
  BY DEF Close, holderVars
<1>3. Moved(p, "clear", frame[p])
  BY <1>1 DEF Close, Types, Moved, Labels
<1>4. Types'
  BY Zenon, <1>1, <1>2, <1>3 DEF Types, Moved
<1>5. ControlInv(p)'
  BY Zenon, <1>1, <1>2, <1>3 DEF ControlInv, Moved
<1>6. OpenInv(p)'
  BY Zenon, <1>1, <1>2, <1>3 DEF OpenInv, Moved
<1>7. ConnectedInv(p)'
  BY Zenon, <1>1, <1>2, <1>3 DEF ConnectedInv, Moved
<1> QED BY Zenon, <1>3, <1>4, <1>5, <1>6, <1>7 DEF Post, Moved

-----------------------------------------------------------------------------
(* The invariant is inductive                                               *)

Begins(p) == Process(p) \/ Start(p) \/ Conn(p) \/ Close(p)

\* A step of one goroutine moves no other.
LEMMA RunningMoves ==
  ASSUME Types, NEW p \in Procs, Running(p)
  PROVE  pc[p] # "idle" /\ \A q \in Procs \ {p} : pc'[q] = pc[q]
<1>1. ASSUME \/ \E label : Goto(p, label)
             \/ \E label, locals : GotoWith(p, label, locals)
             \/ \E result : Return(p, result)
      PROVE  \A q \in Procs \ {p} : pc'[q] = pc[q]
  BY <1>1 DEF Types, Goto, GotoWith, Return
<1>2. CASE \/ CloseOld(p) \/ CloseConn(p) \/ NewFactory(p) \/ Dial(p) \/ Assign(p)
           \/ Clear(p) \/ ClearConn(p) \/ ClearHelper(p) \/ Unset(p)
  BY <1>1, <1>2 DEF CloseOld, CloseConn, NewFactory, Dial, Assign, Clear, ClearConn,
                    ClearHelper, Unset
<1>3. CASE \/ Reset(p) \/ Initiate(p) \/ Handled(p) \/ Queue(p) \/ Drain(p)
           \/ Load(p) \/ CheckString(p) \/ SetConnected(p) \/ Stamp(p)
  BY <1>1, <1>3 DEF Reset, Initiate, Handled, Queue, Drain, Load, CheckString,
                    SetConnected, Stamp
<1>4. CASE \/ Returned(p) \/ DequeBackgroundException(p) \/ CheckConnected(p)
           \/ CheckTimeout(p) \/ TimedOut(p) \/ Get(p)
  BY <1>1, <1>4 DEF Returned, DequeBackgroundException, CheckConnected, CheckTimeout,
                    TimedOut, Get
<1> QED BY Zenon, <1>2, <1>3, <1>4 DEF Running

LEMMA BeginsMoves ==
  ASSUME Types, NEW p \in Procs, Begins(p)
  PROVE  pc'[p] # "idle" /\ \A q \in Procs \ {p} : pc'[q] = pc[q]
BY DEF Types, Begins, Process, Start, Conn, Close, GotoWith

LEMMA RunningKeeps ==
  ASSUME IInv, NEW p \in Procs, Alone(p), Running(p)
  PROVE  Post(p)
BY Zenon, CloseOldKeeps, CloseConnKeeps, NewFactoryKeeps, DialKeeps, AssignKeeps,
   ClearKeeps,
   ClearConnKeeps, ClearHelperKeeps, UnsetKeeps, ResetKeeps, InitiateKeeps, HandledKeeps,
   LoadKeeps, CheckStringKeeps, SetConnectedKeeps, ReturnedKeeps, TestsKeep, GetKeeps
   DEF Running

LEMMA BeginsKeeps ==
  ASSUME IInv, NEW p \in Procs, Alone(p), Begins(p)
  PROVE  Post(p)
BY ProcessKeeps, StartKeeps, ConnKeeps, CloseKeeps DEF Begins

\* The library, the ensemble and time leave the holder and the goroutines alone.
LEMMA WorldKeeps ==
  ASSUME IInv,
         UNCHANGED <<started, isConnected, startFailed, dials, helper, open, pc, frame, ret>>,
         inflight' \subseteq SessionEvents
  PROVE  IInv'
<1>1. Types'
  BY DEF IInv, Types
<1>2. ASSUME NEW p \in Procs
      PROVE  /\ ControlInv(p)' = ControlInv(p) /\ OpenInv(p)' = OpenInv(p)
             /\ ConnectedInv(p)' = ConnectedInv(p) /\ Alone(p)' = Alone(p)
  BY Zenon DEF ControlInv, OpenInv, ConnectedInv, Alone
<1> QED BY <1>1, <1>2 DEF IInv

LEMMA Initially == Init => IInv
<1> SUFFICES ASSUME Init PROVE IInv
  OBVIOUS
<1>1. Types
  <2>1. "idle" \in Labels /\ NoResult \in Int /\ 0 \in 0 .. MaxDials
    <3>1. MaxDials \in Nat
      BY Zenon, ConnectionStateAssumption
    <3>2. 0 \in 0 .. MaxDials
      BY <3>1
    <3>3. "idle" \in Labels
      BY Zenon DEF Labels
    <3>4. NoResult \in Int
      BY DEF NoResult
    <3> QED BY <3>2, <3>3, <3>4
  <2> QED BY Zenon, <2>1, NoFrameType DEF Init, Types
<1>2. ASSUME NEW p \in Procs PROVE ControlInv(p) /\ OpenInv(p) /\ ConnectedInv(p)
  <2>1. pc[p] = "idle" /\ frame[p] = NoFrame
    BY <1>2 DEF Init
  <2>2. ControlInv(p)
    <3>1. NoFrame.ev = "none" /\ ~NoFrame.new
      BY DEF NoFrame
    <3> QED BY Zenon, <2>1, <3>1 DEF ControlInv
  <2>3. OpenInv(p) /\ ConnectedInv(p)
    BY Zenon, <2>1, Distinct DEF Init, OpenInv, ConnectedInv
  <2> QED BY <2>2, <2>3
<1> QED BY <1>1, <1>2 DEF IInv

LEMMA Preserved == IInv /\ Serial /\ Serial' /\ [Next]_vars => IInv'
<1> SUFFICES ASSUME IInv, Serial, Serial', [Next]_vars PROVE IInv'
  OBVIOUS
<1>1. Types
  BY DEF IInv
<1>2. CASE UNCHANGED vars
  <2>1. inflight' \subseteq SessionEvents
    BY <1>1, <1>2 DEF vars, holderVars, Types
  <2> QED BY <1>2, <2>1, WorldKeeps DEF vars, holderVars, stateVars, procVars, worldVars
<1>3. ASSUME NEW p \in Procs, Running(p) PROVE IInv'
  BY <1>1, <1>3, RunningMoves, RunningKeeps, StepKeeps
<1>4. ASSUME NEW p \in Procs, Begins(p) PROVE IInv'
  BY <1>1, <1>4, BeginsMoves, BeginsKeeps, StepKeeps
<1>5. ASSUME NEW c \in Conns, SessionUp(c) \/ SessionDown(c) \/ SessionExpires(c)
      PROVE  IInv'
  <2>1. inflight' \subseteq SessionEvents
    BY Zenon, <1>1, <1>5 DEF SessionUp, SessionDown, SessionExpires, SessionEvent,
       SessionEvents,
                      Types
  <2> QED BY Zenon, <1>5, <2>1, WorldKeeps DEF SessionUp, SessionDown, SessionExpires,
                                        SessionEvent, stateVars, procVars
<1>6. ASSUME ChangeConnectionString \/ Tick PROVE IInv'
  <2>1. inflight' \subseteq SessionEvents
    BY <1>1, <1>6 DEF ChangeConnectionString, Tick, holderVars, Types
  <2> QED BY <1>6, <2>1, WorldKeeps DEF ChangeConnectionString, Tick, holderVars,
                                        stateVars, procVars, worldVars
<1> QED BY <1>2, <1>3, <1>4, <1>5, <1>6 DEF Next, Begins

LEMMA Invariant == Spec /\ []Serial => []IInv
BY Initially, Preserved, PTL DEF Spec

-----------------------------------------------------------------------------
(* The theorems                                                             *)

\* When handlers and calls do not overlap, reset and Close leave no connection
\* behind: between calls none is open but the holder's (state.go, reset,
\* handleHolder.closeAndReset and closeAndClear).
THEOREM NoConnectionLeft == Spec /\ []Serial => []OneConnection
<1>1. IInv => OneConnection
  <2> SUFFICES ASSUME IInv, Quiet PROVE open \subseteq {helper}
    BY DEF OneConnection
  <2>1. PICK p \in Procs : TRUE
    BY ConnectionStateAssumption
  <2>2. pc[p] = "idle" /\ Alone(p)
    BY <2>1 DEF Quiet, Alone
  <2> QED BY <2>2, Steady
<1> QED BY <1>1, Invariant, PTL

\* When handlers and calls do not overlap, a started client that says it is
\* connected has an open connection, or none at all because the provider failed to
\* start (state.go, process, checkState, reset and Start).
THEOREM ConnectedIsTrue == Spec /\ []Serial => []ConnectedHasConnection
<1>1. IInv => ConnectedHasConnection
  <2> SUFFICES ASSUME IInv, Quiet, started, isConnected
               PROVE  helper \in open \/ (helper = Nil /\ startFailed)
    BY DEF ConnectedHasConnection
  <2>1. PICK p \in Procs : TRUE
    BY ConnectionStateAssumption
  <2>2. pc[p] = "idle" /\ Alone(p)
    BY <2>1 DEF Quiet, Alone
  <2> QED BY <2>2, Steady
<1> QED BY <1>1, Invariant, PTL

\* Only the end of Conn gives its caller something else than an error.
LEMMA OnlyGetReturns ==
  ASSUME Types, NEW p \in Procs, NEW q \in Procs, Running(q) \/ Begins(q),
         ret'[p] # ret[p], ret'[p] \notin {NoResult, ErrResult}
  PROVE  p = q /\ (Get(p) \/ Assign(p))
<1>1. ASSUME \E label : Goto(q, label) PROVE FALSE
  BY <1>1 DEF Goto
<1>2. ASSUME \E label, locals : GotoWith(q, label, locals) PROVE FALSE
  BY <1>2 DEF GotoWith
<1>3. ASSUME Return(q, NoResult) \/ Return(q, ErrResult) PROVE FALSE
  BY <1>3 DEF Return, Types
<1>4. ASSUME NEW result, Return(q, result) PROVE p = q
  BY <1>4 DEF Return, Types
<1>5. CASE \/ CloseOld(q) \/ CloseConn(q) \/ NewFactory(q) \/ Dial(q)
           \/ Clear(q) \/ ClearConn(q) \/ ClearHelper(q) \/ Unset(q)
  BY <1>1, <1>2, <1>3, <1>5 DEF CloseOld, CloseConn, NewFactory, Dial, Clear, ClearConn,
                                ClearHelper, Unset
<1>6. CASE \/ Reset(q) \/ Initiate(q) \/ Handled(q) \/ Queue(q) \/ Drain(q)
           \/ Load(q) \/ CheckString(q) \/ SetConnected(q) \/ Stamp(q)
  BY <1>1, <1>2, <1>3, <1>6 DEF Reset, Initiate, Handled, Queue, Drain, Load, CheckString,
                                SetConnected, Stamp
<1>7. CASE \/ Returned(q) \/ DequeBackgroundException(q) \/ CheckConnected(q)
           \/ CheckTimeout(q) \/ TimedOut(q)
  BY <1>1, <1>2, <1>3, <1>7 DEF Returned, DequeBackgroundException, CheckConnected,
                                CheckTimeout, TimedOut
<1>8. CASE Begins(q)
  <2>1. CASE Process(q) \/ Start(q) \/ Close(q)
    BY Zenon, <1>2, <2>1 DEF Process, Start, Close
  <2>2. CASE Conn(q)
    BY <2>2 DEF Conn, Types
  <2> QED BY Zenon, <1>8, <2>1, <2>2 DEF Begins
<1>9. CASE Get(q) \/ Assign(q)
  BY <1>1, <1>2, <1>4, <1>9 DEF Get, Assign
<1> QED BY Zenon, <1>5, <1>6, <1>7, <1>8, <1>9 DEF Running

\* When handlers and calls do not overlap, the connection that Conn returns is open,
\* unless there is none because the provider failed to start (state.go, Conn and
\* Start; client.go, Conn).
THEOREM ConnIsOpen == Spec /\ []Serial => ConnReturnsOpen
<1>1. IInv /\ Serial /\ Serial' /\ [Next]_vars =>
        [\A p \in Procs : ret'[p] # ret[p] /\ ret'[p] \notin {NoResult, ErrResult}
                            => ret'[p] \in open \/ (ret'[p] = Nil /\ helper = Nil /\ startFailed)]_vars
  <2> SUFFICES ASSUME IInv, Serial, Serial', Next, NEW p \in Procs,
                      ret'[p] # ret[p], ret'[p] \notin {NoResult, ErrResult}
               PROVE  ret'[p] \in open \/ (ret'[p] = Nil /\ helper = Nil /\ startFailed)
    BY DEF vars
  <2>1. PICK q \in Procs : Running(q) \/ Begins(q)
    BY Zenon DEF Next, Begins, SessionUp, SessionDown, SessionExpires, SessionEvent,
           ChangeConnectionString, Tick, procVars
  <2>2. p = q /\ (Get(p) \/ Assign(p))
    BY Zenon, <2>1, OnlyGetReturns DEF IInv
  <2>3. Alone(p) /\ Types /\ OpenInv(p) /\ ConnectedInv(p) /\ ControlInv(p)
    BY <2>2, Now DEF Get, Assign, Serial, Alone
  <2>4. CASE Get(p)
    <3>1. pc[p] = "get" /\ helper # Factory /\ ret'[p] = helper
      BY <2>3, <2>4 DEF Get, GotoWith, Return, Types
    <3>2. started
      BY Zenon, <2>3, <3>1 DEF ConnectedInv, ControlInv
    <3> QED BY Zenon, <2>3, <3>1, <3>2 DEF OpenInv, ConnectedInv
  <2>5. CASE Assign(p)
    <3>1. pc[p] = "assign" /\ ret'[p] = frame[p].conn
      BY <2>3, <2>5 DEF Assign, Goto, GotoWith, Return, Types
    <3> QED BY Zenon, <2>3, <3>1 DEF OpenInv
  <2> QED BY <2>2, <2>4, <2>5
<1> QED BY <1>1, Invariant, PTL DEF Spec, ConnReturnsOpen

\* When handlers and calls do not overlap, no connection is open when Close returns
\* (state.go, Close; client.go, Close).
THEOREM CloseLeavesNone == Spec /\ []Serial => CloseCloses
<1>1. IInv /\ Serial /\ Serial' /\ [Next]_vars =>
        [\A p \in Procs : pc[p] = "unset" /\ pc'[p] = "idle" => open = {}]_vars
  <2> SUFFICES ASSUME IInv, Serial, NEW p \in Procs, pc[p] = "unset" PROVE open = {}
    OBVIOUS
  <2>1. Alone(p)
    BY DEF Serial, Alone
  <2> QED BY <2>1, Now DEF OpenInv
<1> QED BY <1>1, Invariant, PTL DEF Spec, CloseCloses

-----------------------------------------------------------------------------
(* However handlers and calls overlap                                       *)

\* The locals of the calls, when dials connections were made.
FramesOf(n) ==
  [ev : SessionEvents \cup {"none"}, was : BOOLEAN, new : BOOLEAN,
   conn : {Nil} \cup 1 .. n, err : BOOLEAN, after : Labels, then : Labels]

\* The types of the goroutines, and of the rest.
ProcTypes ==
  /\ pc \in [Procs -> Labels]
  /\ frame \in [Procs -> FramesOf(dials)]
  /\ ret \in [Procs -> {NoResult, ErrResult, Nil} \cup 1 .. dials]
  /\ calls \in 0 .. MaxCalls

HolderTypes ==
  /\ helper \in {Nil, Factory} \cup 1 .. dials
  /\ dials \in 0 .. MaxDials
  /\ open \subseteq 1 .. dials
  /\ session \in [Conns -> {"connecting", "up", "down", "expired"}]
  /\ dialled \in [Conns -> 0 .. MaxChanges]
  /\ inflight \subseteq SessionEvents

StateTypes ==
  /\ started \in BOOLEAN
  /\ isConnected \in BOOLEAN
  /\ instanceIndex \in Nat
  /\ backgroundErrors \in 0 .. MaxErrors

WorldTypes ==
  /\ elapsed \in 0 .. 2
  /\ connString \in 0 .. MaxChanges
  /\ emitted \in 0 .. MaxEvents
  /\ startFailed \in BOOLEAN

LEMMA TypesAre == TypeOK <=> ProcTypes /\ HolderTypes /\ StateTypes /\ WorldTypes
BY DEF TypeOK, ProcTypes, FramesOf, HolderTypes, StateTypes, WorldTypes

\* The labels, for the leaves that need one.
LEMMA LabelNames ==
  /\ {"idle", "load", "checkString", "handled", "queue", "drain", "set", "stamp",
      "reset", "close", "closeConn", "factory", "initiate"} \subseteq Labels
  /\ {"dial", "assign", "deque", "check", "timeout", "timedOut", "get", "clear",
      "clearConn", "clearHelper", "unset", "returned"} \subseteq Labels
BY DEF Labels

\* What the locals of a call become.
LEMMA FrameUpdates ==
  ASSUME NEW n, NEW f \in FramesOf(n)
  PROVE  /\ \A c \in {Nil} \cup 1 .. n : [f EXCEPT !.conn = c] \in FramesOf(n)
         /\ \A l \in Labels : [f EXCEPT !.then = l] \in FramesOf(n)
         /\ \A l \in Labels : [f EXCEPT !.after = l] \in FramesOf(n)
         /\ \A b \in BOOLEAN : [f EXCEPT !.err = b] \in FramesOf(n)
         /\ \A e \in SessionEvents : [f EXCEPT !.ev = e] \in FramesOf(n)
         /\ \A l \in Labels, b \in BOOLEAN : [f EXCEPT !.was = b, !.after = l] \in FramesOf(n)
         /\ \A b, d \in BOOLEAN : [f EXCEPT !.was = b, !.new = d] \in FramesOf(n)
         /\ \A l \in Labels : [f EXCEPT !.new = FALSE, !.after = l] \in FramesOf(n)
<1>1. \A c \in {Nil} \cup 1 .. n : [f EXCEPT !.conn = c] \in FramesOf(n)
  BY Zenon DEF FramesOf
<1>2. \A l \in Labels : /\ [f EXCEPT !.then = l] \in FramesOf(n)
                        /\ [f EXCEPT !.after = l] \in FramesOf(n)
  BY Zenon DEF FramesOf
<1>3. \A b \in BOOLEAN : [f EXCEPT !.err = b] \in FramesOf(n)
  BY Zenon DEF FramesOf
<1>4. \A e \in SessionEvents : [f EXCEPT !.ev = e] \in FramesOf(n)
  BY Zenon DEF FramesOf
<1>5. \A l \in Labels, b \in BOOLEAN : [f EXCEPT !.was = b, !.after = l] \in FramesOf(n)
  BY Zenon DEF FramesOf
<1>6. \A b, d \in BOOLEAN : [f EXCEPT !.was = b, !.new = d] \in FramesOf(n)
  BY Zenon DEF FramesOf
<1>7. \A l \in Labels : [f EXCEPT !.new = FALSE, !.after = l] \in FramesOf(n)
  BY Zenon DEF FramesOf
<1> QED BY Zenon, <1>1, <1>2, <1>3, <1>4, <1>5, <1>6, <1>7

\* No call's locals.
LEMMA NoFrameOf == \A n : NoFrame \in FramesOf(n)
BY LabelNames DEF NoFrame, FramesOf

\* A call that goes on or returns.
LEMMA CallTypes ==
  ASSUME ProcTypes, NEW p \in Procs, UNCHANGED dials
  PROVE  /\ \A l \in Labels : Goto(p, l) => ProcTypes'
         /\ \A l \in Labels, f \in FramesOf(dials) : GotoWith(p, l, f) => ProcTypes'
         /\ \A r \in {NoResult, ErrResult, Nil} \cup 1 .. dials : Return(p, r) => ProcTypes'
<1>1. ASSUME NEW l \in Labels, Goto(p, l) PROVE ProcTypes'
  BY <1>1 DEF Goto, ProcTypes
<1>2. ASSUME NEW l \in Labels, NEW f \in FramesOf(dials), GotoWith(p, l, f) PROVE ProcTypes'
  BY <1>2 DEF GotoWith, ProcTypes
<1>3. ASSUME NEW r \in {NoResult, ErrResult, Nil} \cup 1 .. dials, Return(p, r)
      PROVE  ProcTypes'
  BY <1>3, LabelNames, NoFrameOf DEF Return, ProcTypes
<1> QED BY <1>1, <1>2, <1>3

\* The steps that leave the connections, and the rest of the world, alone.
LEMMA CallStepTypes ==
  ASSUME TypeOK, NEW p \in Procs, UNCHANGED <<holderVars, elapsed, worldVars>>,
         ProcTypes', StateTypes'
  PROVE  TypeOK'
<1>1. HolderTypes /\ WorldTypes
  BY TypesAre
<1>2. HolderTypes' /\ WorldTypes'
  BY <1>1 DEF HolderTypes, WorldTypes, holderVars, worldVars
<1> QED BY <1>2, TypesAre DEF TypeOK, ProcTypes, FramesOf, HolderTypes, StateTypes, WorldTypes

LEMMA HandlerTypes ==
  ASSUME TypeOK, NEW p \in Procs,
         \/ CloseOld(p) \/ Clear(p) \/ Initiate(p) \/ Handled(p) \/ Load(p)
         \/ CheckString(p) \/ Returned(p) \/ CheckConnected(p) \/ CheckTimeout(p)
         \/ TimedOut(p) \/ Get(p)
  PROVE  TypeOK'
<1> DEFINE f == frame[p]
<1>1. /\ ProcTypes /\ StateTypes
      /\ helper \in {Nil, Factory} \cup 1 .. dials
      /\ isConnected \in BOOLEAN
  BY TypesAre DEF HolderTypes, StateTypes
<1>2. f \in FramesOf(dials) /\ f.after \in Labels /\ f.err \in BOOLEAN
  BY <1>1 DEF ProcTypes, FramesOf
<1>3. UNCHANGED <<holderVars, stateVars, elapsed, worldVars>>
  BY Zenon DEF CloseOld, Clear, Initiate, Handled, Load, CheckString, Returned, CheckConnected,
         CheckTimeout, TimedOut, Get
<1>4. UNCHANGED dials /\ StateTypes'
  BY <1>1, <1>3 DEF holderVars, stateVars, StateTypes
<1>5. helper # Factory => helper \in {Nil} \cup 1 .. dials
  BY <1>1
<1>6. helper \in Conns => helper \in {Nil} \cup 1 .. dials
  BY <1>5, Distinct
<1>7. ProcTypes'
  <2>1. CASE CloseOld(p) \/ Clear(p)
    BY Zenon, <2>1, <1>1, <1>2, <1>4, <1>6, CallTypes, LabelNames, FrameUpdates DEF CloseOld, Clear
  <2>2. CASE Initiate(p) \/ Handled(p) \/ Returned(p)
    BY Zenon, <2>2, <1>1, <1>2, <1>4, CallTypes, LabelNames, FrameUpdates
       DEF Initiate, Handled, Returned
  <2>3. CASE Load(p) \/ CheckString(p)
    BY Zenon, <2>3, <1>1, <1>2, <1>4, CallTypes, LabelNames, FrameUpdates DEF Load, CheckString
  <2>4. CASE CheckConnected(p) \/ CheckTimeout(p) \/ TimedOut(p)
    BY Zenon, <2>4, <1>1, <1>2, <1>4, CallTypes, LabelNames, FrameUpdates
       DEF CheckConnected, CheckTimeout, TimedOut
  <2>5. CASE Get(p)
    BY Zenon, <2>5, <1>1, <1>2, <1>4, <1>5, CallTypes, LabelNames, FrameUpdates DEF Get
  <2> QED BY Zenon, <2>1, <2>2, <2>3, <2>4, <2>5
<1> QED BY <1>3, <1>4, <1>7, CallStepTypes

\* The steps that change the flags or the queued errors.
LEMMA FlagTypes ==
  ASSUME TypeOK, NEW p \in Procs,
         \/ Reset(p) \/ Queue(p) \/ Drain(p) \/ SetConnected(p) \/ Unset(p)
         \/ DequeBackgroundException(p)
  PROVE  TypeOK'
<1> DEFINE f == frame[p]
<1>1. ProcTypes /\ StateTypes
  BY TypesAre
<1>2. f \in FramesOf(dials) /\ f.new \in BOOLEAN
  BY <1>1 DEF ProcTypes, FramesOf
<1>3. UNCHANGED <<holderVars, elapsed, worldVars>>
  BY Zenon DEF Reset, Queue, Drain, SetConnected, Unset, DequeBackgroundException
<1>4. UNCHANGED dials
  BY <1>3 DEF holderVars
<1>5. ProcTypes'
  BY Zenon, <1>1, <1>4, CallTypes, LabelNames
     DEF Reset, Queue, Drain, SetConnected, Unset, DequeBackgroundException
<1>6. StateTypes'
  <2>1. CASE Queue(p) \/ Drain(p) \/ DequeBackgroundException(p)
    <3>1. started' = started /\ isConnected' = isConnected /\ instanceIndex' = instanceIndex
      BY <2>1 DEF Queue, Drain, DequeBackgroundException
    <3>2. backgroundErrors' \in 0 .. MaxErrors
      <4>1. backgroundErrors \in 0 .. MaxErrors /\ MaxErrors \in Nat \ {0}
        BY Zenon, <1>1, ConnectionStateAssumption DEF StateTypes
      <4>2. \/ backgroundErrors' = backgroundErrors
            \/ backgroundErrors < MaxErrors /\ backgroundErrors' = backgroundErrors + 1
            \/ backgroundErrors > 0 /\ backgroundErrors' = backgroundErrors - 1
        BY <2>1 DEF Queue, Drain, DequeBackgroundException
      <4> QED BY <4>1, <4>2
    <3> QED BY Zenon, <1>1, <3>1, <3>2 DEF StateTypes
  <2>2. CASE Reset(p)
    <3>1. instanceIndex' \in Nat
      BY <1>1, <2>2 DEF Reset, StateTypes
    <3> QED BY Zenon, <1>1, <2>2, <3>1 DEF Reset, StateTypes
  <2>3. CASE SetConnected(p) \/ Unset(p)
    BY Zenon, <1>1, <1>2, <2>3 DEF SetConnected, Unset, StateTypes
  <2> QED BY <2>1, <2>2, <2>3
<1> QED BY <1>3, <1>5, <1>6, CallStepTypes

\* The steps on the holder and on its connections.
LEMMA HolderStepTypes ==
  ASSUME TypeOK, NEW p \in Procs,
         \/ CloseConn(p) \/ ClearConn(p) \/ NewFactory(p) \/ ClearHelper(p) \/ Assign(p)
  PROVE  TypeOK'
<1>1. ProcTypes /\ HolderTypes /\ StateTypes /\ WorldTypes
  BY TypesAre
<1>2. /\ frame[p] \in FramesOf(dials) /\ frame[p].after \in Labels
      /\ frame[p].conn \in {Nil} \cup 1 .. dials
  BY <1>1 DEF ProcTypes, FramesOf
<1>3. UNCHANGED <<dials, dialled, stateVars, elapsed, worldVars>>
  BY Zenon DEF CloseConn, ClearConn, NewFactory, ClearHelper, Assign
<1>4. ProcTypes'
  BY Zenon, <1>1, <1>2, <1>3, CallTypes, LabelNames, FrameUpdates
     DEF CloseConn, ClearConn, NewFactory, ClearHelper, Assign
<1>5. StateTypes' /\ WorldTypes'
  BY <1>1, <1>3 DEF StateTypes, WorldTypes, stateVars, worldVars
<1>6. HolderTypes'
  <2>1. CASE CloseConn(p) \/ ClearConn(p)
    <3>1. helper' = helper /\ CloseConnection(frame[p].conn)
      BY <2>1 DEF CloseConn, ClearConn
    <3>2. open' \subseteq open /\ inflight' \subseteq SessionEvents
      BY <1>1, <3>1 DEF CloseConnection, HolderTypes, SessionEvents
    <3>3. session' \in [Conns -> {"connecting", "up", "down", "expired"}]
      BY <1>1, <3>1 DEF CloseConnection, HolderTypes
    <3> QED BY <1>1, <1>3, <3>1, <3>2, <3>3 DEF HolderTypes
  <2>2. CASE NewFactory(p) \/ ClearHelper(p) \/ Assign(p)
    <3>1. helper' \in {Nil, Factory} \cup 1 .. dials
      BY <1>2, <2>2 DEF NewFactory, ClearHelper, Assign
    <3>2. UNCHANGED <<open, session, inflight>>
      BY Zenon, <2>2 DEF NewFactory, ClearHelper, Assign
    <3> QED BY <1>1, <1>3, <3>1, <3>2 DEF HolderTypes
  <2> QED BY <2>1, <2>2
<1> QED BY <1>4, <1>5, <1>6, TypesAre DEF TypeOK, ProcTypes, FramesOf, HolderTypes, StateTypes,
                                          WorldTypes

LEMMA MoreDials ==
  ASSUME NEW n \in Nat
  PROVE  1 .. n \subseteq 1 .. (n + 1) /\ n + 1 \in 1 .. (n + 1)
OBVIOUS

LEMMA DialTypes ==
  ASSUME TypeOK, NEW p \in Procs, Dial(p)
  PROVE  TypeOK'
<1>1. ProcTypes /\ HolderTypes /\ StateTypes /\ WorldTypes
  BY TypesAre
<1>2. /\ frame[p] \in FramesOf(dials) /\ frame[p].after \in Labels
      /\ UNCHANGED <<helper, session, inflight, elapsed, stateVars, worldVars>>
  BY <1>1 DEF ProcTypes, FramesOf, Dial
<1>3. StateTypes' /\ WorldTypes'
  BY <1>1, <1>2 DEF StateTypes, WorldTypes, stateVars, worldVars
<1>4. CASE UNCHANGED <<dials, open, dialled>>
  <2>1. dials # dials + 1
    BY <1>1 DEF HolderTypes
  <2>2. \/ Goto(p, "initiate")
        \/ GotoWith(p, frame[p].after, [frame[p] EXCEPT !.err = TRUE])
        \/ Return(p, ErrResult)
    BY <1>4, <2>1 DEF Dial
  <2>3. ProcTypes'
    BY Zenon, <1>1, <1>2, <1>4, <2>2, CallTypes, LabelNames, FrameUpdates
  <2>4. HolderTypes'
    BY Zenon, <1>1, <1>2, <1>4 DEF HolderTypes
  <2> QED BY <1>3, <2>3, <2>4, TypesAre DEF TypeOK, ProcTypes, FramesOf, HolderTypes, StateTypes,
                                            WorldTypes
<1>5. CASE /\ dials < MaxDials
           /\ dials' = dials + 1
           /\ open' = open \cup {dials'}
           /\ dialled' = [dialled EXCEPT ![dials'] = connString]
           /\ GotoWith(p, "assign", [frame[p] EXCEPT !.conn = dials'])
  <2>1. /\ dials \in Nat /\ dials' \in 0 .. MaxDials
        /\ 1 .. dials \subseteq 1 .. dials' /\ dials' \in 1 .. dials'
    BY <1>1, <1>5, MoreDials, ConnectionStateAssumption DEF HolderTypes
  <2>2. FramesOf(dials) \subseteq FramesOf(dials')
    BY <2>1 DEF FramesOf
  <2>3. ProcTypes'
    <3>1. [frame[p] EXCEPT !.conn = dials'] \in FramesOf(dials')
      BY Zenon, <1>2, <2>1, <2>2, FrameUpdates
    <3>2. frame' \in [Procs -> FramesOf(dials')]
      BY <1>1, <1>5, <2>2, <3>1 DEF GotoWith, ProcTypes
    <3>3. pc' \in [Procs -> Labels] /\ calls' = calls
      BY <1>1, <1>5, LabelNames DEF GotoWith, ProcTypes
    <3>4. ret' \in [Procs -> {NoResult, ErrResult, Nil} \cup 1 .. dials']
      BY <1>1, <1>5, <2>1 DEF GotoWith, ProcTypes
    <3> QED BY <1>1, <3>2, <3>3, <3>4 DEF ProcTypes
  <2>4. HolderTypes'
    <3>1. dialled' \in [Conns -> 0 .. MaxChanges]
      BY <1>1, <1>5 DEF HolderTypes, WorldTypes
    <3>2. helper' \in {Nil, Factory} \cup 1 .. dials' /\ open' \subseteq 1 .. dials'
      BY <1>1, <1>2, <1>5, <2>1 DEF HolderTypes
    <3> QED BY <1>1, <1>2, <2>1, <3>1, <3>2 DEF HolderTypes
  <2> QED BY <1>3, <2>3, <2>4, TypesAre DEF TypeOK, ProcTypes, FramesOf, HolderTypes, StateTypes,
                                            WorldTypes
<1> QED BY <1>4, <1>5 DEF Dial

\* The steps that begin a call or a handler, and the one that stamps the time.
LEMMA BeginTypes ==
  ASSUME TypeOK, NEW p \in Procs, Begins(p) \/ Stamp(p)
  PROVE  TypeOK'
<1>1. ProcTypes /\ HolderTypes /\ StateTypes /\ WorldTypes
  BY TypesAre
<1>2. frame[p] \in FramesOf(dials)
  BY <1>1 DEF ProcTypes
<1>3. /\ UNCHANGED <<helper, dials, open, session, dialled, connString, emitted>>
      /\ startFailed' \in BOOLEAN \/ UNCHANGED startFailed
  BY Zenon DEF Begins, Stamp, Process, Start, Conn, Close, holderVars, worldVars
<1>4. HolderTypes'
  <2>1. inflight' \subseteq inflight
    BY DEF Begins, Stamp, Process, Start, Conn, Close, holderVars
  <2> QED BY <1>1, <1>3, <2>1 DEF HolderTypes
<1>5. WorldTypes'
  BY <1>1, <1>3 DEF Begins, Stamp, Process, Start, Conn, Close, WorldTypes
<1>6. StateTypes'
  BY Zenon, <1>1 DEF Begins, Stamp, Process, Start, Conn, Close, StateTypes, stateVars
<1>7. ProcTypes'
  <2>1. CASE Process(p)
    <3>1. PICK e \in inflight : GotoWith(p, "load", [frame[p] EXCEPT !.ev = e])
      BY <2>1 DEF Process
    <3>2. e \in SessionEvents
      BY <1>1 DEF HolderTypes
    <3> QED BY Zenon, <1>1, <1>2, <1>3, <3>1, <3>2, CallTypes, LabelNames, FrameUpdates
  <2>2. CASE Stamp(p)
    BY Zenon, <1>1, <1>3, <2>2, CallTypes DEF Stamp
  <2>3. CASE Start(p) \/ Conn(p) \/ Close(p)
    <3>1. calls' \in 0 .. MaxCalls
      BY <1>1, <2>3, ConnectionStateAssumption DEF Start, Conn, Close, ProcTypes
    <3>2. pc' \in [Procs -> Labels]
      BY <1>1, <2>3, LabelNames DEF Start, Conn, Close, ProcTypes
    <3>3. ret' \in [Procs -> {NoResult, ErrResult, Nil} \cup 1 .. dials']
      BY <1>1, <1>3, <2>3 DEF Start, Conn, Close, ProcTypes
    <3>4. frame' \in [Procs -> FramesOf(dials')]
      <4>1. [frame[p] EXCEPT !.after = "returned"] \in FramesOf(dials)
        BY Zenon, <1>2, LabelNames, FrameUpdates
      <4>2. frame' = [frame EXCEPT ![p] = [frame[p] EXCEPT !.after = "returned"]] \/ frame' = frame
        BY <1>1, <2>3 DEF Start, Conn, Close, ProcTypes
      <4> QED BY <1>1, <1>3, <4>1, <4>2 DEF ProcTypes
    <3> QED BY <3>1, <3>2, <3>3, <3>4 DEF ProcTypes
  <2> QED BY Zenon, <2>1, <2>2, <2>3 DEF Begins
<1> QED BY <1>4, <1>5, <1>6, <1>7, TypesAre DEF TypeOK, ProcTypes, FramesOf, HolderTypes,
                                                StateTypes, WorldTypes

\* The library, the ensemble and time.
LEMMA WorldStepTypes ==
  ASSUME TypeOK,
         \/ \E c \in Conns : SessionUp(c) \/ SessionDown(c) \/ SessionExpires(c)
         \/ ChangeConnectionString
         \/ Tick
  PROVE  TypeOK'
<1>1. ProcTypes /\ HolderTypes /\ StateTypes /\ WorldTypes
  BY TypesAre
<1>2. UNCHANGED <<helper, dials, open, dialled, stateVars, procVars>>
  BY DEF SessionUp, SessionDown, SessionExpires, SessionEvent, ChangeConnectionString, Tick,
         holderVars
<1>3. ProcTypes' /\ StateTypes'
  BY <1>1, <1>2 DEF ProcTypes, StateTypes, procVars, stateVars
<1>4. WorldTypes'
  <2>1. \/ /\ emitted < MaxEvents /\ emitted' = emitted + 1
           /\ UNCHANGED <<elapsed, connString, startFailed>>
        \/ /\ connString < MaxChanges /\ connString' = connString + 1
           /\ UNCHANGED <<elapsed, emitted, startFailed>>
        \/ elapsed < 2 /\ elapsed' = elapsed + 1 /\ UNCHANGED <<connString, emitted, startFailed>>
    BY Zenon DEF SessionUp, SessionDown, SessionExpires, SessionEvent, ChangeConnectionString,
                 Tick, worldVars
  <2>2. MaxEvents \in Nat /\ MaxChanges \in Nat
    BY ConnectionStateAssumption
  <2> QED BY <1>1, <2>1, <2>2 DEF WorldTypes
<1>5. HolderTypes'
  <2>1. inflight' \subseteq SessionEvents
    BY <1>1 DEF HolderTypes, SessionUp, SessionDown, SessionExpires, SessionEvent,
                ChangeConnectionString, Tick, holderVars, SessionEvents
  <2>2. session' \in [Conns -> {"connecting", "up", "down", "expired"}]
    BY <1>1 DEF HolderTypes, SessionUp, SessionDown, SessionExpires, SessionEvent,
                ChangeConnectionString, Tick, holderVars
  <2> QED BY <1>1, <1>2, <2>1, <2>2 DEF HolderTypes
<1> QED BY <1>3, <1>4, <1>5, TypesAre DEF TypeOK, ProcTypes, FramesOf, HolderTypes, StateTypes,
                                          WorldTypes

\* However handlers and calls overlap, the holder, the locals of every goroutine and
\* the results of Conn name only connections that were dialled, and the queued errors
\* never exceed MAX_BACKGROUND_ERRORS (state.go, handleHolder, Conn and
\* queueBackgroundException).
THEOREM TypeCorrect == Spec => []TypeOK
<1>1. Init => TypeOK
  <2> SUFFICES ASSUME Init PROVE ProcTypes /\ HolderTypes /\ StateTypes /\ WorldTypes
    BY TypesAre
  <2>1. ProcTypes
    <3>1. pc \in [Procs -> Labels]
      BY Zenon, LabelNames DEF Init
    <3>2. frame \in [Procs -> FramesOf(dials)]
      BY Zenon, NoFrameOf DEF Init
    <3>3. ret \in [Procs -> {NoResult, ErrResult, Nil} \cup 1 .. dials]
      BY Zenon DEF Init
    <3>4. calls \in 0 .. MaxCalls
      BY ConnectionStateAssumption DEF Init
    <3> QED BY Zenon, <3>1, <3>2, <3>3, <3>4 DEF ProcTypes
  <2>2. HolderTypes
    <3>1. dials \in 0 .. MaxDials /\ 0 \in 0 .. MaxChanges
      BY ConnectionStateAssumption DEF Init
    <3>2. session \in [Conns -> {"connecting", "up", "down", "expired"}]
      BY Zenon DEF Init
    <3>3. dialled \in [Conns -> 0 .. MaxChanges]
      BY Zenon, <3>1 DEF Init
    <3> QED BY Zenon, <3>1, <3>2, <3>3 DEF Init, HolderTypes
  <2>3. StateTypes
    <3>1. instanceIndex \in Nat /\ backgroundErrors \in 0 .. MaxErrors
      BY ConnectionStateAssumption DEF Init
    <3> QED BY Zenon, <3>1 DEF Init, StateTypes
  <2>4. WorldTypes
    <3>1. 0 \in 0 .. 2 /\ 0 \in 0 .. MaxChanges /\ 0 \in 0 .. MaxEvents
      BY ConnectionStateAssumption
    <3> QED BY Zenon, <3>1 DEF Init, WorldTypes
  <2> QED BY <2>1, <2>2, <2>3, <2>4
<1>2. TypeOK /\ [Next]_vars => TypeOK'
  <2> SUFFICES ASSUME TypeOK, [Next]_vars PROVE TypeOK'
    OBVIOUS
  <2>1. ASSUME NEW p \in Procs, Running(p) PROVE TypeOK'
    BY Zenon, <2>1, HandlerTypes, FlagTypes, HolderStepTypes, DialTypes, BeginTypes DEF Running
  <2>2. ASSUME NEW p \in Procs, Begins(p) PROVE TypeOK'
    BY <2>2, BeginTypes
  <2>3. CASE UNCHANGED vars
    BY <2>3 DEF TypeOK, vars, holderVars, stateVars, procVars, worldVars
  <2> QED BY Zenon, <2>1, <2>2, <2>3, WorldStepTypes DEF Next, Begins
<1> QED BY <1>1, <1>2, PTL DEF Spec

-----------------------------------------------------------------------------
(* An expired session is noticed                                            *)

\* A handler of the expiry is on its way to the close.
Handles(p) ==
  frame[p].ev = "Expired" /\ pc[p] \in {"load", "reset", "close", "closeConn"}

\* An open connection whose session has expired will be closed: the event waits for
\* its goroutine, or the goroutine has not come to the close yet.
ExpiredIsNoticed ==
  \A c \in open :
    session[c] = "expired" => "Expired" \in inflight \/ \E p \in Procs : Handles(p)

\* A connection that was not dialled has no session yet.
Fresh == \A c \in Conns \ 1 .. dials : session[c] = "connecting"

\* A step that makes no session expire, and what it has to show.
LEMMA NoticedFrame ==
  ASSUME ExpiredIsNoticed,
         \A c \in open' : session'[c] = "expired" => c \in open /\ session[c] = "expired",
         "Expired" \in inflight =>
           "Expired" \in inflight' \/ \E p \in Procs : Handles(p)',
         \A p \in Procs : Handles(p) =>
           \/ open' = {} \/ "Expired" \in inflight'
           \/ \E q \in Procs : Handles(q)'
  PROVE  ExpiredIsNoticed'
<1>1. ASSUME NEW c \in open', session'[c] = "expired"
      PROVE  "Expired" \in inflight' \/ \E q \in Procs : Handles(q)'
  <2>1. "Expired" \in inflight \/ \E p \in Procs : Handles(p)
    BY Zenon, <1>1 DEF ExpiredIsNoticed
  <2>2. open' # {}
    BY <1>1
  <2> QED BY Zenon, <2>1, <2>2
<1> QED BY Zenon, <1>1 DEF ExpiredIsNoticed

\* A goroutine that is the only one, and its step.
LEMMA NoticedRunning ==
  ASSUME IInv, TypeOK, Fresh, ExpiredIsNoticed, NEW p \in Procs, Alone(p), Running(p)
  PROVE  ExpiredIsNoticed'
<1>1. Types /\ frame[p] \in Frames /\ ControlInv(p) /\ OpenInv(p)
  BY Now
<1>2. \A q \in Procs : Handles(q) => q = p
  BY DEF Alone, Handles
<1>3. ASSUME UNCHANGED <<open, session, inflight>>, Handles(p) => Handles(p)' \/ open = {}
      PROVE  ExpiredIsNoticed'
  BY Zenon, <1>2, <1>3, NoticedFrame
<1>4. CASE CloseConn(p) \/ ClearConn(p)
  <2>1. open' = {}
    BY <1>1, <1>4 DEF CloseConn, ClearConn, CloseConnection, OpenInv
  <2> QED BY <2>1 DEF ExpiredIsNoticed
<1>5. CASE Dial(p)
  <2>1. pc[p] = "dial" /\ UNCHANGED <<session, inflight>>
    BY <1>5 DEF Dial
  <2>2. \A c \in open' : c \in open \/ session[c] = "connecting"
    <3>1. open' = open \/ (dials < MaxDials /\ open' = open \cup {dials + 1})
      BY <1>5 DEF Dial
    <3>2. dials < MaxDials => dials + 1 \in Conns \ 1 .. dials
      <4>1. dials \in 0 .. MaxDials /\ MaxDials \in Nat
        BY Zenon, ConnectionStateAssumption DEF TypeOK
      <4> QED BY <4>1 DEF Conns
    <3> QED BY <3>1, <3>2 DEF Fresh
  <2>3. ~Handles(p)
    BY <2>1 DEF Handles
  <2>4. \A c \in open' : session'[c] = "expired" => c \in open /\ session[c] = "expired"
    BY <2>1, <2>2
  <2> QED BY Zenon, <1>2, <2>1, <2>3, <2>4, NoticedFrame
<1>6. CASE Load(p)
  <2>1. UNCHANGED <<open, session, inflight>>
    BY <1>6 DEF Load, holderVars
  <2>2. ASSUME frame[p].ev = "Expired"
        PROVE  pc'[p] = "reset" /\ frame'[p].ev = "Expired"
    <3>1. GotoWith(p, "reset", [frame[p] EXCEPT !.was = isConnected, !.after = "handled"])
      BY <1>6, <2>2 DEF Load
    <3>2. /\ pc'[p] = "reset"
          /\ frame'[p] = [frame[p] EXCEPT !.was = isConnected, !.after = "handled"]
      BY <1>1, <3>1 DEF GotoWith, Types
    <3>3. frame'[p].ev = frame[p].ev
      BY <1>1, <3>2 DEF Frames
    <3> QED BY <2>2, <3>2, <3>3
  <2> QED BY <1>3, <2>1, <2>2 DEF Handles
<1>7. CASE Reset(p)
  <2>1. UNCHANGED <<open, session, inflight>>
    BY <1>7 DEF Reset, holderVars
  <2>2. pc'[p] = "close" /\ frame' = frame
    BY <1>1, <1>7 DEF Reset, Goto, Types
  <2> QED BY <1>3, <2>1, <2>2 DEF Handles
<1>8. CASE CloseOld(p)
  <2>1. UNCHANGED <<open, session, inflight>>
    BY <1>8 DEF CloseOld, holderVars
  <2>2. CASE helper \in Conns
    <3>1. pc'[p] = "closeConn" /\ frame'[p].ev = frame[p].ev
      BY <1>1, <1>8, <2>2, Distinct DEF CloseOld, GotoWith, Types, Frames
    <3> QED BY <1>3, <2>1, <3>1 DEF Handles
  <2>3. CASE helper \notin Conns
    <3>1. open = {}
      BY <1>1, <1>8, <2>3 DEF CloseOld, OpenInv, Types
    <3> QED BY <1>3, <2>1, <3>1
  <2> QED BY <2>2, <2>3
<1>9. CASE \/ NewFactory(p) \/ Assign(p) \/ Clear(p) \/ ClearHelper(p) \/ Unset(p) \/ Initiate(p)
           \/ Handled(p) \/ Queue(p) \/ Drain(p) \/ CheckString(p) \/ SetConnected(p)
  <2>1. UNCHANGED <<open, session, inflight>>
    BY Zenon, <1>9 DEF NewFactory, Assign, Clear, ClearHelper, Unset, Initiate, Handled, Queue,
                       Drain, CheckString, SetConnected, holderVars
  <2>2. ~Handles(p)
    BY <1>9 DEF NewFactory, Assign, Clear, ClearHelper, Unset, Initiate, Handled, Queue,
                Drain, CheckString, SetConnected, Handles
  <2> QED BY <1>3, <2>1, <2>2
<1>10. CASE \/ Stamp(p) \/ Returned(p) \/ DequeBackgroundException(p) \/ CheckConnected(p)
            \/ CheckTimeout(p) \/ TimedOut(p) \/ Get(p)
  <2>1. UNCHANGED <<open, session, inflight>>
    BY Zenon, <1>10 DEF Stamp, Returned, DequeBackgroundException, CheckConnected, CheckTimeout,
                        TimedOut, Get, holderVars
  <2>2. ~Handles(p)
    BY <1>10 DEF Stamp, Returned, DequeBackgroundException, CheckConnected, CheckTimeout,
                 TimedOut, Get, Handles
  <2> QED BY <1>3, <2>1, <2>2
<1> QED BY Zenon, <1>4, <1>5, <1>6, <1>7, <1>8, <1>9, <1>10 DEF Running

\* A goroutine starts while no other runs.
LEMMA NoticedBegins ==
  ASSUME IInv, ExpiredIsNoticed, NEW p \in Procs, Alone(p), Begins(p)
  PROVE  ExpiredIsNoticed'
<1>1. Types /\ frame[p] \in Frames /\ pc[p] = "idle" /\ UNCHANGED <<open, session>>
  BY Zenon, Now DEF Begins, Process, Start, Conn, Close, holderVars
<1>2. \A q \in Procs : ~Handles(q)
  BY <1>1 DEF Alone, Handles
<1>3. CASE Process(p)
  <2>1. PICK e \in inflight : /\ inflight' = inflight \ {e}
                              /\ GotoWith(p, "load", [frame[p] EXCEPT !.ev = e])
    BY <1>3 DEF Process
  <2>2. pc'[p] = "load" /\ frame'[p].ev = e
    BY <1>1, <2>1 DEF GotoWith, Types, Frames
  <2>3. "Expired" \in inflight => "Expired" \in inflight' \/ Handles(p)'
    BY <2>1, <2>2 DEF Handles
  <2> QED BY Zenon, <1>1, <1>2, <2>3, NoticedFrame
<1>4. CASE Start(p) \/ Conn(p) \/ Close(p)
  <2>1. inflight' = inflight
    BY <1>4 DEF Start, Conn, Close, holderVars
  <2> QED BY Zenon, <1>1, <1>2, <2>1, NoticedFrame
<1> QED BY <1>3, <1>4 DEF Begins

\* The library, the ensemble and time
LEMMA NoticedWorld ==
  ASSUME TypeOK, ExpiredIsNoticed,
         \/ \E c \in Conns : SessionUp(c) \/ SessionDown(c) \/ SessionExpires(c)
         \/ ChangeConnectionString \/ Tick \/ UNCHANGED vars
  PROVE  ExpiredIsNoticed'
<1>1. UNCHANGED <<open, pc, frame>> /\ inflight \subseteq inflight'
  BY DEF SessionUp, SessionDown, SessionExpires, SessionEvent, ChangeConnectionString, Tick,
         vars, holderVars, procVars
<1>2. \A p \in Procs : Handles(p)' = Handles(p)
  BY Zenon, <1>1 DEF Handles
<1>3. CASE \E c \in Conns : SessionExpires(c)
  BY <1>3 DEF SessionExpires, SessionEvent, ExpiredIsNoticed
<1>4. CASE \/ \E c \in Conns : SessionUp(c) \/ SessionDown(c)
           \/ ChangeConnectionString \/ Tick \/ UNCHANGED vars
  <2>1. \A c \in open' : session'[c] = "expired" => c \in open /\ session[c] = "expired"
    <3>1. /\ session \in [Conns -> {"connecting", "up", "down", "expired"}]
          /\ open' \subseteq Conns
      <4>1. /\ session \in [Conns -> {"connecting", "up", "down", "expired"}]
            /\ open \subseteq 1 .. dials /\ dials \in 0 .. MaxDials
        BY Zenon DEF TypeOK
      <4>2. open \subseteq 1 .. MaxDials
        BY <4>1, ConnectionStateAssumption
      <4> QED BY Zenon, <1>1, <4>1, <4>2 DEF Conns
    <3>2. ASSUME NEW c \in Conns, SessionUp(c) \/ SessionDown(c), NEW d \in open',
                 session'[d] = "expired"
          PROVE  session[d] = "expired"
      <4>1. \E s \in {"up", "down"} : session' = [session EXCEPT ![c] = s]
        BY <3>2 DEF SessionUp, SessionDown, SessionEvent
      <4> QED BY <3>1, <3>2, <4>1
    <3> QED BY Zenon, <1>1, <1>4, <3>2 DEF ChangeConnectionString, Tick, vars, holderVars
  <2> QED BY Zenon, <1>1, <1>2, <2>1, NoticedFrame
<1> QED BY <1>3, <1>4

\* Only the session of a dialled connection changes.
LEMMA FreshKeeps ==
  ASSUME TypeOK, Fresh, [Next]_vars
  PROVE  Fresh'
<1>1. /\ session \in [Conns -> {"connecting", "up", "down", "expired"}]
      /\ open \subseteq 1 .. dials /\ dials \in Nat
  BY DEF TypeOK
<1> DEFINE Changed ==
      /\ \/ dials' = dials
         \/ dials' = dials + 1
      /\ \/ session' = session
         \/ \E c : session[c] = "up" /\ session' = [session EXCEPT ![c] = "down"]
         \/ \E c \in open : \E s : session' = [session EXCEPT ![c] = s]
<1>2. ASSUME NEW p \in Procs, Running(p) PROVE Changed
  <2>1. CASE CloseConn(p) \/ ClearConn(p)
    BY Zenon, <2>1 DEF CloseConn, ClearConn, CloseConnection
  <2>2. CASE Dial(p)
    BY Zenon, <2>2 DEF Dial
  <2>3. CASE UNCHANGED <<session, dials>>
    BY <2>3
  <2>4. CASE \/ CloseOld(p) \/ NewFactory(p) \/ Assign(p) \/ Clear(p) \/ ClearHelper(p)
             \/ Unset(p) \/ Reset(p) \/ Initiate(p) \/ Handled(p) \/ Queue(p) \/ Drain(p)
    BY Zenon, <2>3, <2>4 DEF CloseOld, NewFactory, Assign, Clear, ClearHelper, Unset, Reset,
                             Initiate, Handled, Queue, Drain, holderVars
  <2>5. CASE \/ Load(p) \/ CheckString(p) \/ SetConnected(p) \/ Stamp(p) \/ Returned(p)
             \/ DequeBackgroundException(p) \/ CheckConnected(p) \/ CheckTimeout(p)
             \/ TimedOut(p) \/ Get(p)
    BY Zenon, <2>3, <2>5 DEF Load, CheckString, SetConnected, Stamp, Returned,
                             DequeBackgroundException, CheckConnected, CheckTimeout,
                             TimedOut, Get, holderVars
  <2> HIDE DEF Changed
  <2> QED BY Zenon, <1>2, <2>1, <2>2, <2>4, <2>5 DEF Running
<1>3. Changed
  <2>1. ASSUME NEW p \in Procs, Begins(p) PROVE Changed
    BY Zenon, <2>1 DEF Begins, Process, Start, Conn, Close, holderVars
  <2>2. ASSUME NEW c \in Conns, SessionUp(c) \/ SessionDown(c) \/ SessionExpires(c)
        PROVE  Changed
    BY Zenon, <2>2 DEF SessionUp, SessionDown, SessionExpires, SessionEvent
  <2>3. CASE ChangeConnectionString \/ Tick \/ UNCHANGED vars
    BY Zenon, <2>3 DEF ChangeConnectionString, Tick, vars, holderVars
  <2> HIDE DEF Changed
  <2> QED BY Zenon, <1>2, <2>1, <2>2, <2>3 DEF Next, Begins
<1>4. \A c \in Conns \ 1 .. dials' : c \in Conns \ 1 .. dials
  BY <1>1, <1>3
<1>5. \A c \in Conns \ 1 .. dials : session'[c] = "connecting"
  BY <1>1, <1>3 DEF Fresh
<1> QED BY <1>4, <1>5 DEF Fresh

\* When handlers and calls do not overlap, the expiry of the managed connection's
\* session does not get lost: as long as the connection is open, its event waits or its
\* handler is on its way to close it (state.go, process, checkState and
\* handleExpiredSession).  This is the safety half of ExpiredIsReplaced.
THEOREM ExpiryNoticed == Spec /\ []Serial => []ExpiredIsNoticed
<1>1. Init => Fresh /\ ExpiredIsNoticed
  BY DEF Init, Fresh, ExpiredIsNoticed
<1>2. TypeOK /\ Fresh /\ [Next]_vars => Fresh'
  BY FreshKeeps
<1>3. IInv /\ TypeOK /\ Fresh /\ Serial /\ Serial' /\ ExpiredIsNoticed /\ [Next]_vars
        => ExpiredIsNoticed'
  <2> SUFFICES ASSUME IInv, TypeOK, Fresh, Serial, Serial', ExpiredIsNoticed, [Next]_vars
               PROVE  ExpiredIsNoticed'
    OBVIOUS
  <2>1. ASSUME NEW p \in Procs, Running(p) PROVE ExpiredIsNoticed'
    <3>1. Alone(p)
      BY <2>1, RunningMoves DEF IInv, Serial, Alone
    <3> QED BY Zenon, <2>1, <3>1, NoticedRunning
  <2>2. ASSUME NEW p \in Procs, Begins(p) PROVE ExpiredIsNoticed'
    <3>1. Alone(p)
      BY <2>2, BeginsMoves DEF IInv, Serial, Alone
    <3> QED BY Zenon, <2>2, <3>1, NoticedBegins
  <2> QED BY Zenon, <2>1, <2>2, NoticedWorld DEF Next, Begins
<1> QED BY <1>1, <1>2, <1>3, Invariant, TypeCorrect, PTL DEF Spec
=============================================================================
