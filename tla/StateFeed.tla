------------------------------ MODULE StateFeed ------------------------------
(***************************************************************************)
(* What connectionStateManager promises a ConnectionStateListener: a feed   *)
(* of messages that tell a legal story of the connection, shown in order,   *)
(* each at most once.  Messages may be skipped (the queue drops the oldest  *)
(* when it is full) but never reordered or repeated.                        *)
(***************************************************************************)
EXTENDS ConnectionStates

VARIABLES
  posted,  \* every message so far
  shown    \* position of the last message given to the listeners

feedVars == <<posted, shown>>

LastPosted == IF posted = <<>> THEN UNKNOWN ELSE posted[Len(posted)]

EverConnected == \E i \in 1 .. Len(posted) : posted[i] = CONNECTED

\* The comments on the enumeration, as a condition on the next message:
\* CONNECTED is "sent for the first successful connection", RECONNECTED tells
\* that "a suspended, lost, or read-only connection has been re-established",
\* and SUSPENDED is entered "only if not already suspended and not lost".
Legal(s) ==
  \/ s = CONNECTED   /\ ~EverConnected
  \/ s = RECONNECTED /\ EverConnected /\ LastPosted \in {SUSPENDED, LOST, READ_ONLY}
  \/ s = SUSPENDED   /\ LastPosted \notin {SUSPENDED, LOST}
  \/ s \in {LOST, READ_ONLY} /\ LastPosted # s

Init == posted = <<>> /\ shown = 0

Post == \E s \in ConnectionState :
          /\ Legal(s)
          /\ posted' = Append(posted, s)
          /\ UNCHANGED shown

Show == \E n \in shown + 1 .. Len(posted) : shown' = n /\ UNCHANGED posted

Spec == Init /\ [][Post \/ Show]_feedVars
=============================================================================
