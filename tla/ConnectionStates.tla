--------------------------- MODULE ConnectionStates ---------------------------
(***************************************************************************)
(* The ConnectionState enumeration of state.go, and which message may       *)
(* follow which in the stream a listener is told about.                     *)
(***************************************************************************)
EXTENDS Naturals, Sequences

UNKNOWN     == "UNKNOWN"
CONNECTED   == "CONNECTED"
SUSPENDED   == "SUSPENDED"
RECONNECTED == "RECONNECTED"
LOST        == "LOST"
READ_ONLY   == "READ_ONLY"

ConnectionState ==
  {UNKNOWN, CONNECTED, SUSPENDED, RECONNECTED, LOST, READ_ONLY}

\* ConnectionState.Connected()
Connected(s) == s \in {CONNECTED, RECONNECTED, READ_ONLY}
=============================================================================
