------------------------------- MODULE MCMutex -------------------------------
(* Instances of InterProcessMutex for TLC: which goroutine runs where.       *)
EXTENDS InterProcessMutex, TLC

CONSTANTS c1, c2, g1, g2, g3

\* One goroutine per process.
OnePerClient == (g1 :> c1) @@ (g2 :> c2)

\* Two goroutines share the mutex of the first process.
TwoOnFirst == (g1 :> c1) @@ (g2 :> c1) @@ (g3 :> c2)
=============================================================================
