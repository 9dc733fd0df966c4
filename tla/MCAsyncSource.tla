---------------------------- MODULE MCAsyncSource ----------------------------
(* Model checking of AsyncSource.                                            *)
EXTENDS AsyncSource, TLC

\* Keys are compared for equality only, but for ties on the queue, which the
\* model breaks either way.
Symm == Permutations(Keys) \cup Permutations(Clients)
=============================================================================
