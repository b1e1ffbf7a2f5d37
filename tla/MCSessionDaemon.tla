--------------------------- MODULE MCSessionDaemon ---------------------------
(* SessionDaemon on small instances. *)
EXTENDS SessionDaemon, TLC

CONSTANTS web, db

MCBatches == {<<>>, <<web, db>>}
OneOrTwo  == {<<web>>, <<web, db>>}
One       == {<<web>>}

ThreadSymmetry == Permutations(Threads)
ThreadAndSessionSymmetry == Permutations(Threads) \cup Permutations(Sessions)
=============================================================================
