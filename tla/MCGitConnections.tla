-------------------------- MODULE MCGitConnections --------------------------
(* Small instances of GitConnections. *)
EXTENDS GitConnectionsInv, TLC

CONSTANTS t1, t2, x, y

\* Threads and names are alike.
Alike == Permutations({t1, t2}) \cup Permutations({x, y})
============================================================================
