--------------------------- MODULE MCSecretStore ---------------------------
(* Small instances of SecretStore: a process of two threads and one of one. *)
EXTENDS SecretStoreInv, TLC

CONSTANTS a, b, a1, a2, b1, x, y

TwoProcesses == (a1 :> a) @@ (a2 :> a) @@ (b1 :> b)

\* Threads of one process and names are alike.
Alike == Permutations({a1, a2}) \cup Permutations({x, y})
============================================================================
