-------------------------- MODULE GitConnectionsInv --------------------------
(***************************************************************************)
(* The inductive invariant behind the safety of GitConnections.            *)
(***************************************************************************)
EXTENDS GitConnections

\* The lock is held from the first change of a request to its last one, and a
\* process that is down has neither requests nor stores.
LockInv ==
  /\ \A w \in Worker : mutex = w <=> pc[w] \in {"put", "add", "clean", "drop"}
  /\ \A w \in Worker : pc[w] = "idle" => job[w] = NoJob
  /\ ~up => svc = 0 /\ stores = 0 /\ \A w \in Worker : pc[w] = "idle"

\* There is a service exactly when the configuration in force has Git on; a rebuild
\* and a request work with a store that was built.
ServiceInv ==
  /\ svc # 0 <=> cfg.git
  /\ svc <= stores
  /\ \A w \in Worker :
       /\ job[w].store <= stores
       /\ pc[w] = "swap" => (job[w].cfg.git <=> job[w].store # 0)

\* While Git stays on there is one store, so that none is written beside another.
OneStoreInv ==
  ~off => /\ ~split
          /\ up => svc # 0 /\ \A w \in Worker : job[w].store \in {0, svc}

\* What a store remembers is in the file.
CopyInv == ~split => \A s \in InUse : mem[s] = file

\* A wizard between its two writes: the name is free, and the token is its own.
\* A removal after its first one: the name is free.
HalfwayInv ==
  \A w \in Worker :
    /\ pc[w] \in {"take", "put", "add", "clean"} => job[w].kind = "wizard"
    /\ pc[w] = "drop" => job[w].kind = "remove"
    /\ job[w].kind = "wizard" => job[w].ref = job[w].name /\ job[w].token # 0
    /\ job[w].kind = "add" => job[w].token = 0
    /\ pc[w] \in {"add", "clean"} => secret[job[w].name] = job[w].token
    /\ ~split /\ pc[w] \in {"put", "add", "clean", "drop"} =>
         file[job[w].name] = NoConn

GitInv ==
  /\ TypeOK /\ LockInv /\ ServiceInv /\ OneStoreInv /\ CopyInv /\ HalfwayInv
  /\ HasSecret /\ OrphansExplained
============================================================================
