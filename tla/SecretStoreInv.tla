--------------------------- MODULE SecretStoreInv ---------------------------
(***************************************************************************)
(* The inductive invariant behind the safety of SecretStore.               *)
(***************************************************************************)
EXTENDS SecretStore

\* Only a process that is up serves calls, and a lock is held by the thread that
\* stands in its with statement.
LockInv ==
  \A t \in Thread :
    /\ pc[t] # "idle" => boot[Home[t]] = "up"
    /\ lock[Home[t]] = t <=> pc[t] \in {"flock", "persist", "adopt"}
    /\ flock = t <=> pc[t] \in {"persist", "adopt"}

\* Under both locks the memory is what the file was before the change, and the
\* file is changed by nobody else.
ChangeInv ==
  \A t \in Thread :
    /\ pc[t] = "persist" => entries[Home[t]] = File
    /\ pc[t] = "adopt" => hist # <<>> /\ File = Changed(t)

\* A marker is never newer than the entries that it stands for.
MarkerInv ==
  \A p \in Process :
    /\ marker[p] <= Len(hist)
    /\ hist = <<>> => entries[p] = Empty
    /\ p \notin blind /\ boot[p] = "loaded" => entries[p] = File
    /\ p \notin blind /\ boot[p] = "up" /\ marker[p] = Len(hist) => entries[p] = File
    /\ boot[p] = "down" => p \notin blind /\ entries[p] = Empty

SeenInv ==
  \A t \in Thread :
    Reading(t) => File[job[t].name] \in seen[t] /\ job[t].stat <= Len(hist)

ReceiptInv ==
  \A r \in receipts :
    r.version \in 1..synced /\ hist[r.version][r.name] = r.value

StoreInv ==
  /\ TypeOK /\ LockInv /\ ChangeInv /\ MarkerInv /\ SeenInv /\ ReceiptInv /\ ReadsFresh
============================================================================
