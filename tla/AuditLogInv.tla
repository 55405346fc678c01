---------------------------- MODULE AuditLogInv ----------------------------
(***************************************************************************)
(* The inductive invariants behind the safety of AuditLog.  GroundInv      *)
(* holds in every behaviour; Inv, which adds what a process knows of the   *)
(* file, holds as long as no verification is replacing the log in memory   *)
(* while another thread of the same process is at it.                      *)
(***************************************************************************)
EXTENDS AuditLog

RecordersDoNotVerify ==
  \A r \in Recorder, v \in Verifier : Home[r] # Home[v]

\* The verifiers of p that are between the assignments which replace its log.
Replacing(p) == {v \in Verifier : Home[v] = p /\ pc[v] = "resize"}

\* No verify() is replacing the log of a process while a recorder of that process
\* is in its critical section or another verify() is replacing it too: what taking
\* _lock around the replacement would give.
Apart ==
  \A r \in Recorder :
    /\ pc[r] \in Critical => Replacing(Home[r]) = {}
    /\ \A v, w \in Replacing(Home[r]) : v = w

\* A recorder at work holds the lock of its process, one in the critical
\* section the file lock too, so that there is one of each at most.
LockInv ==
  \A t \in Recorder :
    /\ pc[t] \in {"idle", "flock"} \cup Critical
    /\ pc[t] # "idle" =>
         lock[Home[t]] = t /\ boot[Home[t]] \in {"marking", "up"}
    /\ pc[t] \in Critical => flock = t

\* A log in memory that is the beginning of the file f, and knows its head.
Faithful(m, f) ==
  /\ IsPrefixOf(m.entries, f)
  /\ m.last = HeadHash(m.entries)

\* A log in memory that is the beginning of the file f, and knows its size.
Whole(m, f) == IsPrefixOf(m.entries, f) /\ m.size = Len(m.entries)

\* What every copy of the file keeps, however it was overtaken: it was made of a
\* file no longer than the one there is, and a start is alone with its own.
CopyInv ==
  /\ \A p \in Proc :
       /\ mem[p].size <= Len(file)
       /\ boot[p] = "loaded" => Whole(mem[p], file)
  /\ \A v \in Verifier :
       /\ pc[v] # "idle" => boot[Home[v]] = "up"
       /\ pc[v] \in {"assign", "resize"} => Len(view[v].read) <= Len(file)

\* What a process has read or written is the beginning of the file.
MemInv ==
  /\ \A p \in Proc : Faithful(mem[p], file)
  /\ \A v \in Verifier : pc[v] = "assign" => IsPrefixOf(view[v].read, file)

\* A process that records knows the size of what it has of the file, but in the
\* middle of a verify().
SizeOf(p) ==
  /\ Replacing(p) = {} => mem[p].size = Len(mem[p].entries)
  /\ \A v \in Replacing(p) : mem[p].entries = view[v].read

SizeInv == \A r \in Recorder : SizeOf(Home[r])

\* Where a recorder stands: its entry is the last of a file without a torn line.
EntryOf(t) ==
  /\ pc[t] \in Placed => ~torn
  /\ pc[t] \in {"write", "commit", "anchor"} => draft[t].gen = cfgGen
  /\ pc[t] \in {"commit", "anchor"} => file # <<>> /\ draft[t] = file[Len(file)]
  /\ pc[t] = "anchor" => synced = Len(file)

EntryInv == \A t \in Recorder : EntryOf(t)

\* ... and what its process knows of that file.
DraftOf(t) ==
  LET es == mem[Home[t]].entries IN
  /\ pc[t] \in {"build", "write", "anchor"} => Len(es) = Len(file)
  /\ pc[t] = "write" => draft[t].prev = HeadHash(file)
  /\ pc[t] = "commit" => Len(es) + 1 = Len(file)

DraftInv == \A t \in Recorder : DraftOf(t)

\* The receipts on the disk.
SyncInv == synced <= Len(file) /\ ReceiptsDurable

\* The chain and the anchor on the disk.
DiskInv == Linked(file) /\ AnchorCovered

\* A running process has the current key, and no entry a later one.
GenInv ==
  /\ \A p \in Proc : boot[p] \in {"loaded", "marking", "up"} => gen[p] = cfgGen
  /\ KnownGenerations(file, cfgGen)
  /\ RisingGenerations(file)

\* A hash is handed out once: what is about to be written is not in the file.
FreshInv ==
  /\ \A i \in DOMAIN file : file[i].hash \in 1..minted
  /\ \A t \in Recorder :
       pc[t] = "write" => draft[t].hash \in (1..minted) \ Hashes(file)

\* What the two locks give by themselves, whoever verifies: no step breaks it.
GroundInv ==
  /\ TypeOK
  /\ LockInv
  /\ CopyInv
  /\ EntryInv
  /\ SyncInv
  /\ GenInv
  /\ MarkerInPlace
  /\ FreshInv

\* Everything the recorders rely on while they share the file (record: the whole
\* sequence "pod obydwiema blokadami"): no step of theirs breaks it.
Inv ==
  /\ GroundInv
  /\ MemInv
  /\ SizeInv
  /\ DraftInv
  /\ DiskInv
  /\ HonestStart
============================================================================
