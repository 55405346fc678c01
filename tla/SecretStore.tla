----------------------------- MODULE SecretStore -----------------------------
(***************************************************************************)
(* EncryptedFileSecretStore (security/secret_store.py): the secrets that   *)
(* Husarz has received, in one encrypted file that several processes may   *)
(* share.  Each process keeps the entries in memory, with a marker of the  *)
(* version of the file they were read from, and its threads share a lock;  *)
(* a change is made under that lock and the lock of the file.              *)
(*                                                                         *)
(* A secret is the number of the call that put it, 0 stands for no entry.  *)
(* Sealing is left out: who has the key reads what was put.  os.replace    *)
(* makes a write of the file one step.  The file's marker (mtime, size) is *)
(* the number of its version: two versions are taken to differ in it.      *)
(***************************************************************************)
EXTENDS Naturals, Sequences

CONSTANTS
  Process,    \* processes that use the file
  Thread,     \* their threads
  Home,       \* the process of each thread
  Name,       \* names of entries
  MaxWrites,  \* bound on the calls that change the store
  None

ASSUME ProcessAssumption ==
  /\ Home \in [Thread -> Process]
  /\ None \notin Thread /\ None \notin Name
ASSUME WriteAssumption == MaxWrites \in Nat

VARIABLES
  hist,      \* the versions of the file, the last one is there; none: no file
  synced,    \* the version that a loss of power cannot take back
  flock,     \* who holds the file's lock
  lock,      \* _lock of each process: who holds it
  entries,   \* _entries of each process
  marker,    \* _znacznik of each process
  boot,      \* where the process is in __init__
  pc,        \* where the thread is
  job,       \* its call
  \* history
  writes,    \* calls so far that change the store
  receipts,  \* the changes that were reported as done
  seen,      \* what the file has held under the name while a thread reads it
  blind      \* processes that missed a write between _load and _stan_pliku

disk == <<hist, synced>>
locks == <<flock, lock>>
memory == <<entries, marker>>
threads == <<pc, job>>
vars == <<disk, locks, memory, boot, threads, writes, receipts, seen, blind>>

Empty == [n \in Name |-> 0]
File == IF hist = <<>> THEN Empty ELSE hist[Len(hist)]

Job(kind, n, v) == [kind |-> kind, name |-> n, value |-> v, stat |-> 0]
NoJob == Job("none", None, 0)

Init ==
  /\ hist = <<>> /\ synced = 0
  /\ flock = None /\ lock = [p \in Process |-> None]
  /\ entries = [p \in Process |-> Empty]
  /\ marker = [p \in Process |-> 0]
  /\ boot = [p \in Process |-> "down"]
  /\ pc = [t \in Thread |-> "idle"]
  /\ job = [t \in Thread |-> NoJob]
  /\ writes = 0 /\ receipts = {}
  /\ seen = [t \in Thread |-> {}]
  /\ blind = {}

Goto(t, l) == pc' = [pc EXCEPT ![t] = l]
End(t) == Goto(t, "idle") /\ job' = [job EXCEPT ![t] = NoJob]

\* _load: without a file, what is in memory stays.
Loaded(p) == IF hist = <<>> THEN entries[p] ELSE File

----------------------------------------------------------------------------
(* Processes.                                                              *)

\* __init__: the entries, and after them the marker.  A file that cannot be read
\* refuses the start.
Start(p) ==
  /\ boot[p] = "down"
  /\ boot' = [boot EXCEPT ![p] = "loaded"]
  /\ entries' = [entries EXCEPT ![p] = Loaded(p)]
  /\ UNCHANGED <<disk, locks, marker, threads, writes, receipts, seen, blind>>

Mark(p) ==
  /\ boot[p] = "loaded"
  /\ boot' = [boot EXCEPT ![p] = "up"]
  /\ marker' = [marker EXCEPT ![p] = Len(hist)]
  /\ UNCHANGED <<disk, locks, entries, threads, writes, receipts, seen, blind>>

\* The system lets go of a lock whose holder is gone.
Gone(P) ==
  /\ boot' = [p \in Process |-> IF p \in P THEN "down" ELSE boot[p]]
  /\ entries' = [p \in Process |-> IF p \in P THEN Empty ELSE entries[p]]
  /\ marker' = [p \in Process |-> IF p \in P THEN 0 ELSE marker[p]]
  /\ lock' = [p \in Process |-> IF p \in P THEN None ELSE lock[p]]
  /\ flock' = IF \E t \in Thread : flock = t /\ Home[t] \in P THEN None ELSE flock
  /\ pc' = [t \in Thread |-> IF Home[t] \in P THEN "idle" ELSE pc[t]]
  /\ job' = [t \in Thread |-> IF Home[t] \in P THEN NoJob ELSE job[t]]
  /\ blind' = blind \ P
  /\ seen' = [t \in Thread |-> IF Home[t] \in P THEN {} ELSE seen[t]]
  /\ UNCHANGED <<writes, receipts>>

Crash(p) ==
  /\ boot[p] # "down"
  /\ Gone({p})
  /\ UNCHANGED disk

\* Versions whose directory entry was not forced out may be lost, the last first.
PowerLoss ==
  \E k \in synced..Len(hist) :
    /\ hist' = SubSeq(hist, 1, k)
    /\ Gone(Process)
    /\ UNCHANGED synced

----------------------------------------------------------------------------
(* _modyfikuj, for put and delete.                                         *)

Begin(t, j, l) ==
  /\ boot[Home[t]] = "up" /\ pc[t] = "idle"
  /\ job' = [job EXCEPT ![t] = j]
  /\ Goto(t, l)
  /\ UNCHANGED <<disk, locks, memory, boot, receipts, blind>>

\* put and delete of a name, after the name and the value were looked at.
Write(t, kind, n) ==
  /\ writes < MaxWrites
  /\ writes' = writes + 1
  /\ Begin(t, Job(kind, n, IF kind = "put" THEN writes' ELSE 0), "lock")
  /\ UNCHANGED seen

TakeLock(t) ==
  /\ pc[t] = "lock" /\ lock[Home[t]] = None
  /\ lock' = [lock EXCEPT ![Home[t]] = t]
  /\ Goto(t, "flock")
  /\ UNCHANGED <<disk, flock, memory, boot, job, writes, receipts, seen, blind>>

\* Bug: the change starts from the entries that the process last read.
TakeFileLockStale(t) ==
  /\ pc[t] = "flock" /\ flock = None
  /\ flock' = t
  /\ Goto(t, "persist")
  /\ UNCHANGED <<disk, lock, memory, boot, job, writes, receipts, seen, blind>>

\* The file's lock, and the entries as they are on disk.  The marker stays.
TakeFileLock(t) ==
  LET p == Home[t] IN
  /\ pc[t] = "flock" /\ flock = None
  /\ flock' = t
  /\ entries' = [entries EXCEPT ![p] = Loaded(p)]
  /\ blind' = blind \ {p}
  /\ Goto(t, "persist")
  /\ UNCHANGED <<disk, lock, marker, boot, job, writes, receipts, seen>>

\* SecretStoreError leaves the with statement.
Release(t) ==
  /\ lock' = [lock EXCEPT ![Home[t]] = None]
  /\ flock' = IF flock = t THEN None ELSE flock
  /\ End(t)

\* The lock is not free in time, cannot be opened, or the file cannot be read.
GiveUp(t) ==
  /\ pc[t] = "flock"
  /\ Release(t)
  /\ UNCHANGED <<disk, memory, boot, writes, receipts, seen, blind>>

\* zmiana
Changed(t) == [entries[Home[t]] EXCEPT ![job[t].name] = job[t].value]

\* _persist: os.replace.  From here on a reader may see the change; threads that
\* read are told, and so are processes that have loaded but not marked.
Persist(t) ==
  /\ pc[t] = "persist"
  /\ hist' = Append(hist, Changed(t))
  /\ seen' = [r \in Thread |->
                IF pc[r] \in {"stat", "reload", "read"}
                THEN seen[r] \cup {Changed(t)[job[r].name]} ELSE seen[r]]
  /\ blind' = blind \cup {p \in Process : boot[p] = "loaded"}
  /\ Goto(t, "adopt")
  /\ UNCHANGED <<synced, locks, memory, boot, job, writes, receipts>>

\* Bug: the memory changes before the file, and keeps a change that failed.
PersistFailsLate(t) ==
  /\ pc[t] = "persist"
  /\ entries' = [entries EXCEPT ![Home[t]] = Changed(t)]
  /\ Release(t)
  /\ UNCHANGED <<disk, marker, boot, writes, receipts, seen, blind>>

\* ... an OSError before it.
PersistFails(t) ==
  /\ pc[t] = "persist"
  /\ Release(t)
  /\ UNCHANGED <<disk, memory, boot, writes, receipts, seen, blind>>

\* _fsync_katalogu, then the memory follows the file, and the call returns.
Adopt(t) ==
  LET p == Home[t] IN
  /\ pc[t] = "adopt"
  /\ synced' = Len(hist)
  /\ entries' = [entries EXCEPT ![p] = Changed(t)]
  /\ marker' = [marker EXCEPT ![p] = Len(hist)]
  /\ blind' = blind \ {p}
  /\ receipts' = receipts \cup
       {[name |-> job[t].name, value |-> job[t].value, version |-> Len(hist)]}
  /\ Release(t)
  /\ UNCHANGED <<hist, boot, writes, seen>>

----------------------------------------------------------------------------
(* resolve; names and describe read in the same way.                       *)

Resolve(t, n) ==
  /\ Begin(t, Job("resolve", n, 0), "stat")
  /\ seen' = [seen EXCEPT ![t] = {File[n]}]
  /\ UNCHANGED writes

\* _przeladuj_jesli_zmieniony: the marker is read without a lock ...
Compare(t) ==
  /\ pc[t] = "stat"
  /\ \/ /\ marker[Home[t]] = Len(hist)
        /\ Goto(t, "read") /\ UNCHANGED job
     \/ /\ marker[Home[t]] # Len(hist)
        /\ job' = [job EXCEPT ![t].stat = Len(hist)]
        /\ Goto(t, "reload")
  /\ UNCHANGED <<disk, locks, memory, boot, writes, receipts, seen, blind>>

\* ... and is the one to be remembered after the load.
Reload(t) ==
  LET p == Home[t] IN
  /\ pc[t] = "reload" /\ lock[p] = None
  /\ entries' = [entries EXCEPT ![p] = Loaded(p)]
  /\ marker' = [marker EXCEPT ![p] = job[t].stat]
  /\ blind' = blind \ {p}
  /\ Goto(t, "read")
  /\ UNCHANGED <<disk, locks, boot, job, writes, receipts, seen>>

\* The file cannot be read: resolve raises.
ReloadFails(t) ==
  /\ pc[t] = "reload" /\ lock[Home[t]] = None
  /\ End(t)
  /\ seen' = [seen EXCEPT ![t] = {}]
  /\ UNCHANGED <<disk, locks, memory, boot, writes, receipts, blind>>

\* The answer is entries[Home[t]][job[t].name].
Read(t) ==
  /\ pc[t] = "read"
  /\ End(t)
  /\ seen' = [seen EXCEPT ![t] = {}]
  /\ UNCHANGED <<disk, locks, memory, boot, writes, receipts, blind>>

----------------------------------------------------------------------------
Call(t) ==
  \E n \in Name : \/ \E kind \in {"put", "delete"} : Write(t, kind, n)
                  \/ Resolve(t, n)

Step(t) ==
  \/ TakeLock(t) \/ TakeFileLock(t) \/ GiveUp(t)
  \/ Persist(t) \/ PersistFails(t) \/ Adopt(t)
  \/ Compare(t) \/ Reload(t) \/ ReloadFails(t) \/ Read(t)

Next ==
  \/ \E p \in Process : Start(p) \/ Mark(p) \/ Crash(p)
  \/ PowerLoss
  \/ \E t \in Thread : Call(t) \/ Step(t)

Spec == Init /\ [][Next]_vars

----------------------------------------------------------------------------
(* Properties.                                                             *)

Label == {"idle", "lock", "flock", "persist", "adopt", "stat", "reload", "read"}
Value == 0..MaxWrites
Content == [Name -> Value]
JobType == [kind : {"none", "put", "delete", "resolve"}, name : Name \cup {None},
            value : Value, stat : Nat]
ReceiptType == [name : Name, value : Value, version : Nat]

Reading(t) == pc[t] \in {"stat", "reload", "read"}

\* Every variable holds a value of its kind, and a call has a name.
TypeOK ==
  /\ hist \in Seq(Content) /\ synced \in 0..Len(hist)
  /\ flock \in Thread \cup {None} /\ lock \in [Process -> Thread \cup {None}]
  /\ entries \in [Process -> Content] /\ marker \in [Process -> Nat]
  /\ boot \in [Process -> {"down", "loaded", "up"}]
  /\ pc \in [Thread -> Label] /\ job \in [Thread -> JobType]
  /\ writes \in Value /\ receipts \subseteq ReceiptType
  /\ seen \in [Thread -> SUBSET Value] /\ blind \subseteq Process
  /\ \A t \in Thread : pc[t] # "idle" => job[t].name \in Name

\* A write of the file changes the entry it is called for and no other, whatever
\* other processes have written since this one last read (_modyfikuj).
NoWriteLost ==
  [][Len(hist') > Len(hist) =>
       \E t \in Thread :
         /\ pc[t] = "persist"
         /\ File' = [File EXCEPT ![job[t].name] = job[t].value]]_vars

\* What put or delete has reported is on the medium: no crash, no later failure
\* and no loss of power takes that version of the file away (_persist).
ReceiptsKept ==
  \A r \in receipts :
    r.version \in 1..Len(hist) /\ hist[r.version][r.name] = r.value

\* A change that was asked for and is not in the file yet, and one that is there
\* and was not reported yet.
Change(t) == [name |-> job[t].name, value |-> job[t].value]
Asked(t) == IF pc[t] \in {"lock", "flock", "persist"} THEN {Change(t)} ELSE {}
Receipt(t) == [name |-> job[t].name, value |-> job[t].value, version |-> Len(hist)]
Made(t) == IF pc[t] = "adopt" THEN {Receipt(t)} ELSE {}

\* The changes of the store are those of one map, however many processes share
\* the file: each call takes effect once or not at all, on what all the others
\* have written, one that raised has no effect, and what was reported is kept.
Map == INSTANCE SecretMap WITH
  Client <- Thread,
  Secret <- Value,
  versions <- hist,
  safe <- synced,
  asked <- [t \in Thread |-> Asked(t)],
  made <- [t \in Thread |-> Made(t)]

ImplementsMap == Map!Spec

\* What resolve answers was in the file at some moment of the call: never a
\* secret that a failed write only left in memory, nor one that another process
\* had replaced before.  A process that missed a write while it started is the
\* exception, until it reads or writes the file again.
ReadsFresh ==
  \A t \in Thread :
    pc[t] = "read" =>
      entries[Home[t]][job[t].name] \in seen[t] \/ Home[t] \in blind

\* A process sees what another one has put (docs/BEZPIECZENSTWO.md:1926-1929):
\* ReadsFresh without the exception.  The code misses what is written between
\* _load and _stan_pliku of the constructor.
ForeignWritesSeen ==
  \A t \in Thread :
    pc[t] = "read" => entries[Home[t]][job[t].name] \in seen[t]
============================================================================
