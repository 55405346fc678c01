-------------------------- MODULE SecretStoreProofs --------------------------
(***************************************************************************)
(* Proofs about SecretStore, for any number of processes, threads and      *)
(* names.                                                                  *)
(***************************************************************************)
EXTENDS SecretStoreInv, SequenceTheorems, TLAPS

LEMMA EmptyType == Empty \in Content
BY WriteAssumption DEF Empty, Content, Value

LEMMA NoJobType == NoJob \in JobType
BY WriteAssumption DEF NoJob, Job, JobType, Value

\* What the file holds, and what a process would load, are contents.
LEMMA FileType ==
  ASSUME TypeOK
  PROVE  /\ Len(hist) \in Nat
         /\ File \in Content
         /\ \A p \in Process : Loaded(p) \in Content
<1>1. Len(hist) \in Nat
  BY DEF TypeOK
<1>2. File \in Content
  <2>1. CASE hist = <<>>
    BY <2>1, EmptyType DEF File
  <2>2. CASE hist # <<>>
    <3>1. Len(hist) \in 1..Len(hist)
      BY <2>2 DEF TypeOK
    <3> QED
      BY <2>2, <3>1, ElementOfSeq DEF File, TypeOK
  <2> QED
    BY <2>1, <2>2
<1> QED
  BY <1>1, <1>2 DEF Loaded, TypeOK

LEMMA ChangedType ==
  ASSUME TypeOK, NEW t \in Thread PROVE Changed(t) \in Content
BY ProcessAssumption DEF TypeOK, Changed, Content, JobType

\* The file after a write, and after a loss of power that leaves k versions.
LEMMA FileAppend ==
  ASSUME TypeOK, NEW c \in Content, hist' = Append(hist, c)
  PROVE  /\ hist' \in Seq(Content) /\ hist' # <<>>
         /\ Len(hist') = Len(hist) + 1
         /\ File' = c
         /\ \A k \in 1..Len(hist) : hist'[k] = hist[k]
<1>1. hist \in Seq(Content)
  BY DEF TypeOK
<1>2. /\ hist' \in Seq(Content) /\ Len(hist') = Len(hist) + 1
      /\ hist'[Len(hist) + 1] = c
      /\ \A k \in 1..Len(hist) : hist'[k] = hist[k]
  BY <1>1, AppendProperties
<1>3. hist' # <<>>
  BY <1>1, <1>2
<1> QED
  BY <1>2, <1>3 DEF File

LEMMA ThreadType ==
  ASSUME TypeOK, NEW t \in Thread
  PROVE  /\ Home[t] \in Process
         /\ job[t] \in JobType /\ pc[t] \in Label
         /\ job[t].value \in Value /\ job[t].stat \in Nat
BY ProcessAssumption DEF TypeOK, JobType

\* The state of the threads is of its kind.
ThreadsOK ==
  /\ pc \in [Thread -> Label] /\ job \in [Thread -> JobType]
  /\ \A t \in Thread : pc[t] # "idle" => job[t].name \in Name

LEMMA GotoType ==
  ASSUME TypeOK, NEW t \in Thread, NEW l \in Label, Goto(t, l),
         pc[t] # "idle", job' = job
  PROVE  ThreadsOK'
BY DEF Goto, TypeOK, ThreadsOK

LEMMA BeginType ==
  ASSUME TypeOK, NEW t \in Thread, NEW l \in Label, Goto(t, l),
         NEW j \in JobType, j.name \in Name, job' = [job EXCEPT ![t] = j]
  PROVE  ThreadsOK'
BY DEF Goto, TypeOK, ThreadsOK

LEMMA EndType ==
  ASSUME TypeOK, NEW t \in Thread, End(t)
  PROVE  ThreadsOK'
BY NoJobType DEF End, Goto, TypeOK, Label, ThreadsOK

LEMMA ReleaseType ==
  ASSUME TypeOK, NEW t \in Thread, Release(t)
  PROVE  /\ ThreadsOK'
         /\ flock' \in Thread \cup {None}
         /\ lock' \in [Process -> Thread \cup {None}]
BY EndType DEF Release, TypeOK

LEMMA GoneType ==
  ASSUME TypeOK, NEW P \in SUBSET Process, Gone(P)
  PROVE  /\ flock' \in Thread \cup {None}
         /\ lock' \in [Process -> Thread \cup {None}]
         /\ entries' \in [Process -> Content] /\ marker' \in [Process -> Nat]
         /\ boot' \in [Process -> {"down", "loaded", "up"}]
         /\ ThreadsOK'
         /\ writes' \in Value /\ receipts' \subseteq ReceiptType
         /\ seen' \in [Thread -> SUBSET Value] /\ blind' \subseteq Process
<1>1. ThreadsOK'
  BY NoJobType DEF Gone, TypeOK, Label, ThreadsOK
<1> QED
  BY <1>1, NoJobType, EmptyType DEF Gone, TypeOK

LEMMA InitType == Init => TypeOK
BY EmptyType, NoJobType, WriteAssumption, ProcessAssumption
   DEF Init, TypeOK, Label, Value

LEMMA CallType ==
  ASSUME TypeOK, NEW t \in Thread, Call(t) PROVE TypeOK'
<1> USE DEF disk, locks, memory
<1>1. ASSUME NEW n \in Name, NEW kind \in {"put", "delete"}, Write(t, kind, n)
      PROVE  TypeOK'
  <2>1. writes' \in Value
    BY <1>1, WriteAssumption DEF Write, TypeOK, Value
  <2>2. Job(kind, n, IF kind = "put" THEN writes' ELSE 0) \in JobType
    BY <2>1, WriteAssumption DEF Job, JobType, Value
  <2>3. ThreadsOK'
    BY <1>1, <2>2, BeginType DEF Write, Begin, Job, Label
  <2> QED
    BY <1>1, <2>1, <2>3 DEF Write, Begin, TypeOK, ThreadsOK
<1>2. ASSUME NEW n \in Name, Resolve(t, n) PROVE TypeOK'
  <2>1. Job("resolve", n, 0) \in JobType
    BY WriteAssumption DEF Job, JobType, Value
  <2>2. ThreadsOK'
    BY <1>2, <2>1, BeginType DEF Resolve, Begin, Job, Label
  <2>3. seen' \in [Thread -> SUBSET Value]
    BY <1>2, FileType DEF Resolve, TypeOK, Content
  <2> QED
    BY <1>2, <2>2, <2>3 DEF Resolve, Begin, TypeOK, ThreadsOK
<1> QED
  BY <1>1, <1>2 DEF Call

LEMMA StepType ==
  ASSUME TypeOK, NEW t \in Thread, Step(t) PROVE TypeOK'
<1> USE DEF disk, locks, memory
<1>0. Home[t] \in Process
  BY ProcessAssumption
<1>1. CASE TakeLock(t)
  <2>1. ThreadsOK'
    BY <1>1, GotoType DEF TakeLock, Label
  <2> QED
    BY <1>1, <2>1 DEF TakeLock, TypeOK, ThreadsOK
<1>2. CASE TakeFileLock(t)
  <2>1. ThreadsOK'
    BY <1>2, GotoType DEF TakeFileLock, Label
  <2> QED
    BY <1>2, <2>1, <1>0, FileType DEF TakeFileLock, TypeOK, ThreadsOK
<1>3. CASE GiveUp(t)
  BY <1>3, ReleaseType DEF GiveUp, TypeOK, ThreadsOK
<1>4. CASE Persist(t)
  <2>1. /\ hist' \in Seq(Content) /\ Len(hist') = Len(hist) + 1
    BY <1>4, ChangedType, FileAppend DEF Persist
  <2>2. synced' \in 0..Len(hist')
    BY <1>4, <2>1 DEF Persist, TypeOK
  <2>3. seen' \in [Thread -> SUBSET Value]
    <3>1. \A r \in Thread : pc[r] \in {"stat", "reload", "read"} =>
            Changed(t)[job[r].name] \in Value
      BY ChangedType DEF Content, TypeOK
    <3> QED
      BY <1>4, <3>1 DEF Persist, TypeOK
  <2>4. ThreadsOK'
    BY <1>4, GotoType DEF Persist, Label
  <2> QED
    BY <1>4, <2>1, <2>2, <2>3, <2>4 DEF Persist, TypeOK, ThreadsOK
<1>5. CASE PersistFails(t)
  BY <1>5, ReleaseType DEF PersistFails, TypeOK, ThreadsOK
<1>6. CASE Adopt(t)
  <2>1. synced' \in 0..Len(hist')
    BY <1>6 DEF Adopt, TypeOK
  <2>2. [name |-> job[t].name, value |-> job[t].value, version |-> Len(hist)]
          \in ReceiptType
    BY <1>6, ThreadType, FileType DEF Adopt, TypeOK, ReceiptType
  <2>3. receipts' \subseteq ReceiptType
    BY <1>6, <2>2 DEF Adopt, TypeOK
  <2> QED
    BY <1>6, <1>0, <2>1, <2>3, ReleaseType, ChangedType DEF Adopt, TypeOK, ThreadsOK
<1>7. CASE Compare(t)
  <2>1. [job[t] EXCEPT !.stat = Len(hist)] \in JobType
    BY FileType DEF TypeOK, JobType
  <2>a. pc[t] = "stat"
    BY <1>7, Zenon DEF Compare
  <2>2. [job[t] EXCEPT !.stat = Len(hist)].name \in Name
    BY <2>a DEF TypeOK, JobType
  <2>3. ASSUME Goto(t, "read") /\ UNCHANGED job PROVE ThreadsOK'
    BY <2>a, <2>3, GotoType DEF Label
  <2>4. ASSUME job' = [job EXCEPT ![t].stat = Len(hist)] /\ Goto(t, "reload")
        PROVE  ThreadsOK'
    <3>1. "reload" \in Label
      BY DEF Label
    <3> QED
      BY <2>1, <2>2, <2>4, <3>1, BeginType, Zenon
  <2>5. ThreadsOK'
    BY <1>7, <2>3, <2>4, Zenon DEF Compare
  <2> QED
    BY <1>7, <2>5 DEF Compare, TypeOK, ThreadsOK
<1>8. CASE Reload(t)
  <2>1. ThreadsOK'
    BY <1>8, GotoType DEF Reload, Label
  <2> QED
    BY <1>8, <2>1, <1>0, FileType, ThreadType DEF Reload, TypeOK, ThreadsOK
<1>9. CASE ReloadFails(t)
  BY <1>9, EndType DEF ReloadFails, TypeOK, ThreadsOK
<1>10. CASE Read(t)
  BY <1>10, EndType DEF Read, TypeOK, ThreadsOK
<1> QED
  BY <1>1, <1>2, <1>3, <1>4, <1>5, <1>6, <1>7, <1>8, <1>9, <1>10 DEF Step

\* A loss of power leaves a beginning of the versions.
LEMMA Shortened ==
  ASSUME TypeOK, NEW k \in synced..Len(hist), hist' = SubSeq(hist, 1, k)
  PROVE  /\ hist' \in Seq(Content) /\ Len(hist') = k
         /\ \A i \in 1..k : hist'[i] = hist[i]
BY SubSeqProperties DEF TypeOK

LEMMA ProcessType ==
  ASSUME TypeOK, NEW p \in Process, Start(p) \/ Mark(p) \/ Crash(p)
  PROVE  TypeOK'
<1> USE DEF disk, locks, memory, threads
<1>1. CASE Start(p)
  BY <1>1, FileType DEF Start, TypeOK
<1>2. CASE Mark(p)
  BY <1>2, FileType DEF Mark, TypeOK
<1>3. CASE Crash(p)
  <2>1. {p} \in SUBSET Process
    OBVIOUS
  <2> QED
    BY <1>3, <2>1, GoneType DEF Crash, TypeOK, ThreadsOK
<1> QED
  BY <1>1, <1>2, <1>3

LEMMA NextType == TypeOK /\ [Next]_vars => TypeOK'
<1> SUFFICES ASSUME TypeOK, [Next]_vars PROVE TypeOK'
  OBVIOUS
<1>1. CASE PowerLoss
  <2>1. PICK k \in synced..Len(hist) :
          hist' = SubSeq(hist, 1, k) /\ Gone(Process) /\ UNCHANGED synced
    BY <1>1 DEF PowerLoss
  <2>2. hist' \in Seq(Content) /\ synced' \in 0..Len(hist')
    BY <2>1, Shortened DEF TypeOK
  <2> QED
    BY <2>1, <2>2, GoneType DEF TypeOK, ThreadsOK
<1>2. CASE UNCHANGED vars
  BY <1>2 DEF vars, disk, locks, memory, threads, TypeOK
<1> QED
  BY <1>1, <1>2, CallType, StepType, ProcessType DEF Next

\* Every variable of every behaviour holds a value of its kind.
THEOREM TypeCorrect == Spec => []TypeOK
BY InitType, NextType, PTL DEF Spec

----------------------------------------------------------------------------
(* The invariant.                                                          *)

LEMMA InitInv == Init => StoreInv
<1> SUFFICES ASSUME Init PROVE StoreInv
  OBVIOUS
<1>1. TypeOK
  BY InitType
<1>2. File = Empty
  BY DEF Init, File
<1> QED
  BY <1>1, <1>2, ProcessAssumption
     DEF Init, StoreInv, LockInv, ChangeInv, MarkerInv, SeenInv, ReceiptInv,
         ReadsFresh, Reading

\* Begin of a call: only the thread's own place and call change.
LEMMA CallInv ==
  ASSUME StoreInv, NEW t \in Thread, Call(t) PROVE StoreInv'
<1>0. TypeOK /\ TypeOK'
  BY CallType DEF StoreInv
<1>1. PICK n \in Name, l \in {"lock", "stat"} :
        /\ boot[Home[t]] = "up" /\ pc[t] = "idle"
        /\ pc' = [pc EXCEPT ![t] = l]
        /\ UNCHANGED <<disk, locks, memory, boot, receipts, blind>>
        /\ \A r \in Thread : r # t => job'[r] = job[r] /\ seen'[r] = seen[r]
        /\ l = "stat" => /\ job'[t].name = n /\ job'[t].stat = 0
                         /\ seen'[t] = {File[n]}
  <2>1. ASSUME NEW n \in Name, NEW kind \in {"put", "delete"}, Write(t, kind, n)
        PROVE  /\ boot[Home[t]] = "up" /\ pc[t] = "idle"
               /\ pc' = [pc EXCEPT ![t] = "lock"]
               /\ UNCHANGED <<disk, locks, memory, boot, receipts, blind>>
               /\ \A r \in Thread : r # t => job'[r] = job[r] /\ seen'[r] = seen[r]
    BY <1>0, <2>1 DEF Write, Begin, Goto, TypeOK
  <2>2. ASSUME NEW n \in Name, Resolve(t, n)
        PROVE  /\ boot[Home[t]] = "up" /\ pc[t] = "idle"
               /\ pc' = [pc EXCEPT ![t] = "stat"]
               /\ UNCHANGED <<disk, locks, memory, boot, receipts, blind>>
               /\ \A r \in Thread : r # t => job'[r] = job[r] /\ seen'[r] = seen[r]
               /\ job'[t].name = n /\ job'[t].stat = 0 /\ seen'[t] = {File[n]}
    BY <1>0, <2>2 DEF Resolve, Begin, Goto, TypeOK, Job
  <2>3. CASE \E n \in Name, kind \in {"put", "delete"} : Write(t, kind, n)
    BY <2>1, <2>3
  <2>4. CASE \E n \in Name : Resolve(t, n)
    BY <2>2, <2>4
  <2> QED
    BY <2>3, <2>4 DEF Call
<1>2. File' = File /\ hist' = hist
  BY <1>1 DEF File, disk
<1> USE <1>0, <1>1, <1>2 DEF StoreInv, disk, locks, memory
<1>3. LockInv'
  BY DEF LockInv, TypeOK
<1>4. ChangeInv'
  BY DEF ChangeInv, Changed, TypeOK
<1>5. MarkerInv'
  BY DEF MarkerInv
<1>6. SeenInv'
  BY DEF SeenInv, Reading, TypeOK
<1>7. ReceiptInv' /\ ReadsFresh'
  BY DEF ReceiptInv, ReadsFresh, TypeOK
<1> QED
  BY <1>3, <1>4, <1>5, <1>6, <1>7

\* A step that leaves disk, memory and processes alone keeps what is said about
\* processes and receipts.
LEMMA QuietInv ==
  ASSUME StoreInv, UNCHANGED <<disk, memory, boot, receipts, blind>>
  PROVE  hist' = hist /\ File' = File /\ MarkerInv' /\ ReceiptInv'
BY DEF StoreInv, MarkerInv, ReceiptInv, disk, memory, File

\* What a process would load is what the file holds.
LEMMA LoadedFile ==
  ASSUME StoreInv, NEW p \in Process PROVE Loaded(p) = File
BY DEF StoreInv, MarkerInv, Loaded, File

LEMMA ReleaseInv ==
  ASSUME StoreInv, NEW t \in Thread, Release(t),
         pc[t] \in {"flock", "persist", "adopt"}, boot' = boot
  PROVE  /\ LockInv'
         /\ \A r \in Thread : r # t => pc'[r] = pc[r] /\ job'[r] = job[r]
         /\ pc'[t] = "idle"
<1>1. /\ \A r \in Thread : r # t => pc'[r] = pc[r] /\ job'[r] = job[r]
      /\ pc'[t] = "idle"
  BY DEF StoreInv, Release, End, Goto, TypeOK
<1>2. lock[Home[t]] = t /\ None \notin Thread /\ Home \in [Thread -> Process]
  BY ProcessAssumption DEF StoreInv, LockInv
<1>3. \A r \in Thread : lock'[Home[r]] = r <=> r # t /\ lock[Home[r]] = r
  BY <1>2 DEF StoreInv, Release, TypeOK
<1>4. \A r \in Thread : flock' = r <=> r # t /\ flock = r
  BY <1>2 DEF StoreInv, Release, TypeOK
<1>5. LockInv'
  BY <1>1, <1>3, <1>4 DEF StoreInv, LockInv
<1> QED
  BY <1>1, <1>5

LEMMA QuietStepInv ==
  ASSUME StoreInv, NEW t \in Thread,
         TakeLock(t) \/ GiveUp(t) \/ PersistFails(t) \/ Compare(t)
           \/ ReloadFails(t) \/ Read(t)
  PROVE  StoreInv'
<1>0. TypeOK /\ TypeOK'
  BY StepType DEF StoreInv, Step
<1>1. /\ UNCHANGED <<disk, memory, boot, receipts, blind>>
      /\ \A r \in Thread : r # t =>
           pc'[r] = pc[r] /\ job'[r] = job[r] /\ seen'[r] = seen[r]
  <2>1. CASE TakeLock(t)
    BY <1>0, <2>1 DEF TakeLock, Goto, TypeOK
  <2>2. CASE GiveUp(t) \/ PersistFails(t)
    BY <1>0, <2>2 DEF GiveUp, PersistFails, Release, End, Goto, TypeOK
  <2>3. CASE Compare(t)
    BY <1>0, <2>3 DEF Compare, Goto, TypeOK
  <2>4. CASE ReloadFails(t) \/ Read(t)
    BY <1>0, <2>4 DEF ReloadFails, Read, End, Goto, TypeOK
  <2> QED
    BY <2>1, <2>2, <2>3, <2>4
<1>2. hist' = hist /\ File' = File /\ MarkerInv' /\ ReceiptInv'
  BY <1>1, QuietInv
<1>3. entries' = entries /\ marker' = marker /\ boot' = boot /\ blind' = blind
  BY <1>1 DEF memory
<1>4. LockInv'
  <2>1. CASE TakeLock(t)
    BY <1>0, <1>3, <2>1, ProcessAssumption DEF StoreInv, LockInv, TakeLock, Goto, TypeOK
  <2>2. CASE GiveUp(t) \/ PersistFails(t)
    BY <1>3, <2>2, ReleaseInv DEF GiveUp, PersistFails
  <2>3. CASE Compare(t)
    <3>1. pc[t] = "stat" /\ pc'[t] \in {"read", "reload"} /\ UNCHANGED locks
      BY <1>0, <2>3 DEF Compare, Goto, TypeOK
    <3> QED
      BY <1>0, <1>1, <1>3, <3>1 DEF StoreInv, LockInv, locks
  <2>4. CASE ReloadFails(t) \/ Read(t)
    <3>1. pc[t] \in {"reload", "read"} /\ pc'[t] = "idle" /\ UNCHANGED locks
      BY <1>0, <2>4 DEF ReloadFails, Read, End, Goto, TypeOK
    <3> QED
      BY <1>1, <1>3, <3>1 DEF StoreInv, LockInv, locks
  <2> QED
    BY <2>1, <2>2, <2>3, <2>4
<1>5. /\ pc'[t] \notin {"persist", "adopt"}
      /\ Reading(t)' => /\ pc[t] = "stat"
                        /\ job'[t].name = job[t].name /\ seen'[t] = seen[t]
                        /\ job'[t].stat \in {job[t].stat, Len(hist)}
      /\ pc'[t] = "read" => marker[Home[t]] = Len(hist)
  <2>1. CASE TakeLock(t)
    BY <1>0, <2>1 DEF TakeLock, Goto, TypeOK, Reading
  <2>2. CASE GiveUp(t) \/ PersistFails(t) \/ ReloadFails(t) \/ Read(t)
    BY <1>0, <2>2 DEF GiveUp, PersistFails, Release, ReloadFails, Read, End, Goto,
                      TypeOK, Reading
  <2>3. CASE Compare(t)
    <3>1. CASE marker[Home[t]] = Len(hist) /\ Goto(t, "read") /\ UNCHANGED job
      BY <1>0, <2>3, <3>1 DEF Compare, Goto, TypeOK, Reading
    <3>2. CASE job' = [job EXCEPT ![t].stat = Len(hist)] /\ Goto(t, "reload")
      <4>1. job'[t] = [job[t] EXCEPT !.stat = Len(hist)]
        BY <1>0, <3>2, Zenon DEF TypeOK
      <4>2. job'[t].name = job[t].name /\ job'[t].stat = Len(hist)
        BY <1>0, <4>1 DEF TypeOK, JobType
      <4>3. pc[t] = "stat" /\ seen' = seen
        BY <2>3, Zenon DEF Compare
      <4>4. pc'[t] = "reload"
        BY <1>0, <3>2 DEF Goto, TypeOK
      <4> QED
        BY <4>2, <4>3, <4>4 DEF Reading
    <3> QED
      BY <2>3, <3>1, <3>2, Zenon DEF Compare
  <2> QED
    BY <2>1, <2>2, <2>3
<1>6. ChangeInv'
  BY <1>1, <1>2, <1>3, <1>5 DEF StoreInv, ChangeInv, Changed
<1>7. SeenInv'
  <2>1. Len(hist) <= Len(hist)
    BY FileType, <1>0
  <2> QED
    BY <1>1, <1>2, <1>5, <2>1 DEF StoreInv, SeenInv, Reading
<1>8. ReadsFresh'
  <2>1. pc'[t] = "read" => entries[Home[t]][job[t].name] \in seen[t] \/ Home[t] \in blind
    BY <1>5, ProcessAssumption DEF StoreInv, SeenInv, MarkerInv, LockInv, Reading
  <2> QED
    BY <1>1, <1>3, <1>5, <2>1 DEF StoreInv, ReadsFresh, Reading
<1> QED
  BY <1>0, <1>2, <1>4, <1>6, <1>7, <1>8 DEF StoreInv

\* The entries of a process are those of the file, and nothing else changes on
\* disk: under both locks, or under the thread lock alone.
LEMMA LoadStepInv ==
  ASSUME StoreInv, NEW t \in Thread, TakeFileLock(t) \/ Reload(t)
  PROVE  StoreInv'
<1>0. TypeOK /\ TypeOK' /\ Home \in [Thread -> Process]
  BY StepType, ProcessAssumption DEF StoreInv, Step
<1> DEFINE p == Home[t]
<1>1. /\ hist' = hist /\ synced' = synced /\ receipts' = receipts /\ boot' = boot
      /\ job' = job /\ seen' = seen /\ blind' = blind \ {p}
      /\ entries' = [entries EXCEPT ![p] = File]
      /\ \A r \in Thread : r # t => pc'[r] = pc[r]
  BY <1>0, LoadedFile DEF TakeFileLock, Reload, Goto, TypeOK, disk
<1>2. File' = File
  BY <1>1 DEF File
<1>3. /\ marker' = marker \/ marker' = [marker EXCEPT ![p] = job[t].stat]
      /\ marker' # marker => pc[t] = "reload"
      /\ boot[p] = "up"
      /\ pc'[t] \in {"persist", "read"} /\ pc[t] \in {"flock", "reload"}
      /\ pc'[t] = "read" => pc[t] = "reload"
  BY <1>0 DEF TakeFileLock, Reload, Goto, TypeOK, StoreInv, LockInv
<1>4. LockInv'
  <2>1. CASE TakeFileLock(t)
    BY <1>0, <1>1, <2>1, ProcessAssumption
       DEF StoreInv, LockInv, TakeFileLock, Goto, TypeOK
  <2>2. CASE Reload(t)
    BY <1>0, <1>1, <2>2, ProcessAssumption
       DEF StoreInv, LockInv, Reload, Goto, TypeOK, locks
  <2> QED
    BY <2>1, <2>2
<1>5. ChangeInv'
  <2>1. \A r \in Thread : r # t /\ pc[r] \in {"persist", "adopt"} => Home[r] # p
    <3>1. CASE TakeFileLock(t)
      BY <3>1, ProcessAssumption DEF StoreInv, LockInv, TakeFileLock
    <3>2. CASE Reload(t)
      BY <3>2, ProcessAssumption DEF StoreInv, LockInv, Reload
    <3> QED
      BY <3>1, <3>2
  <2>2. \A r \in Thread : r # t /\ pc[r] \in {"persist", "adopt"} =>
          entries'[Home[r]] = entries[Home[r]]
    BY <1>0, <1>1, <2>1 DEF TypeOK
  <2>3. entries'[p] = File
    BY <1>0, <1>1 DEF TypeOK
  <2> QED
    BY <1>1, <1>2, <1>3, <2>2, <2>3 DEF StoreInv, ChangeInv, Changed
<1>6. MarkerInv'
  <2>1. marker'[p] <= Len(hist)
    BY <1>0, <1>3 DEF StoreInv, MarkerInv, SeenInv, Reading, TypeOK
  <2>2. hist = <<>> => File = Empty
    BY DEF File
  <2>3. entries'[p] = File /\ \A q \in Process : q # p =>
          entries'[q] = entries[q] /\ marker'[q] = marker[q]
    BY <1>0, <1>1, <1>3 DEF TypeOK
  <2> QED
    BY <1>0, <1>1, <1>2, <1>3, <2>1, <2>2, <2>3 DEF StoreInv, MarkerInv
<1>7. SeenInv'
  BY <1>1, <1>2, <1>3 DEF StoreInv, SeenInv, Reading
<1>8. ReceiptInv'
  BY <1>1 DEF StoreInv, ReceiptInv
<1>9. ReadsFresh'
  <2>1. ASSUME NEW r \in Thread, pc'[r] = "read"
        PROVE  entries'[Home[r]][job'[r].name] \in seen'[r] \/ Home[r] \in blind'
    <3>1. CASE Home[r] = p
      <4>1. File[job[r].name] \in seen[r]
        BY <1>1, <1>3, <2>1 DEF StoreInv, SeenInv, Reading
      <4> QED
        BY <1>0, <1>1, <3>1, <4>1 DEF TypeOK
    <3>2. CASE Home[r] # p
      BY <1>0, <1>1, <2>1, <3>2 DEF StoreInv, ReadsFresh, TypeOK
    <3> QED
      BY <3>1, <3>2
  <2> QED
    BY <2>1 DEF ReadsFresh
<1> QED
  BY <1>0, <1>4, <1>5, <1>6, <1>7, <1>8, <1>9 DEF StoreInv

\* A new version: every marker is behind it, and every reader has seen it.
LEMMA PersistInv ==
  ASSUME StoreInv, NEW t \in Thread, Persist(t) PROVE StoreInv'
<1>0. TypeOK /\ TypeOK' /\ Home \in [Thread -> Process]
  BY StepType, ProcessAssumption DEF StoreInv, Step
<1>1. /\ hist' # <<>> /\ Len(hist') = Len(hist) + 1 /\ Len(hist) \in Nat
      /\ File' = Changed(t)
      /\ \A k \in 1..Len(hist) : hist'[k] = hist[k]
  BY <1>0, ChangedType, FileAppend, FileType DEF Persist
<1>2. /\ UNCHANGED <<synced, locks, memory, boot, job, receipts>>
      /\ pc[t] = "persist" /\ pc'[t] = "adopt"
      /\ \A r \in Thread : r # t => pc'[r] = pc[r]
      /\ blind' = blind \cup {p \in Process : boot[p] = "loaded"}
      /\ \A r \in Thread : seen[r] \subseteq seen'[r]
      /\ \A r \in Thread : Reading(r) => Changed(t)[job[r].name] \in seen'[r]
  BY <1>0 DEF Persist, Goto, TypeOK, Reading
<1>3. LockInv'
  BY <1>2 DEF StoreInv, LockInv, locks
<1>4. ChangeInv'
  <2>1. \A r \in Thread : r # t => pc[r] \notin {"persist", "adopt"}
    BY <1>2 DEF StoreInv, LockInv
  <2>2. Changed(t)' = Changed(t)
    BY <1>2 DEF Changed, memory
  <2> QED
    BY <1>1, <1>2, <2>1, <2>2 DEF ChangeInv
<1>5. MarkerInv'
  <2>1. \A p \in Process : marker'[p] = marker[p] /\ marker[p] \in Nat
                           /\ entries'[p] = entries[p] /\ boot'[p] = boot[p]
    BY <1>0, <1>2 DEF memory, TypeOK
  <2> QED
    BY <1>1, <1>2, <2>1 DEF StoreInv, MarkerInv
<1>6. SeenInv'
  <2>1. \A r \in Thread : Reading(r)' => Reading(r) /\ job[r].stat \in Nat
    BY <1>0, <1>2, ThreadType DEF Reading
  <2> QED
    BY <1>1, <1>2, <2>1 DEF StoreInv, SeenInv
<1>7. ReceiptInv'
  <2>1. \A r \in receipts : r.version \in 1..Len(hist)
    BY <1>0 DEF StoreInv, ReceiptInv, TypeOK
  <2> QED
    BY <1>1, <1>2, <2>1 DEF StoreInv, ReceiptInv
<1>8. ReadsFresh'
  BY <1>2 DEF StoreInv, ReadsFresh, memory
<1> QED
  BY <1>0, <1>3, <1>4, <1>5, <1>6, <1>7, <1>8 DEF StoreInv

LEMMA AdoptInv ==
  ASSUME StoreInv, NEW t \in Thread, Adopt(t) PROVE StoreInv'
<1>0. TypeOK /\ TypeOK' /\ Home \in [Thread -> Process] /\ Len(hist) \in Nat
  BY StepType, ProcessAssumption, FileType DEF StoreInv, Step
<1> DEFINE p == Home[t]
<1>1. /\ hist' = hist /\ File' = File /\ File = Changed(t) /\ hist # <<>>
      /\ boot' = boot /\ seen' = seen /\ synced' = Len(hist)
      /\ entries' = [entries EXCEPT ![p] = File]
      /\ marker' = [marker EXCEPT ![p] = Len(hist)]
      /\ blind' = blind \ {p} /\ pc[t] = "adopt"
  BY DEF Adopt, File, StoreInv, ChangeInv
<1>2. /\ LockInv' /\ pc'[t] = "idle"
      /\ \A r \in Thread : r # t => pc'[r] = pc[r] /\ job'[r] = job[r]
  BY <1>1, ReleaseInv DEF Adopt
<1>3. ChangeInv'
  <2>1. \A r \in Thread : r # t => pc[r] \notin {"persist", "adopt"}
    BY <1>1 DEF StoreInv, LockInv
  <2> QED
    BY <1>2, <2>1 DEF ChangeInv
<1>4. MarkerInv'
  <2>1. entries'[p] = File /\ marker'[p] = Len(hist) /\ \A q \in Process : q # p =>
          entries'[q] = entries[q] /\ marker'[q] = marker[q]
    BY <1>0, <1>1 DEF TypeOK
  <2>2. boot[p] = "up"
    BY <1>1 DEF StoreInv, LockInv
  <2> QED
    BY <1>0, <1>1, <2>1, <2>2 DEF StoreInv, MarkerInv
<1>5. SeenInv'
  BY <1>1, <1>2 DEF StoreInv, SeenInv, Reading
<1>6. ReceiptInv'
  <2>1. \A r \in receipts : r.version \in 1..Len(hist)
    BY <1>0 DEF StoreInv, ReceiptInv, TypeOK
  <2>2. Len(hist) \in 1..Len(hist) /\ hist[Len(hist)] = Changed(t)
    BY <1>0, <1>1 DEF File, TypeOK
  <2>3. job[t].name \in Name /\ entries[p] \in [Name -> Value]
    BY <1>0, <1>1 DEF TypeOK, Content
  <2>4. Changed(t)[job[t].name] = job[t].value
    BY <2>3 DEF Changed
  <2> QED
    BY <1>1, <2>1, <2>2, <2>4 DEF StoreInv, ReceiptInv, Adopt
<1>7. ReadsFresh'
  <2>1. ASSUME NEW r \in Thread, pc'[r] = "read"
        PROVE  entries'[Home[r]][job'[r].name] \in seen'[r] \/ Home[r] \in blind'
    <3>1. r # t /\ pc[r] = "read" /\ job'[r] = job[r]
      BY <1>2, <2>1
    <3>2. File[job[r].name] \in seen[r]
      BY <3>1 DEF StoreInv, SeenInv, Reading
    <3>3. CASE Home[r] = p
      BY <1>0, <1>1, <3>1, <3>2, <3>3 DEF TypeOK
    <3>4. CASE Home[r] # p
      BY <1>0, <1>1, <3>1, <3>4 DEF StoreInv, ReadsFresh, TypeOK
    <3> QED
      BY <3>3, <3>4
  <2> QED
    BY <2>1 DEF ReadsFresh
<1> QED
  BY <1>0, <1>2, <1>3, <1>4, <1>5, <1>6, <1>7 DEF StoreInv

----------------------------------------------------------------------------
\* Processes end, while the disk keeps what was forced out.
LEMMA GoneInv ==
  ASSUME StoreInv, TypeOK', NEW P \in SUBSET Process, Gone(P), synced' = synced,
         \A k \in 1..synced : hist'[k] = hist[k],
         \/ hist' = hist
         \/ P = Process
  PROVE  StoreInv'
<1>0. TypeOK /\ Home \in [Thread -> Process] /\ None \notin Thread
  BY ProcessAssumption DEF StoreInv
<1>1. \A t \in Thread :
        /\ Home[t] \in P => pc'[t] = "idle"
        /\ Home[t] \notin P => /\ pc'[t] = pc[t] /\ job'[t] = job[t]
                               /\ seen'[t] = seen[t]
  BY DEF Gone
<1>2. \A p \in Process :
        /\ p \in P => /\ boot'[p] = "down" /\ entries'[p] = Empty /\ marker'[p] = 0
                      /\ lock'[p] = None /\ p \notin blind'
        /\ p \notin P => /\ boot'[p] = boot[p] /\ entries'[p] = entries[p]
                         /\ marker'[p] = marker[p] /\ lock'[p] = lock[p]
                         /\ p \in blind' <=> p \in blind
  BY DEF Gone
<1>3. \A t \in Thread : flock' = t <=> flock = t /\ Home[t] \notin P
  BY <1>0 DEF Gone
<1>4. LockInv'
  BY <1>0, <1>1, <1>2, <1>3 DEF StoreInv, LockInv
<1>5. \A t \in Thread : Home[t] \notin P => hist' = hist /\ File' = File
  BY <1>0 DEF File
<1>6. ChangeInv'
  BY <1>0, <1>1, <1>2, <1>5 DEF StoreInv, ChangeInv, Changed
<1>7. MarkerInv'
  <2>1. Len(hist') \in Nat
    BY DEF TypeOK
  <2>2. CASE hist' = hist
    BY <1>2, <2>1, <2>2 DEF StoreInv, MarkerInv, File
  <2>3. CASE P = Process
    BY <1>2, <2>1, <2>3 DEF MarkerInv
  <2> QED
    BY <2>2, <2>3
<1>8. SeenInv'
  BY <1>0, <1>1, <1>5 DEF StoreInv, SeenInv, Reading
<1>9. ReceiptInv'
  BY DEF StoreInv, ReceiptInv, Gone
<1>10. ReadsFresh'
  BY <1>0, <1>1, <1>2 DEF StoreInv, ReadsFresh
<1> QED
  BY <1>4, <1>6, <1>7, <1>8, <1>9, <1>10 DEF StoreInv

LEMMA ProcessInv ==
  ASSUME StoreInv, NEW p \in Process, Start(p) \/ Mark(p) \/ Crash(p)
  PROVE  StoreInv'
<1>0. TypeOK /\ TypeOK' /\ Home \in [Thread -> Process] /\ Len(hist) \in Nat
  BY ProcessType, ProcessAssumption, FileType DEF StoreInv
<1>1. CASE Crash(p)
  <2>1. {p} \in SUBSET Process
    OBVIOUS
  <2> QED
    BY <1>0, <1>1, <2>1, GoneInv DEF Crash, disk
<1>2. CASE Start(p) \/ Mark(p)
  <2>1. /\ UNCHANGED <<hist, synced, locks, threads, receipts, seen, blind>>
        /\ boot[p] # "up" /\ File' = File /\ boot' = [boot EXCEPT ![p] = boot'[p]]
        /\ boot'[p] \in {"loaded", "up"}
        /\ \A q \in Process : q # p => /\ entries'[q] = entries[q]
                                       /\ marker'[q] = marker[q]
        /\ p \notin blind => entries'[p] = File
        /\ marker'[p] <= Len(hist)
        /\ hist = <<>> => entries'[p] = Empty
    BY <1>0, <1>2, LoadedFile
       DEF Start, Mark, disk, TypeOK, StoreInv, MarkerInv, File
  <2>2. \A t \in Thread : pc[t] # "idle" => Home[t] # p
    BY <2>1 DEF StoreInv, LockInv
  <2>3. \A t \in Thread : pc[t] # "idle" =>
          entries'[Home[t]] = entries[Home[t]] /\ boot'[Home[t]] = boot[Home[t]]
    BY <1>0, <2>1, <2>2 DEF TypeOK
  <2>4. LockInv'
    BY <2>1, <2>3 DEF StoreInv, LockInv, locks, threads
  <2>5. ChangeInv'
    BY <2>1, <2>3 DEF StoreInv, ChangeInv, Changed, threads
  <2>6. MarkerInv'
    <3>1. \A q \in Process : q # p => boot'[q] = boot[q]
      BY <1>0, <2>1 DEF TypeOK
    <3> QED
      BY <1>0, <2>1, <3>1 DEF StoreInv, MarkerInv
  <2>7. SeenInv' /\ ReceiptInv'
    BY <2>1 DEF StoreInv, SeenInv, ReceiptInv, Reading, threads
  <2>8. ReadsFresh'
    BY <2>1, <2>3 DEF StoreInv, ReadsFresh, threads
  <2> QED
    BY <1>0, <2>4, <2>5, <2>6, <2>7, <2>8 DEF StoreInv
<1> QED
  BY <1>1, <1>2

LEMMA PowerLossInv == StoreInv /\ PowerLoss => StoreInv'
<1> SUFFICES ASSUME StoreInv, PowerLoss PROVE StoreInv'
  OBVIOUS
<1>1. TypeOK /\ TypeOK'
  BY NextType DEF StoreInv, Next
<1>2. PICK k \in synced..Len(hist) :
        hist' = SubSeq(hist, 1, k) /\ Gone(Process) /\ UNCHANGED synced
  BY DEF PowerLoss
<1>3. \A i \in 1..synced : hist'[i] = hist[i]
  BY <1>1, <1>2, Shortened DEF TypeOK
<1> QED
  BY <1>1, <1>2, <1>3, GoneInv

LEMMA NextInv == StoreInv /\ [Next]_vars => StoreInv'
<1> SUFFICES ASSUME StoreInv, [Next]_vars PROVE StoreInv'
  OBVIOUS
<1>1. CASE UNCHANGED vars
  BY <1>1 DEF vars, disk, locks, memory, threads, StoreInv, TypeOK, LockInv, ChangeInv,
              MarkerInv, SeenInv, ReceiptInv, ReadsFresh, Reading, File, Changed
<1>2. ASSUME NEW t \in Thread, Step(t) PROVE StoreInv'
  BY <1>2, QuietStepInv, LoadStepInv, PersistInv, AdoptInv DEF Step
<1> QED
  BY <1>1, <1>2, CallInv, ProcessInv, PowerLossInv DEF Next

\* The locks, the memory of each process and the file fit together in every
\* behaviour.
THEOREM Invariance == Spec => []StoreInv
BY InitInv, NextInv, PTL DEF Spec

\* What resolve answers was in the file during the call.
THEOREM FreshSafe == Spec => []ReadsFresh
<1>1. StoreInv => ReadsFresh
  BY DEF StoreInv
<1> QED
  BY <1>1, Invariance, PTL

\* No crash and no loss of power takes what was reported as done.
THEOREM ReceiptsSafe == Spec => []ReceiptsKept
<1>1. StoreInv => ReceiptsKept
  BY DEF StoreInv, ReceiptInv, ReceiptsKept, TypeOK
<1> QED
  BY <1>1, Invariance, PTL

\* Two processes that write never lose each other's changes.
THEOREM WritesSafe == Spec => NoWriteLost
<1> DEFINE Kept == Len(hist') > Len(hist) =>
             \E t \in Thread :
               /\ pc[t] = "persist"
               /\ File' = [File EXCEPT ![job[t].name] = job[t].value]
<1>1. StoreInv /\ [Next]_vars => [Kept]_vars
  <2> SUFFICES ASSUME StoreInv, Next, Len(hist') > Len(hist)
               PROVE  \E t \in Thread :
                        /\ pc[t] = "persist"
                        /\ File' = [File EXCEPT ![job[t].name] = job[t].value]
    OBVIOUS
  <2>0. TypeOK /\ Len(hist) \in Nat
    BY FileType DEF StoreInv
  <2>1. ~PowerLoss
    <3> SUFFICES ASSUME NEW k \in synced..Len(hist), hist' = SubSeq(hist, 1, k)
                 PROVE  FALSE
      BY DEF PowerLoss
    <3> QED
      BY <2>0, Shortened DEF TypeOK
  <2>2. \A p \in Process : ~(Start(p) \/ Mark(p) \/ Crash(p))
    BY <2>0 DEF Start, Mark, Crash, disk
  <2>3. PICK t \in Thread : Call(t) \/ Step(t)
    BY <2>1, <2>2 DEF Next
  <2>4. Persist(t)
    BY <2>0, <2>3 DEF Call, Step, Write, Resolve, Begin, TakeLock, TakeFileLock, GiveUp,
                      PersistFails, Adopt, Compare, Reload, ReloadFails, Read, disk
  <2>5. File' = Changed(t)
    BY <2>0, <2>4, ChangedType, FileAppend DEF Persist
  <2> QED
    BY <2>4, <2>5 DEF Persist, StoreInv, ChangeInv, Changed
<1>2. Spec => [][Kept]_vars
  BY <1>1, Invariance, PTL DEF Spec
<1> QED
  BY <1>2 DEF NoWriteLost

----------------------------------------------------------------------------
(* The store implements SecretMap.                                         *)

\* A step of one thread leaves what the others have asked for alone, and a new
\* version of the file what they have made, if none waits for its report.
LEMMA MapThread ==
  ASSUME TypeOK, NEW t \in Thread,
         \A u \in Thread \ {t} : pc'[u] = pc[u] /\ job'[u] = job[u],
         hist' = hist \/ \A u \in Thread \ {t} : pc[u] # "adopt"
  PROVE  /\ [u \in Thread |-> Asked(u)]' =
              [[u \in Thread |-> Asked(u)] EXCEPT ![t] = Asked(t)']
         /\ [u \in Thread |-> Made(u)]' =
              [[u \in Thread |-> Made(u)] EXCEPT ![t] = Made(t)']
<1>1. \A u \in Thread \ {t} : Asked(u)' = Asked(u) /\ Made(u)' = Made(u)
  BY DEF Asked, Made, Change, Receipt
<1> QED
  BY <1>1

\* One that neither asks for a change nor makes one is no step of the map.
LEMMA MapQuiet ==
  ASSUME UNCHANGED <<hist, synced, receipts>>,
         \A t \in Thread : Asked(t)' = Asked(t) /\ Made(t)' = Made(t)
  PROVE  UNCHANGED (Map!mapVars)
BY DEF Map!mapVars

LEMMA MapThreadQuiet ==
  ASSUME TypeOK, NEW t \in Thread, UNCHANGED <<hist, synced, receipts>>,
         \A u \in Thread \ {t} : pc'[u] = pc[u] /\ job'[u] = job[u],
         Asked(t)' = Asked(t), Made(t)' = Made(t)
  PROVE  UNCHANGED (Map!mapVars)
<1>1. \A u \in Thread \ {t} : Asked(u)' = Asked(u) /\ Made(u)' = Made(u)
  BY DEF Asked, Made, Change, Receipt
<1> QED
  BY <1>1, MapQuiet

\* Where a thread is after Goto, Begin, End and Release.
LEMMA ThreadMoves ==
  ASSUME TypeOK, NEW t \in Thread
  PROVE  /\ \A l : Goto(t, l) =>
              pc'[t] = l /\ \A u \in Thread \ {t} : pc'[u] = pc[u]
         /\ End(t) => /\ pc'[t] = "idle"
                      /\ \A u \in Thread \ {t} : pc'[u] = pc[u] /\ job'[u] = job[u]
         /\ \A j, l : Begin(t, j, l) =>
              /\ pc'[t] = l /\ job'[t] = j
              /\ \A u \in Thread \ {t} : pc'[u] = pc[u] /\ job'[u] = job[u]
BY DEF TypeOK, Goto, End, Begin

LEMMA MapCall ==
  ASSUME StoreInv, NEW t \in Thread, Call(t)
  PROVE  [Map!Next]_(Map!mapVars)
<1>0. TypeOK
  BY DEF StoreInv
<1>1. ASSUME NEW n \in Name, NEW kind \in {"put", "delete"}, Write(t, kind, n)
      PROVE  Map!Next
  <2> DEFINE d == [name |-> n, value |-> IF kind = "put" THEN writes' ELSE 0]
  <2>1. /\ pc[t] = "idle" /\ UNCHANGED <<hist, synced, receipts>>
        /\ Begin(t, Job(kind, n, d.value), "lock")
        /\ writes < MaxWrites /\ writes' = writes + 1
    BY <1>1 DEF Write, Begin, disk
  <2>2. /\ pc'[t] = "lock" /\ job'[t] = Job(kind, n, d.value)
        /\ \A u \in Thread \ {t} : pc'[u] = pc[u] /\ job'[u] = job[u]
    BY <1>0, <2>1, ThreadMoves
  <2>3. d \in Map!Change
    BY <1>0, <2>1, WriteAssumption DEF Map!Change, Value, TypeOK
  <2>4. /\ Asked(t) = {} /\ Made(t) = {}
        /\ Asked(t)' = {d} /\ Made(t)' = {}
    BY <2>1, <2>2 DEF Asked, Made, Change, Receipt, Job
  <2>5. /\ [u \in Thread |-> Asked(u)]' = [[u \in Thread |-> Asked(u)] EXCEPT ![t] = {d}]
        /\ [u \in Thread |-> Made(u)]' = [u \in Thread |-> Made(u)]
    BY <1>0, <2>1, <2>2, <2>4, MapThread
  <2>6. Map!Ask(t, d)
    BY <2>1, <2>4, <2>5 DEF Map!Ask
  <2> QED
    BY <2>3, <2>6 DEF Map!Next
<1>2. ASSUME NEW n \in Name, Resolve(t, n) PROVE UNCHANGED (Map!mapVars)
  <2>1. /\ pc[t] = "idle" /\ UNCHANGED <<hist, synced, receipts>>
        /\ Begin(t, Job("resolve", n, 0), "stat")
    BY <1>2 DEF Resolve, Begin, disk
  <2>2. /\ pc'[t] = "stat"
        /\ \A u \in Thread \ {t} : pc'[u] = pc[u] /\ job'[u] = job[u]
    BY <1>0, <2>1, ThreadMoves
  <2>3. Asked(t)' = Asked(t) /\ Made(t)' = Made(t)
    BY <2>1, <2>2 DEF Asked, Made
  <2> QED
    BY <1>0, <2>1, <2>2, <2>3, MapThreadQuiet
<1> QED
  BY <1>1, <1>2 DEF Call

\* Waiting for the locks, and all that a reader does.
LEMMA MapWait ==
  ASSUME StoreInv, NEW t \in Thread,
         \/ TakeLock(t) \/ TakeFileLock(t) \/ Compare(t) \/ Reload(t)
         \/ ReloadFails(t) \/ Read(t)
  PROVE  UNCHANGED (Map!mapVars)
<1>0. TypeOK /\ UNCHANGED <<hist, synced, receipts>>
  BY DEF StoreInv, TakeLock, TakeFileLock, Compare, Reload, ReloadFails, Read, disk
<1>1. CASE TakeLock(t) \/ TakeFileLock(t)
  <2>1. /\ job' = job
        /\ pc[t] \in {"lock", "flock"} /\ pc'[t] \in {"flock", "persist"}
        /\ \A u \in Thread \ {t} : pc'[u] = pc[u]
    BY <1>0, <1>1, ThreadMoves DEF TakeLock, TakeFileLock
  <2>2. Asked(t)' = Asked(t) /\ Made(t)' = Made(t)
    BY <2>1 DEF Asked, Made, Change
  <2> QED
    BY <1>0, <2>1, <2>2, MapThreadQuiet
<1>2. CASE Compare(t) \/ Reload(t) \/ ReloadFails(t) \/ Read(t)
  <2>1. /\ Reading(t) /\ pc'[t] \in {"reload", "read", "idle"}
        /\ \A u \in Thread \ {t} : pc'[u] = pc[u]
    BY <1>0, <1>2, ThreadMoves
       DEF Compare, Reload, ReloadFails, Read, Reading
  <2>2. \A u \in Thread \ {t} : job'[u] = job[u]
    BY <1>0, <1>2, ThreadMoves DEF Compare, Reload, ReloadFails, Read, TypeOK
  <2>3. Asked(t)' = Asked(t) /\ Made(t)' = Made(t)
    BY <2>1 DEF Asked, Made, Reading
  <2> QED
    BY <1>0, <2>1, <2>2, <2>3, MapThreadQuiet
<1> QED
  BY <1>1, <1>2

\* A call that raises, before its change is in the file.
LEMMA MapRefuse ==
  ASSUME StoreInv, NEW t \in Thread, GiveUp(t) \/ PersistFails(t)
  PROVE  Map!Next
<1>0. TypeOK /\ UNCHANGED <<hist, synced, receipts>> /\ pc[t] \in {"flock", "persist"}
  BY DEF StoreInv, GiveUp, PersistFails, disk
<1>1. /\ pc'[t] = "idle"
      /\ \A u \in Thread \ {t} : pc'[u] = pc[u] /\ job'[u] = job[u]
  BY <1>0, ThreadMoves DEF GiveUp, PersistFails, Release
<1>2. /\ Asked(t) # {} /\ Made(t) = {}
      /\ Asked(t)' = {} /\ Made(t)' = {}
  BY <1>0, <1>1 DEF Asked, Made
<1>3. /\ [u \in Thread |-> Asked(u)]' = [[u \in Thread |-> Asked(u)] EXCEPT ![t] = {}]
      /\ [u \in Thread |-> Made(u)]' = [u \in Thread |-> Made(u)]
  BY <1>0, <1>1, <1>2, MapThread
<1>4. Map!Refuse(t)
  BY <1>0, <1>2, <1>3 DEF Map!Refuse
<1> QED
  BY <1>4 DEF Map!Next

\* What a thread asked for is a change of the map.
LEMMA ChangeType ==
  ASSUME TypeOK, NEW t \in Thread, pc[t] # "idle"
  PROVE  Change(t) \in Map!Change
BY DEF TypeOK, Change, Map!Change, JobType

\* os.replace: under both locks the memory is the file, so that the file changes
\* under one name.
LEMMA MapPersist ==
  ASSUME StoreInv, NEW t \in Thread, Persist(t)
  PROVE  Map!Next
<1> DEFINE c == Change(t)
           r == [name |-> c.name, value |-> c.value, version |-> Len(hist) + 1]
<1>0. TypeOK /\ UNCHANGED <<synced, receipts, job>> /\ pc[t] = "persist"
  BY DEF StoreInv, Persist
<1>1. pc'[t] = "adopt" /\ \A u \in Thread \ {t} : pc'[u] = pc[u]
  BY <1>0, ThreadMoves DEF Persist
<1>2. hist' = Append(hist, Changed(t)) /\ Len(hist') = Len(hist) + 1
  BY <1>0, ChangedType DEF Persist, TypeOK
<1>3. Asked(t) = {c} /\ Asked(t)' = {} /\ Made(t)' = {r}
  BY <1>0, <1>1, <1>2 DEF Asked, Made, Change, Receipt
<1>4. \A u \in Thread \ {t} : pc[u] # "adopt"
  BY <1>0 DEF StoreInv, LockInv
<1>5. /\ [u \in Thread |-> Asked(u)]' = [[u \in Thread |-> Asked(u)] EXCEPT ![t] = {}]
      /\ [u \in Thread |-> Made(u)]' = [[u \in Thread |-> Made(u)] EXCEPT ![t] = {r}]
  BY <1>0, <1>1, <1>3, <1>4, MapThread
<1>6. entries[Home[t]] = File
  BY <1>0 DEF StoreInv, ChangeInv
<1>7. hist' = Append(hist, [File EXCEPT ![c.name] = c.value])
  BY <1>2, <1>6 DEF Changed, Change
<1>8. Map!Latest = File
  BY DEF Map!Latest, File, Empty
<1>9. Map!TakeEffect(t, c)
  BY <1>0, <1>3, <1>5, <1>7, <1>8 DEF Map!TakeEffect
<1> QED
  BY <1>0, <1>9, ChangeType DEF Map!Next

\* The return of put and delete, after the fsync.
LEMMA MapAdopt ==
  ASSUME StoreInv, NEW t \in Thread, Adopt(t)
  PROVE  Map!Next
<1>0. /\ TypeOK /\ UNCHANGED hist /\ pc[t] = "adopt" /\ synced' = Len(hist)
      /\ receipts' = receipts \cup {Receipt(t)}
  BY DEF StoreInv, Adopt, Receipt
<1>1. /\ pc'[t] = "idle"
      /\ \A u \in Thread \ {t} : pc'[u] = pc[u] /\ job'[u] = job[u]
  BY <1>0, ThreadMoves DEF Adopt, Release
<1>2. /\ Made(t) = {Receipt(t)} /\ Asked(t) = {} /\ Asked(t)' = {} /\ Made(t)' = {}
  BY <1>0, <1>1 DEF Asked, Made
<1>3. /\ [u \in Thread |-> Asked(u)]' = [u \in Thread |-> Asked(u)]
      /\ [u \in Thread |-> Made(u)]' = [[u \in Thread |-> Made(u)] EXCEPT ![t] = {}]
  BY <1>0, <1>1, <1>2, MapThread
<1>4. synced' \in synced..Len(hist) /\ Receipt(t).version <= synced'
  BY <1>0 DEF TypeOK, Receipt
<1>5. /\ [u \in Thread |-> Made(u)][t] = {Receipt(t)}
      /\ Map!Report(t, Receipt(t))
  BY <1>0, <1>2, <1>3, <1>4 DEF Map!Report
<1> QED
  BY <1>5 DEF Map!Next

\* A process that ends takes the calls of its threads with it.
LEMMA MapGone ==
  ASSUME NEW P \in SUBSET Process, Gone(P), TypeOK, hist' = hist \/ P = Process
  PROVE  LET C == {t \in Thread : Home[t] \in P} IN
         /\ [u \in Thread |-> Asked(u)]' = Map!Without([u \in Thread |-> Asked(u)], C)
         /\ [u \in Thread |-> Made(u)]' = Map!Without([u \in Thread |-> Made(u)], C)
<1> DEFINE C == {t \in Thread : Home[t] \in P}
<1>1. ASSUME NEW u \in Thread
      PROVE  /\ Asked(u)' = IF u \in C THEN {} ELSE Asked(u)
             /\ Made(u)' = IF u \in C THEN {} ELSE Made(u)
  <2>1. pc'[u] = (IF u \in C THEN "idle" ELSE pc[u]) /\ (u \notin C => job'[u] = job[u])
    BY DEF Gone
  <2>2. u \in C \/ hist' = hist
    BY ProcessAssumption
  <2> QED
    BY <2>1, <2>2 DEF Asked, Made, Change, Receipt
<1> QED
  BY <1>1 DEF Map!Without

LEMMA MapProcess ==
  ASSUME StoreInv, NEW p \in Process, Start(p) \/ Mark(p) \/ Crash(p)
  PROVE  [Map!Next]_(Map!mapVars)
<1>1. CASE Start(p) \/ Mark(p)
  <2>1. UNCHANGED <<hist, synced, receipts, pc, job>>
    BY <1>1 DEF Start, Mark, disk, threads
  <2>2. \A t \in Thread : Asked(t)' = Asked(t) /\ Made(t)' = Made(t)
    BY <2>1 DEF Asked, Made, Change, Receipt
  <2> QED
    BY <2>1, <2>2, MapQuiet
<1>2. CASE Crash(p)
  <2> DEFINE C == {t \in Thread : Home[t] \in {p}}
  <2>1. TypeOK /\ Gone({p}) /\ UNCHANGED <<hist, synced, receipts>>
    BY <1>2 DEF StoreInv, Crash, Gone, disk
  <2>2. /\ [u \in Thread |-> Asked(u)]' = Map!Without([u \in Thread |-> Asked(u)], C)
        /\ [u \in Thread |-> Made(u)]' = Map!Without([u \in Thread |-> Made(u)], C)
    BY <2>1, MapGone
  <2>3. Map!Leave(C)
    BY <2>1, <2>2 DEF Map!Leave
  <2>4. C \in SUBSET Thread
    OBVIOUS
  <2> QED
    BY <2>3, <2>4 DEF Map!Next
<1> QED
  BY <1>1, <1>2

LEMMA MapPower ==
  ASSUME StoreInv, PowerLoss PROVE Map!Next
<1>1. PICK k \in synced..Len(hist) :
        hist' = SubSeq(hist, 1, k) /\ Gone(Process) /\ UNCHANGED synced
  BY DEF PowerLoss
<1>2. {t \in Thread : Home[t] \in Process} = Thread
  BY ProcessAssumption
<1>3. /\ [u \in Thread |-> Asked(u)]' = Map!Without([u \in Thread |-> Asked(u)], Thread)
      /\ [u \in Thread |-> Made(u)]' = Map!Without([u \in Thread |-> Made(u)], Thread)
  <2> DEFINE C == {t \in Thread : Home[t] \in Process}
  <2>1. /\ [u \in Thread |-> Asked(u)]' = Map!Without([u \in Thread |-> Asked(u)], C)
        /\ [u \in Thread |-> Made(u)]' = Map!Without([u \in Thread |-> Made(u)], C)
    BY <1>1, MapGone DEF StoreInv
  <2> QED
    BY <1>2, <2>1
<1>4. receipts' = receipts
  BY <1>1 DEF Gone
<1>5. Map!LosePower
  BY <1>1, <1>3, <1>4 DEF Map!LosePower
<1> QED
  BY <1>5 DEF Map!Next

\* The store, with its processes, locks, markers and crashes, changes as one map
\* does: a call takes effect once or not at all, on what all the others have
\* written, one that raised has no effect, and what was reported is kept.
THEOREM MapImplemented == Spec => ImplementsMap
<1>1. Init => Map!Init
  <2> SUFFICES ASSUME Init PROVE Map!Init
    OBVIOUS
  <2>1. \A t \in Thread : Asked(t) = {} /\ Made(t) = {}
    BY DEF Init, Asked, Made
  <2> QED
    BY <2>1 DEF Init, Map!Init
<1>2. StoreInv /\ [Next]_vars => [Map!Next]_(Map!mapVars)
  <2> SUFFICES ASSUME StoreInv, [Next]_vars PROVE [Map!Next]_(Map!mapVars)
    OBVIOUS
  <2>1. ASSUME UNCHANGED vars PROVE UNCHANGED (Map!mapVars)
    <3>1. \A t \in Thread : Asked(t)' = Asked(t) /\ Made(t)' = Made(t)
      BY <2>1 DEF vars, disk, threads, Asked, Made, Change, Receipt
    <3> QED
      BY <2>1, <3>1, MapQuiet DEF vars, disk
  <2>2. ASSUME NEW t \in Thread, Step(t) PROVE [Map!Next]_(Map!mapVars)
    BY <2>2, MapWait, MapRefuse, MapPersist, MapAdopt DEF Step
  <2> QED
    BY <2>1, <2>2, MapCall, MapProcess, MapPower DEF Next
<1> QED
  BY <1>1, <1>2, Invariance, PTL DEF Spec, ImplementsMap, Map!Spec
============================================================================
