-------------------------- MODULE AuditLogProofs --------------------------
(***************************************************************************)
(* Proofs about AuditLog, for any number of processes, threads, entries    *)
(* and key generations.                                                    *)
(***************************************************************************)
EXTENDS AuditLogDisturbedInv, SequenceTheorems, TLAPS

----------------------------------------------------------------------------
(* Type correctness.                                                       *)

LEMMA HeadHashType ==
  ASSUME NEW es \in Seq(Entry) PROVE HeadHash(es) \in Hash
<1>1. CASE es = <<>>
  BY <1>1, BoundAssumption DEF HeadHash, Hash, Genesis
<1>2. CASE es # <<>>
  <2>1. Len(es) \in 1..Len(es)
    BY <1>2
  <2>2. es[Len(es)] \in Entry
    BY <2>1, ElementOfSeq
  <2>3. es[Len(es)].hash \in Hash
    BY <2>2 DEF Entry
  <2> QED
    BY <1>2, <2>3 DEF HeadHash
<1> QED
  BY <1>1, <1>2

LEMMA LoadedType ==
  ASSUME NEW es \in Seq(Entry) PROVE Loaded(es) \in MemType
BY HeadHashType DEF Loaded, MemType

LEMMA EmptyLogType == EmptyLog \in MemType
BY BoundAssumption DEF EmptyLog, MemType, Hash, Genesis

LEMMA NoRecordType == NoEntry \in Entry
BY BoundAssumption DEF NoEntry, Entry, Hash, Gen, Genesis

LEMMA NoViewType == NoView \in ViewType
<1>1. <<>> \in Seq(Entry)
  OBVIOUS
<1> QED
  BY <1>1, BoundAssumption DEF ViewType, NoView, NoAnchor, Anchor, Hash, Genesis

LEMMA FindingType ==
  ASSUME NEW es, NEW a, NEW g
  PROVE  Finding(es, a, g) \in {"ok", "plik", "kotwica", "lancuch"}
BY DEF Finding

LEMMA InitType == Init => TypeOK
<1> SUFFICES ASSUME Init PROVE TypeOK
  OBVIOUS
<1>1. <<>> \in Seq(Entry)
  OBVIOUS
<1>2. 0 \in Hash /\ 0 \in Gen
  BY BoundAssumption DEF Hash, Gen
<1>3. NoAnchor \in Anchor
  BY <1>2 DEF NoAnchor, Anchor, Genesis
<1>4. 0 \in 0..Len(<<>>)
  OBVIOUS
<1> QED
  BY <1>1, <1>2, <1>3, <1>4, NoRecordType, NoViewType, EmptyLogType
     DEF Init, TypeOK, Label

LEMMA NextType == TypeOK /\ [Next]_vars => TypeOK'
<1> SUFFICES ASSUME TypeOK, [Next]_vars PROVE TypeOK'
  OBVIOUS
<1> USE DEF disk, locks, procs, watch
<1>1. ASSUME NEW p \in Proc, Load(p) PROVE TypeOK'
  <2>1. Loaded(file) \in MemType
    BY LoadedType DEF TypeOK
  <2> QED
    BY <1>1, <2>1 DEF Load, TypeOK
<1>2. ASSUME NEW p \in Proc, Check(p) PROVE TypeOK'
  <2>1. Refreshed(mem[p]) \in MemType /\ mem[p] \in MemType
    BY LoadedType DEF TypeOK, Refreshed
  <2> QED
    BY <1>2, <2>1 DEF Check, TypeOK
<1>3. ASSUME NEW p \in Proc, BootTimeout(p) PROVE TypeOK'
  BY <1>3, EmptyLogType DEF BootTimeout, TypeOK
<1>4. ASSUME NEW T, Stopped(T)
      PROVE  /\ pc' \in [Thread -> Label]
             /\ draft' \in [Recorder -> Entry]
             /\ view' \in [Verifier \cup Inspector -> ViewType]
             /\ flock' \in Recorder \cup {None}
  BY <1>4, NoRecordType, NoViewType DEF Stopped, TypeOK, Label
<1>5. ASSUME NEW p \in Proc, Crash(p) PROVE TypeOK'
  BY <1>5, <1>4, EmptyLogType DEF Crash, TypeOK
<1>6. CASE PowerLoss
  <2>1. PICK n \in synced..Len(file) :
          /\ file' = SubSeq(file, 1, n)
          /\ torn' \in IF n < Len(file) THEN BOOLEAN ELSE {torn, FALSE}
          /\ glue' \in IF 0 < glue /\ glue <= n THEN {glue}
                       ELSE IF torn' \/ n = synced THEN {0} ELSE {0, n}
          /\ synced' = n
    BY <1>6 DEF PowerLoss
  <2>2. n \in Nat /\ n <= Len(file) /\ file \in Seq(Entry)
    BY DEF TypeOK
  <2>3. file' \in Seq(Entry) /\ Len(file') = n /\ synced' \in Nat
    BY <2>1, <2>2
  <2>4. torn' \in BOOLEAN
    BY <2>1 DEF TypeOK
  <2>5. glue' \in 0..n
    BY <2>1, <2>2 DEF TypeOK
  <2> QED
    BY <1>6, <2>3, <2>4, <2>5, <1>4, EmptyLogType DEF PowerLoss, TypeOK
<1>7. CASE RotateKey
  BY <1>7, BoundAssumption DEF RotateKey, TypeOK, Gen
<1>8. ASSUME NEW t \in Recorder, NEW m \in MemType, Fail(t, m),
             UNCHANGED <<synced, anchor, anchorOld, minted>>,
             file' \in Seq(Entry), torn' \in BOOLEAN, glue' \in 0..Len(file')
      PROVE  TypeOK'
  BY <1>8, EmptyLogType, NoRecordType DEF Fail, Release, Goto, TypeOK, Label
<1>9. ASSUME NEW t \in Recorder, Begin(t) PROVE TypeOK'
  BY <1>9 DEF Begin, Goto, TypeOK, Label
<1>10. ASSUME NEW t \in Recorder PROVE /\ Home[t] \in Proc
                                       /\ mem[Home[t]] \in MemType
                                       /\ t \in Thread
  BY ThreadAssumption DEF TypeOK, Thread
<1>11. ASSUME NEW t \in Recorder, TakeFileLock(t) PROVE TypeOK'
  BY <1>11 DEF TakeFileLock, Goto, TypeOK, Label
<1>12. ASSUME NEW t \in Recorder, LockTimeout(t) PROVE TypeOK'
  BY <1>12, <1>8, <1>10 DEF LockTimeout, TypeOK
<1>13. ASSUME NEW t \in Recorder, Refresh(t) PROVE TypeOK'
  <2>1. Refreshed(mem[Home[t]]) \in MemType
    BY <1>10, LoadedType DEF TypeOK, Refreshed
  <2>2. CASE Fail(t, Refreshed(mem[Home[t]]))
    BY <1>13, <2>1, <2>2, <1>8 DEF Refresh, TypeOK
  <2>3. CASE ~Fail(t, Refreshed(mem[Home[t]]))
    <3>1. /\ UNCHANGED <<disk, locks, boot, gen, draft, watch, cfgGen, minted, acked>>
          /\ Goto(t, "build")
          /\ mem' = [mem EXCEPT ![Home[t]] = Refreshed(mem[Home[t]])]
      BY <1>13, <2>3 DEF Refresh
    <3> QED
      BY <1>10, <2>1, <3>1 DEF Goto, TypeOK, Label
  <2> QED
    BY <2>2, <2>3
<1>14. ASSUME NEW t \in Recorder, Build(t) PROVE TypeOK'
  <2>1. minted + 1 \in Hash /\ minted' = minted + 1
    BY <1>14, BoundAssumption DEF Build, TypeOK, Hash
  <2>2. NewEntry(Home[t]) \in Entry
    BY <2>1, <1>10 DEF NewEntry, Entry, MemType, TypeOK
  <2> QED
    BY <1>14, <2>1, <2>2 DEF Build, Goto, TypeOK, Label
<1>15. ASSUME NEW t \in Recorder, BuildFails(t) PROVE TypeOK'
  BY <1>15, <1>8, <1>10 DEF BuildFails, TypeOK
<1>16. ASSUME NEW t \in Recorder, Write(t) PROVE TypeOK'
  <2>1. Append(file, draft[t]) \in Seq(Entry)
    BY DEF TypeOK
  <2>2. glue \in 0..Len(Append(file, draft[t]))
    BY DEF TypeOK
  <2> QED
    BY <1>16, <2>1, <2>2 DEF Write, Goto, TypeOK, Label
<1>17. ASSUME NEW t \in Recorder, WriteFails(t) PROVE TypeOK'
  <2>1. Append(file, draft[t]) \in Seq(Entry)
    BY DEF TypeOK
  <2>2. file' \in Seq(Entry)
    BY <1>17, <2>1 DEF WriteFails, TypeOK
  <2>3. torn' \in BOOLEAN
    BY <1>17 DEF WriteFails, TypeOK
  <2>4. glue' \in 0..Len(file')
    <3>1. file \in Seq(Entry) /\ draft[t] \in Entry /\ glue \in 0..Len(file)
      BY DEF TypeOK
    <3>2. Len(Append(file, draft[t])) = Len(file) + 1
      BY <3>1
    <3> QED
      BY <1>17, <3>1, <3>2 DEF WriteFails
  <2> QED
    BY <1>17, <2>2, <2>3, <2>4, <1>8, <1>10 DEF WriteFails
<1>18. ASSUME NEW t \in Recorder, Commit(t) PROVE TypeOK'
  <2>1. FileSize \in Nat /\ Len(file) \in Nat
    BY DEF FileSize, TypeOK
  <2>2. Append(mem[Home[t]].entries, draft[t]) \in Seq(Entry)
    BY <1>10 DEF TypeOK, MemType
  <2>3. Extended(mem[Home[t]], t) \in MemType
    BY <2>1, <2>2 DEF Extended, MemType, TypeOK, Entry
  <2> QED
    BY <1>18, <2>1, <2>3 DEF Commit, Goto, TypeOK, Label
<1>19. ASSUME NEW t \in Recorder, WriteAnchor(t) PROVE TypeOK'
  <2>1. NewAnchor(mem[Home[t]]) \in Anchor
    BY <1>10 DEF NewAnchor, Anchor, MemType
  <2>2. draft[t].hash \in Hash
    BY DEF TypeOK, Entry
  <2> QED
    BY <1>19, <2>1, <2>2, NoRecordType DEF WriteAnchor, Release, Goto, TypeOK, Label
<1>20. ASSUME NEW v \in Verifier, VerifyStep(v) PROVE TypeOK'
  <2> USE DEF quietV
  <2>1. v \in Thread /\ Home[v] \in Proc
    BY ThreadAssumption DEF Thread
  <2>2. ASSUME NEW r \in {"ok", "plik", "kotwica", "lancuch"}, Report(v, r),
               quietV' = quietV, mem' = mem
        PROVE  TypeOK'
    BY <2>1, <2>2, NoViewType DEF Report, Goto, TypeOK, Label
  <2>3. CASE VerifyStat(v)
    <3>1. mem[Home[v]].last \in Hash
      BY <2>1 DEF TypeOK, MemType
    <3>2. CASE Report(v, "plik")
      BY <2>3, <2>2, <3>2 DEF VerifyStat
    <3>3. CASE ~Report(v, "plik")
      <4>1. [view EXCEPT ![v].head = mem[Home[v]].last]
              \in [Verifier \cup Inspector -> ViewType]
        BY <3>1 DEF TypeOK, ViewType
      <4>2. view' \in [Verifier \cup Inspector -> ViewType]
        BY <2>3, <3>3, <4>1 DEF VerifyStat, TypeOK
      <4> QED
        BY <2>3, <2>1, <3>3, <4>2 DEF VerifyStat, Goto, TypeOK, Label
    <3> QED
      BY <3>2, <3>3
  <2>4. CASE VerifyRead(v)
    <3>1. CASE Report(v, "plik")
      BY <2>4, <2>2, <3>1 DEF VerifyRead
    <3>2. CASE ~Report(v, "plik")
      <4>1. [view EXCEPT ![v].read = file]
              \in [Verifier \cup Inspector -> ViewType]
        BY DEF TypeOK, ViewType
      <4>2. view' \in [Verifier \cup Inspector -> ViewType]
        BY <2>4, <3>2, <4>1 DEF VerifyRead, TypeOK
      <4> QED
        BY <2>4, <2>1, <3>2, <4>2 DEF VerifyRead, Goto, TypeOK, Label
    <3> QED
      BY <3>1, <3>2
  <2>5. CASE VerifyAssign(v)
    <3>0. /\ mem[Home[v]].size \in Nat
          /\ Loaded(view[v].read) \in [entries : Seq(Entry), last : Hash, size : Nat]
      BY <2>1, LoadedType DEF TypeOK, ViewType, MemType
    <3>1. [Loaded(view[v].read) EXCEPT !.size = mem[Home[v]].size] \in MemType
      BY <3>0 DEF MemType
    <3> QED
      BY <2>5, <2>1, <3>1 DEF VerifyAssign, Goto, TypeOK, Label
  <2>8. CASE VerifyResize(v)
    <3>1. Len(view[v].read) \in Nat
      BY DEF TypeOK, ViewType
    <3>2. [mem[Home[v]] EXCEPT !.size = Len(view[v].read)] \in MemType
      BY <2>1, <3>1 DEF TypeOK, MemType
    <3> QED
      BY <2>8, <2>1, <3>2, NoViewType DEF VerifyResize, Report, Goto, TypeOK, Label
  <2>6. CASE VerifyAnchor(v)
    <3>1. [view EXCEPT ![v].anchor = anchor]
            \in [Verifier \cup Inspector -> ViewType]
      BY DEF TypeOK, ViewType
    <3>2. view' \in [Verifier \cup Inspector -> ViewType]
      BY <2>6, <3>1 DEF VerifyAnchor
    <3> QED
      BY <2>6, <2>1, <3>2 DEF VerifyAnchor, Goto, TypeOK, Label
  <2>7. CASE VerifyCheck(v)
    <3>1. Finding(mem[Home[v]].entries, view[v].anchor, gen[Home[v]])
            \in {"ok", "plik", "kotwica", "lancuch"}
      BY FindingType
    <3> QED
      BY <2>7, <2>2, <3>1 DEF VerifyCheck
  <2> QED
    BY <1>20, <2>3, <2>4, <2>5, <2>6, <2>7, <2>8 DEF VerifyStep
<1>21. ASSUME NEW v \in Inspector, InspectLoad(v) \/ InspectVerify(v)
       PROVE  TypeOK'
  <2> USE DEF quietV
  <2>1. v \in Thread
    BY DEF Thread
  <2>2. ASSUME NEW r \in {"ok", "plik", "kotwica", "lancuch"}, Report(v, r),
               quietV' = quietV, mem' = mem
        PROVE  TypeOK'
    BY <2>1, <2>2, NoViewType DEF Report, Goto, TypeOK, Label
  <2>3. CASE InspectVerify(v)
    <3>1. Finding(view[v].read, anchor, cfgGen)
            \in {"ok", "plik", "kotwica", "lancuch"}
      BY FindingType
    <3> QED
      BY <2>3, <2>2, <3>1 DEF InspectVerify
  <2>4. CASE InspectLoad(v) /\ Report(v, "plik")
    BY <2>4, <2>2 DEF InspectLoad
  <2>5. CASE InspectLoad(v) /\ ~Report(v, "plik")
    <3>1. [view EXCEPT ![v].read = file]
            \in [Verifier \cup Inspector -> ViewType]
      BY DEF TypeOK, ViewType
    <3>2. view' \in [Verifier \cup Inspector -> ViewType]
      BY <2>5, <3>1 DEF InspectLoad, TypeOK
    <3> QED
      BY <2>5, <2>1, <3>2 DEF InspectLoad, Goto, TypeOK, Label
  <2> QED
    BY <1>21, <2>3, <2>4, <2>5
<1>22. CASE UNCHANGED vars
  BY <1>22 DEF vars, TypeOK
<1> QED
  BY <1>1, <1>2, <1>3, <1>5, <1>6, <1>7, <1>9, <1>11, <1>12, <1>13, <1>14,
     <1>15, <1>16, <1>17, <1>18, <1>19, <1>20, <1>21, <1>22
     DEF Next, Step, RecordStep

\* Every variable keeps its type, whichever threads verify.
THEOREM TypeCorrect == Spec => []TypeOK
<1>1. Init => TypeOK
  BY InitType
<1>2. TypeOK /\ [Next]_vars => TypeOK'
  BY NextType
<1> QED
  BY <1>1, <1>2, PTL DEF Spec

----------------------------------------------------------------------------
(* Facts about the logs the invariant speaks of.                           *)

LEMMA PrefixOfAppend ==
  ASSUME NEW s \in Seq(Entry), NEW f \in Seq(Entry), NEW e \in Entry,
         IsPrefixOf(s, f)
  PROVE  IsPrefixOf(s, Append(f, e))
BY DEF IsPrefixOf

LEMMA PrefixGrown ==
  ASSUME NEW s \in Seq(Entry), NEW f \in Seq(Entry), NEW e \in Entry,
         IsPrefixOf(s, f), Len(s) + 1 = Len(f), f[Len(f)] = e
  PROVE  IsPrefixOf(Append(s, e), f)
BY DEF IsPrefixOf

LEMMA PrefixOfSelf ==
  ASSUME NEW f \in Seq(Entry) PROVE IsPrefixOf(f, f)
BY DEF IsPrefixOf

LEMMA EmptyPrefix ==
  ASSUME NEW f \in Seq(Entry) PROVE IsPrefixOf(<<>>, f)
BY DEF IsPrefixOf

LEMMA FullPrefix ==
  ASSUME NEW s \in Seq(Entry), NEW f \in Seq(Entry),
         IsPrefixOf(s, f), Len(s) = Len(f)
  PROVE  s = f
BY DEF IsPrefixOf

LEMMA PrefixIsSubSeq ==
  ASSUME NEW s \in Seq(Entry), NEW f \in Seq(Entry), IsPrefixOf(s, f)
  PROVE  s = SubSeq(f, 1, Len(s))
<1>1. /\ SubSeq(f, 1, Len(s)) \in Seq(Entry)
      /\ Len(SubSeq(f, 1, Len(s))) = Len(s)
      /\ \A i \in 1..Len(s) : SubSeq(f, 1, Len(s))[i] = f[i]
  BY DEF IsPrefixOf
<1> QED
  BY <1>1 DEF IsPrefixOf

LEMMA HeadOfAppend ==
  ASSUME NEW f \in Seq(Entry), NEW e \in Entry
  PROVE  HeadHash(Append(f, e)) = e.hash
BY DEF HeadHash

LEMMA LinkedAppend ==
  ASSUME NEW f \in Seq(Entry), NEW e \in Entry,
         Linked(f), e.prev = HeadHash(f)
  PROVE  Linked(Append(f, e))
<1> SUFFICES ASSUME NEW i \in 1..Len(f) + 1
             PROVE  Append(f, e)[i].prev =
                      IF i = 1 THEN Genesis ELSE Append(f, e)[i - 1].hash
  BY DEF Linked
<1>1. CASE i = Len(f) + 1
  BY <1>1 DEF HeadHash
<1>2. CASE i \in 1..Len(f)
  BY <1>2 DEF Linked
<1> QED
  BY <1>1, <1>2

LEMMA LinkedSubSeq ==
  ASSUME NEW f \in Seq(Entry), NEW n \in 0..Len(f), Linked(f)
  PROVE  Linked(SubSeq(f, 1, n))
<1>1. Len(SubSeq(f, 1, n)) = n /\ \A i \in 1..n : SubSeq(f, 1, n)[i] = f[i]
  OBVIOUS
<1>2. DOMAIN SubSeq(f, 1, n) = 1..n
  BY <1>1
<1>3. \A i \in 1..n : i # 1 => i - 1 \in 1..n
  OBVIOUS
<1>4. \A i \in 1..n : f[i].prev = IF i = 1 THEN Genesis ELSE f[i - 1].hash
  BY DEF Linked
<1> QED
  BY <1>1, <1>2, <1>3, <1>4 DEF Linked

LEMMA RisingAppend ==
  ASSUME NEW f \in Seq(Entry), NEW e \in Entry, NEW g \in Gen, e.gen = g,
         RisingGenerations(f), KnownGenerations(f, g)
  PROVE  /\ RisingGenerations(Append(f, e))
         /\ KnownGenerations(Append(f, e), g)
<1>1. \A i \in 1..Len(f) + 1 :
        /\ i \in 1..Len(f) => Append(f, e)[i] = f[i]
        /\ i = Len(f) + 1 => Append(f, e)[i] = e
  OBVIOUS
<1>2. \A i \in 1..Len(f) : f[i].gen <= g
  BY DEF KnownGenerations
<1>3. g <= g /\ g \in Nat
  BY BoundAssumption DEF Gen
<1>4. KnownGenerations(Append(f, e), g)
  BY <1>1, <1>2, <1>3 DEF KnownGenerations
<1>5. \A i, j \in 1..Len(f) : i <= j => f[i].gen <= f[j].gen
  BY DEF RisingGenerations
<1>6. RisingGenerations(Append(f, e))
  BY <1>1, <1>2, <1>3, <1>5 DEF RisingGenerations
<1> QED
  BY <1>4, <1>6

LEMMA GenerationsSubSeq ==
  ASSUME NEW f \in Seq(Entry), NEW n \in 0..Len(f), NEW g \in Gen,
         RisingGenerations(f), KnownGenerations(f, g)
  PROVE  /\ RisingGenerations(SubSeq(f, 1, n))
         /\ KnownGenerations(SubSeq(f, 1, n), g)
BY DEF RisingGenerations, KnownGenerations

\* A log that is a prefix of the file is found again in it.
LEMMA PrefixKeepsHead ==
  ASSUME NEW s \in Seq(Entry), NEW f \in Seq(Entry), IsPrefixOf(s, f)
  PROVE  KeepsHead(HeadHash(s), f)
BY DEF IsPrefixOf, KeepsHead, HeadHash, Hashes, Genesis

----------------------------------------------------------------------------
(* The locks.                                                              *)

LEMMA Homes ==
  ASSUME NEW t \in Recorder
  PROVE  Home[t] \in Proc /\ t # None /\ t \in Thread
         /\ t \notin Verifier /\ t \notin Inspector
BY ThreadAssumption DEF Thread

LEMMA InitLock == Init => LockInv
BY DEF Init, LockInv, Critical, Placed, Thread

LEMMA LockFail ==
  ASSUME TypeOK, LockInv, NEW t \in Recorder, NEW m, Fail(t, m),
         pc[t] # "idle"
  PROVE  LockInv'
<1>1. ASSUME NEW u \in Recorder, u # t, pc[u] # "idle"
      PROVE  Home[u] # Home[t]
  BY <1>1 DEF LockInv
<1> QED
  BY <1>1, Homes DEF Fail, Release, Goto, LockInv, Critical, Placed, TypeOK

LEMMA LockStep ==
  ASSUME TypeOK, LockInv, [Next]_vars PROVE LockInv'
<1> USE Homes DEF disk, locks, procs, watch
<1>1. ASSUME NEW p \in Proc, Load(p) PROVE LockInv'
  BY <1>1 DEF Load, LockInv, TypeOK
<1>2. ASSUME NEW p \in Proc, Check(p) PROVE LockInv'
  BY <1>2 DEF Check, LockInv, TypeOK
<1>3. ASSUME NEW p \in Proc, BootTimeout(p) PROVE LockInv'
  BY <1>3 DEF BootTimeout, LockInv, TypeOK
<1>4. ASSUME NEW p \in Proc, Crash(p) PROVE LockInv'
  BY <1>4 DEF Crash, Stopped, ThreadsOf, LockInv, Critical, Placed, TypeOK
<1>5. CASE PowerLoss
  BY <1>5 DEF PowerLoss, Stopped, LockInv, Critical, Placed
<1>6. CASE RotateKey
  BY <1>6 DEF RotateKey, LockInv
<1>7. ASSUME NEW t \in Recorder, Begin(t) PROVE LockInv'
  BY <1>7 DEF Begin, Goto, LockInv, Critical, Placed, TypeOK
<1>8. ASSUME NEW t \in Recorder, TakeFileLock(t) PROVE LockInv'
  BY <1>8 DEF TakeFileLock, Goto, LockInv, Critical, Placed, TypeOK
<1>9. ASSUME NEW t \in Recorder, LockTimeout(t) \/ BuildFails(t) \/ WriteFails(t)
      PROVE  LockInv'
  BY <1>9, LockFail DEF LockTimeout, BuildFails, WriteFails
<1>10. ASSUME NEW t \in Recorder, Refresh(t) PROVE LockInv'
  <2>1. CASE Fail(t, Refreshed(mem[Home[t]]))
    BY <1>10, <2>1, LockFail DEF Refresh
  <2>2. CASE ~Fail(t, Refreshed(mem[Home[t]]))
    BY <1>10, <2>2 DEF Refresh, Goto, LockInv, Critical, Placed, TypeOK
  <2> QED
    BY <2>1, <2>2
<1>11. ASSUME NEW t \in Recorder, Build(t) PROVE LockInv'
  BY <1>11 DEF Build, Goto, LockInv, Critical, Placed, TypeOK
<1>12. ASSUME NEW t \in Recorder, Write(t) PROVE LockInv'
  BY <1>12 DEF Write, Goto, LockInv, Critical, Placed, TypeOK
<1>13. ASSUME NEW t \in Recorder, Commit(t) PROVE LockInv'
  BY <1>13 DEF Commit, Goto, LockInv, Critical, Placed, TypeOK
<1>14. ASSUME NEW t \in Recorder, WriteAnchor(t) PROVE LockInv'
  <2>1. ASSUME NEW u \in Recorder, u # t, pc[u] # "idle"
        PROVE  Home[u] # Home[t]
    BY <1>14, <2>1 DEF LockInv, WriteAnchor
  <2> QED
    BY <1>14, <2>1 DEF WriteAnchor, Release, Goto, LockInv, Critical, Placed, TypeOK
<1>15. ASSUME NEW v \in Verifier \cup Inspector, NEW l, Goto(v, l),
              UNCHANGED <<locks, boot>>
       PROVE  LockInv'
  BY <1>15, ThreadAssumption DEF Goto, LockInv, TypeOK
<1>16. ASSUME NEW v \in Verifier, VerifyStep(v) PROVE LockInv'
  BY <1>16, <1>15 DEF VerifyStep, VerifyStat, VerifyRead, VerifyAssign,
     VerifyResize, VerifyAnchor, VerifyCheck, Report, quietV
<1>17. ASSUME NEW v \in Inspector, InspectLoad(v) \/ InspectVerify(v)
       PROVE  LockInv'
  BY <1>17, <1>15 DEF InspectLoad, InspectVerify, Report, quietV
<1>18. CASE UNCHANGED vars
  BY <1>18 DEF vars, LockInv
<1> QED
  BY <1>1, <1>2, <1>3, <1>4, <1>5, <1>6, <1>7, <1>8, <1>9, <1>10, <1>11,
     <1>12, <1>13, <1>14, <1>16, <1>17, <1>18 DEF Next, Step, RecordStep

----------------------------------------------------------------------------
(* The logs in memory.                                                     *)

LEMMA FaithfulLoaded ==
  ASSUME NEW es \in Seq(Entry), NEW f \in Seq(Entry), IsPrefixOf(es, f)
  PROVE  Faithful(Loaded(es), f)
BY DEF Faithful, Loaded

LEMMA FaithfulEmpty ==
  ASSUME NEW f \in Seq(Entry) PROVE Faithful(EmptyLog, f)
BY EmptyPrefix DEF Faithful, EmptyLog, HeadHash

LEMMA FaithfulAppend ==
  ASSUME NEW m \in MemType, NEW f \in Seq(Entry), NEW e \in Entry,
         Faithful(m, f)
  PROVE  Faithful(m, Append(f, e))
BY PrefixOfAppend DEF Faithful, MemType

LEMMA FaithfulRefreshed ==
  ASSUME TypeOK, NEW m \in MemType, Faithful(m, file)
  PROVE  Faithful(Refreshed(m), file)
BY FaithfulLoaded, PrefixOfSelf DEF Refreshed, TypeOK

LEMMA GotoThread ==
  ASSUME TypeOK, NEW t \in Thread, NEW l, Goto(t, l)
  PROVE  pc'[t] = l /\ \A u \in Thread \ {t} : pc'[u] = pc[u]
BY DEF Goto, TypeOK

LEMMA ReportThread ==
  ASSUME TypeOK, NEW v \in Verifier \cup Inspector, NEW r, Report(v, r)
  PROVE  /\ pc'[v] = "idle"
         /\ \A u \in Thread \ {v} : pc'[u] = pc[u]
         /\ \A u \in (Verifier \cup Inspector) \ {v} : view'[u] = view[u]
BY GotoThread DEF Report, Thread, TypeOK

\* The end of a record that fails.
LEMMA MemFail ==
  ASSUME TypeOK, NEW t \in Recorder, NEW m \in MemType, Fail(t, m),
         file' \in Seq(Entry), Faithful(m, file'),
         \A p \in Proc : Faithful(mem[p], file'),
         \A v \in Verifier : pc[v] = "assign" => IsPrefixOf(view[v].read, file')
  PROVE  MemInv'
<1> USE Homes DEF Fail, Release, watch
<1>1. \A p \in Proc : mem'[p] \in {mem[p], m, EmptyLog}
  BY DEF TypeOK
<1>2. \A v \in Verifier : pc'[v] = pc[v] /\ view' = view
  BY GotoThread DEF Thread
<1> QED
  BY <1>1, <1>2, FaithfulEmpty DEF MemInv

LEMMA InitMem == Init => MemInv
<1> SUFFICES ASSUME Init PROVE MemInv
  OBVIOUS
<1>1. <<>> \in Seq(Entry)
  OBVIOUS
<1> QED
  BY <1>1, FaithfulEmpty DEF Init, MemInv, Thread

LEMMA MemStep ==
  ASSUME TypeOK, MemInv, EntryInv, DraftInv, [Next]_vars PROVE MemInv'
<1> USE Homes DEF disk, locks, procs, watch
<1>0. file \in Seq(Entry) /\ \A p \in Proc : mem[p] \in MemType
  BY DEF TypeOK
<1>1. ASSUME NEW p \in Proc, Load(p) PROVE MemInv'
  <2>1. Faithful(Loaded(file), file)
    BY <1>0, FaithfulLoaded, PrefixOfSelf
  <2> QED
    BY <1>1, <2>1 DEF Load, MemInv, TypeOK
<1>2. ASSUME NEW p \in Proc, Check(p) PROVE MemInv'
  <2>1. Faithful(Refreshed(mem[p]), file) /\ Faithful(mem[p], file)
    BY <1>0, FaithfulRefreshed DEF MemInv
  <2> QED
    BY <1>2, <2>1 DEF Check, MemInv, TypeOK
<1>3. ASSUME NEW p \in Proc, BootTimeout(p) PROVE MemInv'
  BY <1>0, <1>3, FaithfulEmpty DEF BootTimeout, MemInv, TypeOK
<1>4. ASSUME NEW p \in Proc, Crash(p) PROVE MemInv'
  <2>1. \A v \in Verifier : pc'[v] = "assign" => pc[v] = "assign" /\ view'[v] = view[v]
    BY <1>4 DEF Crash, Stopped, Thread
  <2> QED
    BY <1>0, <1>4, <2>1, FaithfulEmpty DEF Crash, MemInv, TypeOK
<1>5. CASE PowerLoss
  <2>1. file' \in Seq(Entry)
    BY <1>5, NextType DEF Next, TypeOK
  <2>2. \A v \in Verifier : pc'[v] = "idle"
    BY <1>5 DEF PowerLoss, Stopped, Thread
  <2>3. mem' = [p \in Proc |-> EmptyLog]
    BY <1>5 DEF PowerLoss
  <2> QED
    BY <2>1, <2>2, <2>3, FaithfulEmpty DEF MemInv
<1>6. CASE RotateKey
  BY <1>6 DEF RotateKey, MemInv
<1>7. ASSUME NEW t \in Recorder, NEW l \in Label \ {"assign"}, Goto(t, l),
              UNCHANGED <<file, mem, view>>
      PROVE  MemInv'
  BY <1>7 DEF Goto, MemInv, TypeOK
<1>8. ASSUME NEW t \in Recorder, NEW m \in MemType, Fail(t, m),
             Faithful(m, file), UNCHANGED file
      PROVE  MemInv'
  BY <1>0, <1>8, MemFail DEF MemInv
<1>9. ASSUME NEW t \in Recorder,
             Begin(t) \/ TakeFileLock(t) \/ Build(t)
      PROVE  MemInv'
  BY <1>7, <1>9 DEF Begin, TakeFileLock, Build, Label
<1>10. ASSUME NEW t \in Recorder, LockTimeout(t) \/ BuildFails(t)
       PROVE  MemInv'
  BY <1>0, <1>8, <1>10 DEF LockTimeout, BuildFails, MemInv
<1>11. ASSUME NEW t \in Recorder, Refresh(t) PROVE MemInv'
  <2>1. Faithful(Refreshed(mem[Home[t]]), file)
    BY <1>0, FaithfulRefreshed DEF MemInv
  <2>2. Refreshed(mem[Home[t]]) \in MemType
    BY <1>0, LoadedType DEF Refreshed
  <2>3. CASE Fail(t, Refreshed(mem[Home[t]]))
    BY <1>8, <1>11, <2>1, <2>2, <2>3 DEF Refresh
  <2>4. CASE ~Fail(t, Refreshed(mem[Home[t]]))
    <3>1. \A p \in Proc : mem'[p] \in {mem[p], Refreshed(mem[Home[t]])}
      BY <1>11, <2>4 DEF Refresh, TypeOK
    <3>2. \A v \in Verifier : pc'[v] = pc[v]
      BY <1>11, <2>4, GotoThread DEF Refresh, Thread
    <3> QED
      BY <1>11, <2>1, <2>4, <3>1, <3>2 DEF Refresh, MemInv
  <2> QED
    BY <2>3, <2>4
<1>12. ASSUME NEW t \in Recorder, file' = Append(file, draft[t])
       PROVE  /\ \A p \in Proc : Faithful(mem[p], file')
              /\ \A v \in Verifier : pc[v] = "assign" => IsPrefixOf(view[v].read, file')
  <2>1. draft[t] \in Entry /\ \A v \in Verifier : view[v].read \in Seq(Entry)
    BY DEF TypeOK, ViewType
  <2> QED
    BY <1>0, <1>12, <2>1, FaithfulAppend, PrefixOfAppend DEF MemInv
<1>13. ASSUME NEW t \in Recorder, Write(t) PROVE MemInv'
  <2>1. file' = Append(file, draft[t])
    BY <1>13 DEF Write
  <2> QED
    BY <1>12, <1>13, <2>1 DEF Write, Goto, MemInv, TypeOK
<1>14. ASSUME NEW t \in Recorder, WriteFails(t) PROVE MemInv'
  <2>1. CASE file' = file
    BY <1>0, <1>8, <1>14, <2>1 DEF WriteFails, MemInv
  <2>2. CASE file' = Append(file, draft[t])
    <3>1. file' \in Seq(Entry)
      BY <1>0, <2>2 DEF TypeOK
    <3>2. Fail(t, mem[Home[t]]) /\ mem[Home[t]] \in MemType
      BY <1>0, <1>14 DEF WriteFails
    <3> QED
      BY <1>12, <2>2, <3>1, <3>2, MemFail
  <2> QED
    BY <1>14, <2>1, <2>2 DEF WriteFails
<1>15. ASSUME NEW t \in Recorder, Commit(t) PROVE MemInv'
  <2>1. pc[t] = "commit"
    BY <1>15 DEF Commit
  <2>2. /\ ~torn
        /\ Len(mem[Home[t]].entries) + 1 = Len(file)
        /\ file # <<>>
        /\ draft[t] = file[Len(file)]
    BY <2>1 DEF EntryInv, EntryOf, DraftInv, DraftOf, Placed
  <2>3. /\ mem[Home[t]].entries \in Seq(Entry)
        /\ draft[t] \in Entry
        /\ IsPrefixOf(mem[Home[t]].entries, file)
    BY <1>0 DEF MemInv, MemType, Faithful, TypeOK
  <2>4. Faithful(Extended(mem[Home[t]], t), file)
    BY <1>0, <2>2, <2>3, PrefixGrown, HeadOfAppend
       DEF Extended, Faithful, FileSize
  <2> QED
    BY <1>15, <2>4 DEF Commit, Goto, MemInv, TypeOK
<1>16. ASSUME NEW t \in Recorder, WriteAnchor(t) PROVE MemInv'
  BY <1>7, <1>16 DEF WriteAnchor, Release, Label
<1>17. ASSUME NEW v \in Verifier, VerifyStep(v) PROVE MemInv'
  <2> USE DEF quietV
  <2>1. v \in Thread /\ Home[v] \in Proc
    BY ThreadAssumption DEF Thread
  <2>2. ASSUME NEW r, Report(v, r), UNCHANGED <<file, mem>> PROVE MemInv'
    BY <2>1, <2>2 DEF Report, Goto, MemInv, TypeOK
  <2>3. CASE VerifyStat(v)
    <3>1. CASE Report(v, "plik")
      BY <2>2, <2>3, <3>1 DEF VerifyStat
    <3>2. CASE ~Report(v, "plik")
      <4>1. \A u \in Verifier : pc'[u] = "assign" => pc[u] = "assign" /\ view'[u] = view[u]
        <5>1. \A u \in Thread \ {v} : pc'[u] = pc[u]
          BY <2>1, <2>3, <3>2, GotoThread DEF VerifyStat
        <5>2. pc'[v] # "assign"
          BY <2>1, <2>3, <3>2, GotoThread DEF VerifyStat
        <5>3. \A u \in Verifier \ {v} : view'[u] = view[u]
          BY <2>3, <3>2 DEF VerifyStat, TypeOK
        <5> QED
          BY <5>1, <5>2, <5>3 DEF Thread
      <4> QED
        BY <2>3, <4>1 DEF VerifyStat, MemInv
    <3> QED
      BY <3>1, <3>2
  <2>4. CASE VerifyRead(v)
    <3>1. CASE Report(v, "plik")
      BY <2>2, <2>4, <3>1 DEF VerifyRead
    <3>2. CASE ~Report(v, "plik")
      <4>1. view'[v].read = file
        BY <2>4, <3>2 DEF VerifyRead, TypeOK, ViewType
      <4>2. \A u \in Verifier : u # v /\ pc'[u] = "assign" =>
              pc[u] = "assign" /\ view'[u] = view[u]
        <5>1. \A u \in Thread \ {v} : pc'[u] = pc[u]
          BY <2>1, <2>4, <3>2, GotoThread DEF VerifyRead
        <5>2. \A u \in Verifier \ {v} : view'[u] = view[u]
          BY <2>4, <3>2 DEF VerifyRead, TypeOK
        <5> QED
          BY <5>1, <5>2 DEF Thread
      <4> QED
        BY <1>0, <2>4, <4>1, <4>2, PrefixOfSelf DEF VerifyRead, MemInv
    <3> QED
      BY <3>1, <3>2
  <2>5. CASE VerifyAssign(v)
    <3>1. view[v].read \in Seq(Entry)
      BY DEF TypeOK, ViewType
    <3>2. Faithful([Loaded(view[v].read) EXCEPT !.size = mem[Home[v]].size], file)
      BY <1>0, <2>5, <3>1, FaithfulLoaded DEF VerifyAssign, MemInv, Faithful, Loaded
    <3>3. \A u \in Verifier : pc'[u] = "assign" => pc[u] = "assign" /\ view'[u] = view[u]
      BY <2>1, <2>5, GotoThread DEF VerifyAssign, Thread
    <3> QED
      BY <2>1, <2>5, <3>2, <3>3 DEF VerifyAssign, MemInv, TypeOK
  <2>8. CASE VerifyResize(v)
    <3>1. Faithful([mem[Home[v]] EXCEPT !.size = Len(view[v].read)], file)
      BY <1>0, <2>1 DEF MemInv, Faithful, MemType
    <3>2. \A u \in Verifier : pc'[u] = "assign" => pc[u] = "assign" /\ view'[u] = view[u]
      <4>1. CASE Report(v, "plik")
        BY <4>1, ReportThread DEF Thread
      <4>2. CASE ~Report(v, "plik")
        BY <2>1, <2>8, <4>2, GotoThread DEF VerifyResize, Thread
      <4> QED
        BY <4>1, <4>2
    <3> QED
      BY <2>1, <2>8, <3>1, <3>2 DEF VerifyResize, MemInv, TypeOK
  <2>6. CASE VerifyAnchor(v)
    <3>1. \A u \in Verifier : pc'[u] = "assign" => pc[u] = "assign" /\ view'[u] = view[u]
      BY <2>1, <2>6 DEF VerifyAnchor, Goto, TypeOK
    <3> QED
      BY <2>6, <3>1 DEF VerifyAnchor, MemInv
  <2>7. CASE VerifyCheck(v)
    BY <2>2, <2>7 DEF VerifyCheck
  <2> QED
    BY <1>17, <2>3, <2>4, <2>5, <2>6, <2>7, <2>8 DEF VerifyStep
<1>18. ASSUME NEW v \in Inspector, InspectLoad(v) \/ InspectVerify(v)
       PROVE  MemInv'
  <2>1. \A u \in Verifier : pc'[u] = pc[u] /\ view'[u] = view[u]
    <3>1. \A u \in Verifier : u \in Thread \ {v} /\ u \in (Verifier \cup Inspector) \ {v}
      BY ThreadAssumption DEF Thread
    <3>2. CASE \E r \in {"plik", Finding(view[v].read, anchor, cfgGen)} : Report(v, r)
      BY <3>1, <3>2, ReportThread
    <3>3. CASE InspectLoad(v) /\ ~Report(v, "plik")
      <4>1. v \in Thread
        BY DEF Thread
      <4>2. \A u \in Verifier : pc'[u] = pc[u]
        BY <3>1, <3>3, <4>1, GotoThread DEF InspectLoad
      <4>3. \A u \in Verifier : view'[u] = view[u]
        BY <3>1, <3>3 DEF InspectLoad, TypeOK
      <4> QED
        BY <4>2, <4>3
    <3> QED
      BY <1>18, <3>2, <3>3 DEF InspectVerify, InspectLoad
  <2> QED
    BY <1>18, <2>1 DEF InspectLoad, InspectVerify, quietV, MemInv
<1>19. CASE UNCHANGED vars
  BY <1>19 DEF vars, MemInv
<1> QED
  BY <1>1, <1>2, <1>3, <1>4, <1>5, <1>6, <1>9, <1>10, <1>11, <1>13, <1>14,
     <1>15, <1>16, <1>17, <1>18, <1>19 DEF Next, Step, RecordStep

----------------------------------------------------------------------------
(* The entry that is on its way, and the copies of the file.               *)

LEMMA InitEntry == Init => EntryInv
BY DEF Init, EntryInv, EntryOf, Placed, Thread

LEMMA InitCopy == Init => CopyInv
BY DEF Init, CopyInv, EmptyLog, Thread, IsPrefixOf

\* A copy that is not longer than the file is not refreshed from a torn one.
LEMMA RefreshReturnsWhole ==
  ASSUME TypeOK, NEW m \in MemType, m.size <= Len(file), RefreshReturns(m)
  PROVE  ~torn
BY DEF RefreshReturns, Readable, FileSize, TypeOK, MemType

\* A step that leaves the recorder u and the file alone, or ends its record.
LEMMA EntryFrame ==
  ASSUME EntryInv, NEW u \in Recorder,
         \/ pc'[u] \notin Placed
         \/ /\ pc'[u] = pc[u] /\ draft'[u] = draft[u]
            /\ UNCHANGED <<file, torn, synced, cfgGen>>
  PROVE  EntryOf(u)'
BY DEF EntryInv, EntryOf, Placed

\* A recorder that holds the file lock is alone with the file.
LEMMA EntryAlone ==
  ASSUME TypeOK, LockInv, EntryInv, NEW t \in Recorder,
         \A u \in Recorder \ {t} : pc'[u] = pc[u] /\ draft'[u] = draft[u],
         cfgGen' = cfgGen,
         pc[t] \in Critical \/ UNCHANGED <<file, torn, synced>>,
         EntryOf(t)'
  PROVE  EntryInv'
<1> SUFFICES ASSUME NEW u \in Recorder, u # t PROVE EntryOf(u)'
  BY DEF EntryInv
<1>1. CASE UNCHANGED <<file, torn, synced>>
  BY <1>1, EntryFrame
<1>2. CASE pc[t] \in Critical
  <2>1. pc'[u] \notin Placed
    BY <1>2 DEF LockInv, Critical, Placed
  <2> QED
    BY <2>1, EntryFrame
<1> QED
  BY <1>1, <1>2

\* A record that ends.
LEMMA EntryFail ==
  ASSUME TypeOK, LockInv, EntryInv, NEW t \in Recorder, NEW m, Fail(t, m),
         pc[t] \in Critical \/ UNCHANGED <<file, torn, synced>>
  PROVE  EntryInv'
<1>1. /\ pc'[t] = "idle" /\ cfgGen' = cfgGen
      /\ \A u \in Recorder \ {t} : pc'[u] = pc[u] /\ draft'[u] = draft[u]
  BY Homes DEF Fail, Release, Goto, TypeOK
<1>2. EntryOf(t)'
  BY <1>1, EntryFrame DEF Placed
<1> QED
  BY <1>1, <1>2, EntryAlone

LEMMA EntryStep ==
  ASSUME TypeOK, LockInv, CopyInv, EntryInv, GenInv, [Next]_vars
  PROVE  EntryInv'
<1> USE Homes DEF disk, locks, procs, watch
<1>1. ASSUME \A u \in Recorder : pc'[u] = pc[u],
             UNCHANGED <<file, torn, synced, draft, cfgGen>>
      PROVE  EntryInv'
  BY <1>1, EntryFrame DEF EntryInv
<1>2. ASSUME NEW p \in Proc, Load(p) \/ Check(p) \/ BootTimeout(p)
      PROVE  EntryInv'
  BY <1>1, <1>2 DEF Load, Check, BootTimeout
<1>3. ASSUME NEW p \in Proc, Crash(p) PROVE EntryInv'
  <2> SUFFICES ASSUME NEW u \in Recorder PROVE EntryOf(u)'
    BY DEF EntryInv
  <2>1. \/ pc'[u] = "idle"
        \/ pc'[u] = pc[u] /\ draft'[u] = draft[u]
    BY <1>3 DEF Crash, Stopped
  <2>2. UNCHANGED <<file, torn, synced, cfgGen>>
    BY <1>3 DEF Crash
  <2> QED
    BY <2>1, <2>2, EntryFrame DEF Placed
<1>4. CASE PowerLoss
  BY <1>4, EntryFrame DEF PowerLoss, Stopped, EntryInv, Placed
<1>5. CASE RotateKey
  BY <1>5, EntryFrame DEF RotateKey, EntryInv, LockInv, Placed
<1>6. ASSUME NEW t \in Recorder, NEW l, Goto(t, l),
             pc[t] \in Critical \/ UNCHANGED <<file, torn, synced>>,
             UNCHANGED cfgGen,
             \A u \in Recorder \ {t} : draft'[u] = draft[u],
             EntryOf(t)'
      PROVE  EntryInv'
  BY <1>6, GotoThread, EntryAlone
<1>7. ASSUME NEW t \in Recorder, Begin(t) PROVE EntryInv'
  <2>1. EntryOf(t)'
    BY <1>7, GotoThread, EntryFrame DEF Begin, Placed
  <2> QED
    BY <1>6, <1>7, <2>1 DEF Begin
<1>8. ASSUME NEW t \in Recorder, TakeFileLock(t) PROVE EntryInv'
  <2>1. EntryOf(t)'
    BY <1>8, GotoThread, EntryFrame DEF TakeFileLock, Placed
  <2> QED
    BY <1>6, <1>8, <2>1 DEF TakeFileLock
<1>9. ASSUME NEW t \in Recorder, LockTimeout(t) \/ BuildFails(t) \/ WriteFails(t)
      PROVE  EntryInv'
  BY <1>9, EntryFail DEF LockTimeout, BuildFails, WriteFails, Critical, Placed
<1>10. ASSUME NEW t \in Recorder, Refresh(t) PROVE EntryInv'
  <2>1. CASE Fail(t, Refreshed(mem[Home[t]]))
    BY <1>10, <2>1, EntryFail DEF Refresh
  <2>2. CASE ~Fail(t, Refreshed(mem[Home[t]]))
    <3>1. /\ RefreshReturns(mem[Home[t]]) /\ Goto(t, "build")
          /\ UNCHANGED <<file, torn, synced, draft, cfgGen>>
      BY <1>10, <2>2 DEF Refresh
    <3>2. mem[Home[t]] \in MemType /\ mem[Home[t]].size <= Len(file)
      BY DEF TypeOK, CopyInv
    <3>3. ~torn
      BY <3>1, <3>2, RefreshReturnsWhole
    <3>4. pc'[t] = "build"
      BY <3>1, GotoThread
    <3>5. EntryOf(t)'
      BY <3>1, <3>3, <3>4 DEF EntryOf
    <3> QED
      BY <1>6, <3>1, <3>5
  <2> QED
    BY <2>1, <2>2
<1>11. ASSUME NEW t \in Recorder, Build(t) PROVE EntryInv'
  <2>1. /\ Goto(t, "write") /\ pc[t] = "build" /\ pc'[t] = "write"
        /\ UNCHANGED <<file, torn, synced, cfgGen>>
    BY <1>11, GotoThread DEF Build
  <2>2. /\ draft'[t] = NewEntry(Home[t])
        /\ \A u \in Recorder \ {t} : draft'[u] = draft[u]
    BY <1>11 DEF Build, TypeOK
  <2>3. ~torn
    BY <2>1 DEF EntryInv, EntryOf, Placed
  <2>4. gen[Home[t]] = cfgGen
    BY <2>1 DEF GenInv, LockInv
  <2>5. EntryOf(t)'
    BY <2>1, <2>2, <2>3, <2>4 DEF EntryOf, NewEntry
  <2> QED
    BY <1>6, <2>1, <2>2, <2>5
<1>12. ASSUME NEW t \in Recorder, Write(t) PROVE EntryInv'
  <2>1. /\ Goto(t, "commit") /\ pc[t] = "write" /\ pc'[t] = "commit"
        /\ file' = Append(file, draft[t])
        /\ UNCHANGED <<torn, synced, draft, cfgGen>>
    BY <1>12, GotoThread DEF Write
  <2>2. ~torn /\ draft[t].gen = cfgGen
    BY <2>1 DEF EntryInv, EntryOf, Placed
  <2>3. /\ Len(file') = Len(file) + 1
        /\ file' # <<>>
        /\ file'[Len(file')] = draft[t]
    <3>1. file \in Seq(Entry) /\ draft[t] \in Entry
      BY DEF TypeOK
    <3> QED
      BY <2>1, <3>1
  <2>4. EntryOf(t)'
    BY <2>1, <2>2, <2>3 DEF EntryOf
  <2> QED
    BY <1>6, <2>1, <2>4 DEF Critical, Placed
<1>13. ASSUME NEW t \in Recorder, Commit(t) PROVE EntryInv'
  <2>1. /\ Goto(t, "anchor") /\ pc[t] = "commit" /\ pc'[t] = "anchor"
        /\ synced' = Len(file)
        /\ UNCHANGED <<file, torn, draft, cfgGen>>
    BY <1>13, GotoThread DEF Commit
  <2>2. EntryOf(t)'
    BY <2>1 DEF EntryInv, EntryOf, Placed
  <2> QED
    BY <1>6, <2>1, <2>2 DEF Critical, Placed
<1>14. ASSUME NEW t \in Recorder, WriteAnchor(t) PROVE EntryInv'
  <2>1. EntryOf(t)'
    BY <1>14, GotoThread, EntryFrame DEF WriteAnchor, Release, Placed
  <2>2. \A u \in Recorder \ {t} : draft'[u] = draft[u]
    BY <1>14 DEF WriteAnchor, Release, TypeOK
  <2> QED
    BY <1>6, <1>14, <2>1, <2>2 DEF WriteAnchor, Release
<1>15. ASSUME NEW v \in Verifier \cup Inspector, NEW l, Goto(v, l),
              UNCHANGED <<file, torn, synced, draft, cfgGen>>
       PROVE  EntryInv'
  BY <1>1, <1>15, GotoThread DEF Thread
<1>16. ASSUME NEW v \in Verifier, VerifyStep(v) PROVE EntryInv'
  BY <1>15, <1>16 DEF VerifyStep, VerifyStat, VerifyRead, VerifyAssign, VerifyResize,
     VerifyAnchor, VerifyCheck, Report, quietV
<1>17. ASSUME NEW v \in Inspector, InspectLoad(v) \/ InspectVerify(v)
       PROVE  EntryInv'
  BY <1>15, <1>17 DEF InspectLoad, InspectVerify, Report, quietV
<1>18. CASE UNCHANGED vars
  BY <1>1, <1>18 DEF vars
<1> QED
  BY <1>2, <1>3, <1>4, <1>5, <1>7, <1>8, <1>9, <1>10, <1>11, <1>12, <1>13,
     <1>14, <1>16, <1>17, <1>18 DEF Next, Step, RecordStep

\* A recorder's step on the copies: the file stays or grows, and what its
\* process has in memory is of no start.
LEMMA CopyRecord ==
  ASSUME TypeOK, CopyInv, NEW t \in Recorder,
         boot[Home[t]] \in {"marking", "up"},
         file' \in {file, Append(file, draft[t])},
         \A p \in Proc \ {Home[t]} : mem'[p] = mem[p] /\ boot'[p] = boot[p],
         mem'[Home[t]].size <= Len(file'),
         \/ boot'[Home[t]] \in {boot[Home[t]], "up"}
         \/ boot[Home[t]] = "marking" /\ boot'[Home[t]] = "down",
         \A v \in Verifier : pc'[v] = pc[v] /\ view'[v] = view[v]
  PROVE  CopyInv'
<1>1. /\ file \in Seq(Entry) /\ draft[t] \in Entry /\ Home[t] \in Proc
      /\ \A p \in Proc : mem[p] \in MemType
      /\ \A v \in Verifier : view[v] \in ViewType
  BY Homes DEF TypeOK
<1>2. /\ Len(file) <= Len(file') /\ Len(file') \in Nat /\ Len(file) \in Nat
      /\ \A i \in 1..Len(file) : file'[i] = file[i]
  BY <1>1
<1>3. ASSUME NEW p \in Proc
      PROVE  /\ mem'[p].size <= Len(file')
             /\ boot'[p] = "loaded" => Whole(mem'[p], file')
  <2>1. CASE p = Home[t]
    BY <2>1
  <2>2. CASE p # Home[t]
    <3>1. mem[p].size \in Nat /\ Len(mem[p].entries) \in Nat
      BY <1>1 DEF MemType
    <3> QED
      BY <1>2, <2>2, <3>1 DEF CopyInv, Whole, IsPrefixOf
  <2> QED
    BY <2>1, <2>2
<1>4. ASSUME NEW v \in Verifier
      PROVE  /\ pc'[v] # "idle" => boot'[Home[v]] = "up"
             /\ pc'[v] \in {"assign", "resize"} => Len(view'[v].read) <= Len(file')
  <2>1. Home[v] \in Proc /\ Len(view[v].read) \in Nat
    BY <1>1, ThreadAssumption DEF ViewType
  <2> QED
    BY <1>2, <2>1 DEF CopyInv
<1> QED
  BY <1>3, <1>4 DEF CopyInv

\* A verifier's step on the copies.
LEMMA CopyVerify ==
  ASSUME TypeOK, CopyInv, NEW v \in Verifier, UNCHANGED <<file, boot>>,
         boot[Home[v]] = "up",
         \A p \in Proc \ {Home[v]} : mem'[p] = mem[p],
         mem'[Home[v]].size <= Len(file),
         \A u \in Verifier \ {v} : pc'[u] = pc[u] /\ view'[u] = view[u],
         pc'[v] \in {"assign", "resize"} => Len(view'[v].read) <= Len(file)
  PROVE  CopyInv'
<1>1. ASSUME NEW p \in Proc
      PROVE  /\ mem'[p].size <= Len(file')
             /\ boot'[p] = "loaded" => Whole(mem'[p], file')
  <2>1. CASE p = Home[v]
    BY <2>1
  <2>2. CASE p # Home[v]
    BY <2>2 DEF CopyInv
  <2> QED
    BY <2>1, <2>2
<1>2. ASSUME NEW u \in Verifier
      PROVE  /\ pc'[u] # "idle" => boot'[Home[u]] = "up"
             /\ pc'[u] \in {"assign", "resize"} => Len(view'[u].read) <= Len(file')
  BY DEF CopyInv
<1> QED
  BY <1>1, <1>2 DEF CopyInv

LEMMA CopyStep ==
  ASSUME TypeOK, LockInv, CopyInv, EntryInv, [Next]_vars PROVE CopyInv'
<1> USE Homes DEF disk, locks, procs, watch
<1>0. /\ file \in Seq(Entry) /\ Len(file) \in Nat
      /\ \A p \in Proc : mem[p] \in MemType
      /\ \A v \in Verifier : Home[v] \in Proc /\ v \in Thread
  BY ThreadAssumption DEF TypeOK, Thread
<1>1. /\ Loaded(file).size <= Len(file) /\ Whole(Loaded(file), file)
      /\ EmptyLog.size = 0
  BY <1>0, PrefixOfSelf DEF Loaded, EmptyLog, Whole
<1>2. ASSUME NEW p \in Proc, boot[p] # "up",
             UNCHANGED <<file, pc, view>>,
             \A q \in Proc \ {p} : mem'[q] = mem[q] /\ boot'[q] = boot[q],
             mem'[p].size <= Len(file),
             boot'[p] = "loaded" => Whole(mem'[p], file)
      PROVE  CopyInv'
  <2>1. ASSUME NEW q \in Proc
        PROVE  /\ mem'[q].size <= Len(file')
               /\ boot'[q] = "loaded" => Whole(mem'[q], file')
    BY <1>2 DEF CopyInv
  <2>2. ASSUME NEW v \in Verifier
        PROVE  /\ pc'[v] # "idle" => boot'[Home[v]] = "up"
               /\ pc'[v] \in {"assign", "resize"} => Len(view'[v].read) <= Len(file')
    BY <1>0, <1>2 DEF CopyInv
  <2> QED
    BY <2>1, <2>2 DEF CopyInv
<1>3. ASSUME NEW p \in Proc, Load(p) PROVE CopyInv'
  <2>1. /\ UNCHANGED <<file, pc, view>> /\ boot[p] # "up"
        /\ \A q \in Proc \ {p} : mem'[q] = mem[q] /\ boot'[q] = boot[q]
    BY <1>3 DEF Load, TypeOK
  <2>2. \/ boot'[p] = "refused" /\ mem' = mem
        \/ mem'[p] = Loaded(file)
    BY <1>3 DEF Load, TypeOK
  <2> QED
    BY <1>1, <1>2, <2>1, <2>2 DEF CopyInv
<1>4. ASSUME NEW p \in Proc, Check(p) PROVE CopyInv'
  <2>1. /\ UNCHANGED <<file, pc, view>> /\ boot[p] # "up" /\ boot'[p] # "loaded"
        /\ \A q \in Proc \ {p} : mem'[q] = mem[q] /\ boot'[q] = boot[q]
    BY <1>4 DEF Check, TypeOK
  <2>2. mem'[p] \in {mem[p], Loaded(file)}
    BY <1>4 DEF Check, Refreshed, TypeOK
  <2> QED
    BY <1>1, <1>2, <2>1, <2>2 DEF CopyInv
<1>5. ASSUME NEW p \in Proc, BootTimeout(p) PROVE CopyInv'
  <2>1. /\ UNCHANGED <<file, pc, view>> /\ boot[p] # "up" /\ boot'[p] = "down"
        /\ \A q \in Proc \ {p} : mem'[q] = mem[q] /\ boot'[q] = boot[q]
        /\ mem'[p] = EmptyLog
    BY <1>5 DEF BootTimeout, TypeOK
  <2> QED
    BY <1>0, <1>1, <1>2, <2>1
<1>6. ASSUME NEW p \in Proc, Crash(p) PROVE CopyInv'
  <2>1. /\ file' = file /\ boot'[p] = "down" /\ mem'[p] = EmptyLog
        /\ \A q \in Proc \ {p} : mem'[q] = mem[q] /\ boot'[q] = boot[q]
    BY <1>6 DEF Crash, TypeOK
  <2>2. \A v \in Verifier :
          IF Home[v] = p THEN pc'[v] = "idle"
          ELSE pc'[v] = pc[v] /\ view'[v] = view[v]
    BY <1>0, <1>6 DEF Crash, Stopped, ThreadsOf
  <2>3. ASSUME NEW q \in Proc
        PROVE  /\ mem'[q].size <= Len(file')
               /\ boot'[q] = "loaded" => Whole(mem'[q], file')
    BY <1>0, <1>1, <2>1 DEF CopyInv
  <2>4. ASSUME NEW v \in Verifier
        PROVE  /\ pc'[v] # "idle" => boot'[Home[v]] = "up"
               /\ pc'[v] \in {"assign", "resize"} => Len(view'[v].read) <= Len(file')
    BY <1>0, <2>1, <2>2 DEF CopyInv
  <2> QED
    BY <2>3, <2>4 DEF CopyInv
<1>7. CASE PowerLoss
  <2>1. /\ boot' = [p \in Proc |-> "down"] /\ mem' = [p \in Proc |-> EmptyLog]
        /\ \A v \in Verifier : pc'[v] = "idle"
    BY <1>0, <1>7 DEF PowerLoss, Stopped
  <2>2. file' \in Seq(Entry)
    BY <1>7, NextType DEF Next, TypeOK
  <2> QED
    BY <1>1, <2>1, <2>2 DEF CopyInv
<1>8. CASE RotateKey
  BY <1>8 DEF RotateKey, CopyInv
<1>9. ASSUME NEW t \in Recorder, NEW l, Goto(t, l)
      PROVE  \A v \in Verifier : pc'[v] = pc[v]
  BY <1>0, <1>9, GotoThread
<1>10. ASSUME NEW t \in Recorder, pc[t] # "idle",
              NEW m \in MemType, Fail(t, m), m.size <= Len(file),
              file' \in {file, Append(file, draft[t])}
       PROVE  CopyInv'
  <2>1. boot[Home[t]] \in {"marking", "up"}
    BY <1>10 DEF LockInv
  <2>2. /\ \A p \in Proc \ {Home[t]} : mem'[p] = mem[p] /\ boot'[p] = boot[p]
        /\ mem'[Home[t]] \in {m, EmptyLog}
        /\ \/ boot'[Home[t]] = boot[Home[t]]
           \/ boot[Home[t]] = "marking" /\ boot'[Home[t]] = "down"
    BY <1>10 DEF Fail, TypeOK
  <2>3. Len(file) <= Len(file')
    <3>1. draft[t] \in Entry
      BY DEF TypeOK
    <3> QED
      BY <1>0, <1>10, <3>1
  <2>4. mem'[Home[t]].size <= Len(file')
    <3>1. Len(file') \in Nat
      <4>1. draft[t] \in Entry
        BY DEF TypeOK
      <4> QED
        BY <1>0, <1>10, <4>1
    <3> QED
      BY <1>0, <1>1, <1>10, <2>2, <2>3, <3>1 DEF MemType
  <2>5. \A v \in Verifier : pc'[v] = pc[v] /\ view'[v] = view[v]
    BY <1>9, <1>10 DEF Fail, Release
  <2> QED
    BY <1>10, <2>1, <2>2, <2>4, <2>5, CopyRecord
<1>11. ASSUME NEW t \in Recorder,
              \/ Begin(t) \/ TakeFileLock(t) \/ Build(t)
       PROVE  CopyInv'
  <2>1. UNCHANGED <<file, mem, boot, view>> /\ \A v \in Verifier : pc'[v] = pc[v]
    BY <1>9, <1>11 DEF Begin, TakeFileLock, Build
  <2> QED
    BY <2>1 DEF CopyInv
<1>12. ASSUME NEW t \in Recorder, LockTimeout(t) \/ BuildFails(t) \/ WriteFails(t)
       PROVE  CopyInv'
  <2>1. /\ Fail(t, mem[Home[t]]) /\ pc[t] # "idle"
        /\ file' \in {file, Append(file, draft[t])}
    BY <1>12 DEF LockTimeout, BuildFails, WriteFails
  <2>2. mem[Home[t]] \in MemType /\ mem[Home[t]].size <= Len(file)
    BY <1>0 DEF CopyInv
  <2> QED
    BY <1>10, <2>1, <2>2
<1>13. ASSUME NEW t \in Recorder, Refresh(t) PROVE CopyInv'
  <2> DEFINE m == Refreshed(mem[Home[t]])
  <2>1. m \in MemType /\ m.size <= Len(file)
    BY <1>0, <1>1, LoadedType DEF Refreshed, CopyInv
  <2>2. CASE Fail(t, m)
    BY <1>10, <1>13, <2>1, <2>2 DEF Refresh
  <2>3. CASE ~Fail(t, m)
    <3>1. /\ UNCHANGED <<file, boot, view>> /\ mem' = [mem EXCEPT ![Home[t]] = m]
          /\ pc[t] = "refresh" /\ \A v \in Verifier : pc'[v] = pc[v]
      BY <1>9, <1>13, <2>3 DEF Refresh
    <3>2. boot[Home[t]] \in {"marking", "up"}
      BY <3>1 DEF LockInv
    <3>3. mem'[Home[t]] = m /\ \A p \in Proc \ {Home[t]} : mem'[p] = mem[p]
      BY <3>1 DEF TypeOK
    <3> QED
      BY <2>1, <3>1, <3>2, <3>3, CopyRecord
  <2> QED
    BY <2>2, <2>3
<1>14. ASSUME NEW t \in Recorder, Write(t) PROVE CopyInv'
  <2>1. /\ UNCHANGED <<mem, boot, view>> /\ pc[t] = "write"
        /\ file' = Append(file, draft[t]) /\ \A v \in Verifier : pc'[v] = pc[v]
    BY <1>9, <1>14 DEF Write
  <2>2. boot[Home[t]] \in {"marking", "up"}
    BY <2>1 DEF LockInv
  <2>3. mem'[Home[t]].size <= Len(file')
    <3>1. draft[t] \in Entry /\ mem[Home[t]].size \in Nat /\ mem[Home[t]].size <= Len(file)
      BY <1>0 DEF TypeOK, MemType, CopyInv
    <3> QED
      BY <1>0, <2>1, <3>1
  <2> QED
    BY <2>1, <2>2, <2>3, CopyRecord
<1>15. ASSUME NEW t \in Recorder, Commit(t) PROVE CopyInv'
  <2>1. /\ UNCHANGED <<file, boot, view>> /\ pc[t] = "commit"
        /\ mem' = [mem EXCEPT ![Home[t]] = Extended(mem[Home[t]], t)]
        /\ \A v \in Verifier : pc'[v] = pc[v]
    BY <1>9, <1>15 DEF Commit
  <2>2. boot[Home[t]] \in {"marking", "up"} /\ ~torn
    BY <2>1 DEF LockInv, EntryInv, EntryOf, Placed
  <2>3. /\ mem'[Home[t]].size = Len(file)
        /\ \A p \in Proc \ {Home[t]} : mem'[p] = mem[p]
    BY <1>0, <2>1, <2>2 DEF Extended, FileSize, TypeOK
  <2> QED
    BY <1>0, <2>1, <2>2, <2>3, CopyRecord
<1>16. ASSUME NEW t \in Recorder, WriteAnchor(t) PROVE CopyInv'
  <2>1. /\ UNCHANGED <<file, mem, view>> /\ pc[t] = "anchor"
        /\ boot' = [boot EXCEPT ![Home[t]] = "up"]
        /\ \A v \in Verifier : pc'[v] = pc[v]
    BY <1>9, <1>16 DEF WriteAnchor, Release
  <2>2. boot[Home[t]] \in {"marking", "up"}
    BY <2>1 DEF LockInv
  <2>3. boot'[Home[t]] = "up" /\ \A p \in Proc \ {Home[t]} : boot'[p] = boot[p]
    BY <2>1 DEF TypeOK
  <2>4. mem'[Home[t]].size <= Len(file')
    BY <2>1 DEF CopyInv
  <2> QED
    BY <2>1, <2>2, <2>3, <2>4, CopyRecord
<1>17. ASSUME NEW v \in Verifier, VerifyStep(v) PROVE CopyInv'
  <2> USE DEF quietV
  <2>1. UNCHANGED <<file, boot>> /\ boot[Home[v]] = "up"
    BY <1>17 DEF VerifyStep, VerifyStat, VerifyRead, VerifyAssign, VerifyResize, VerifyAnchor,
       VerifyCheck, CopyInv
  <2>2. \A u \in Verifier \ {v} : pc'[u] = pc[u] /\ view'[u] = view[u]
    <3>1. \A l : Goto(v, l) => \A u \in Verifier \ {v} : pc'[u] = pc[u]
      BY <1>0, GotoThread
    <3>2. \A u \in Verifier \ {v} : view'[u] = view[u]
      BY <1>17 DEF VerifyStep, VerifyStat, VerifyRead, VerifyAssign, VerifyResize, VerifyAnchor,
         VerifyCheck, Report, TypeOK
    <3> QED
      BY <1>17, <3>1, <3>2 DEF VerifyStep, VerifyStat, VerifyRead, VerifyAssign, VerifyResize,
         VerifyAnchor, VerifyCheck, Report
  <2>3. CASE VerifyAssign(v)
    <3>1. /\ mem'[Home[v]].size = mem[Home[v]].size /\ pc[v] = "assign" /\ view' = view
          /\ \A p \in Proc \ {Home[v]} : mem'[p] = mem[p]
      BY <1>0, <2>3 DEF VerifyAssign, Loaded, TypeOK
    <3>2. mem[Home[v]].size <= Len(file) /\ Len(view[v].read) <= Len(file)
      BY <1>0, <3>1 DEF CopyInv
    <3> QED
      BY <2>1, <2>2, <3>1, <3>2, CopyVerify
  <2>4. CASE VerifyResize(v)
    <3>1. /\ mem'[Home[v]].size = Len(view[v].read) /\ pc[v] = "resize"
          /\ \A p \in Proc \ {Home[v]} : mem'[p] = mem[p]
      BY <1>0, <2>4 DEF VerifyResize, MemType, TypeOK
    <3>2. Len(view[v].read) <= Len(file)
      BY <3>1 DEF CopyInv
    <3>3. pc'[v] \in {"anchor", "idle"}
      BY <1>0, <2>4, GotoThread DEF VerifyResize, Report
    <3> QED
      BY <2>1, <2>2, <3>1, <3>2, <3>3, CopyVerify
  <2>5. CASE ~VerifyAssign(v) /\ ~VerifyResize(v)
    <3>1. mem' = mem
      BY <1>17, <2>5 DEF VerifyStep, VerifyStat, VerifyRead, VerifyAnchor, VerifyCheck
    <3>2. mem'[Home[v]].size <= Len(file)
      BY <1>0, <3>1 DEF CopyInv
    <3>3. CASE VerifyRead(v) /\ Readable
      <4>1. view'[v].read = file
        BY <3>3 DEF VerifyRead, TypeOK, ViewType
      <4> QED
        BY <1>0, <2>1, <2>2, <3>1, <3>2, <4>1, CopyVerify
    <3>4. CASE ~VerifyRead(v) \/ ~Readable
      <4>1. pc'[v] \notin {"assign", "resize"}
        BY <1>0, <1>17, <2>5, <3>4, GotoThread DEF VerifyStep, VerifyStat,
           VerifyRead, VerifyAnchor, VerifyCheck, Report
      <4> QED
        BY <2>1, <2>2, <3>1, <3>2, <4>1, CopyVerify
    <3> QED
      BY <3>3, <3>4
  <2> QED
    BY <2>3, <2>4, <2>5
<1>18. ASSUME NEW v \in Inspector, InspectLoad(v) \/ InspectVerify(v)
       PROVE  CopyInv'
  <2>1. \A u \in Verifier : u \in Thread \ {v} /\ u # v
    BY <1>0, ThreadAssumption
  <2>2. \A l : Goto(v, l) => \A u \in Verifier : pc'[u] = pc[u]
    <3>1. v \in Thread
      BY DEF Thread
    <3> QED
      BY <2>1, <3>1, GotoThread
  <2>3. \A u \in Verifier : view'[u] = view[u]
    BY <1>18, <2>1 DEF InspectLoad, InspectVerify, Report, TypeOK
  <2>4. UNCHANGED <<file, mem, boot>> /\ \A u \in Verifier : pc'[u] = pc[u]
    BY <1>18, <2>2 DEF InspectLoad, InspectVerify, Report, quietV
  <2> QED
    BY <2>3, <2>4 DEF CopyInv
<1>19. CASE UNCHANGED vars
  BY <1>19 DEF vars, CopyInv
<1> QED
  BY <1>3, <1>4, <1>5, <1>6, <1>7, <1>8, <1>11, <1>12, <1>13, <1>14, <1>15,
     <1>16, <1>17, <1>18, <1>19 DEF Next, Step, RecordStep

----------------------------------------------------------------------------
LEMMA RefreshReturnsFile ==
  ASSUME TypeOK, NEW m \in MemType, Whole(m, file), RefreshReturns(m)
  PROVE  ~torn /\ Refreshed(m).entries = file
<1>1. Len(m.entries) <= Len(file) /\ m.size = Len(m.entries)
  BY DEF Whole, IsPrefixOf
<1>2. Len(m.entries) \in Nat /\ Len(file) \in Nat /\ torn \in BOOLEAN
  BY DEF TypeOK, MemType
<1>3. CASE FileSize = m.size
  <2>1. ~torn /\ Len(m.entries) = Len(file)
    BY <1>1, <1>2, <1>3 DEF FileSize
  <2>2. m.entries = file
    BY <2>1, FullPrefix DEF Whole, MemType, TypeOK
  <2> QED
    BY <1>1, <1>2, <1>3, <2>1, <2>2 DEF Refreshed
<1>4. CASE FileSize > m.size /\ Readable
  BY <1>4 DEF Refreshed, Loaded, Readable
<1> QED
  BY <1>3, <1>4 DEF RefreshReturns

----------------------------------------------------------------------------
(* The size a process has noted with its copy of the log.                  *)

LEMMA InitSize == Init => SizeInv
BY Homes DEF Init, SizeInv, SizeOf, Replacing, EmptyLog, Thread

\* A step that leaves the log of a process and those who replace it alone.
LEMMA SizeFrame ==
  ASSUME NEW p, SizeOf(p), mem'[p] = mem[p],
         \A v \in Verifier : Home[v] = p =>
           /\ pc'[v] = "resize" <=> pc[v] = "resize"
           /\ pc[v] = "resize" => view'[v] = view[v]
  PROVE  SizeOf(p)'
BY DEF SizeOf, Replacing

\* A step after which nobody replaces it.
LEMMA SizeFresh ==
  ASSUME NEW p, \A v \in Verifier : Home[v] = p => pc'[v] # "resize",
         mem'[p].size = Len(mem'[p].entries)
  PROVE  SizeOf(p)'
BY DEF SizeOf, Replacing

LEMMA SizeStep ==
  ASSUME TypeOK, LockInv, SizeInv, Apart, Apart', [Next]_vars,
         \A v \in Verifier : pc[v] # "idle" => boot[Home[v]] = "up",
         \A t \in Recorder : pc[t] = "commit" =>
           ~torn /\ Len(mem[Home[t]].entries) + 1 = Len(file)
  PROVE  SizeInv'
<1> SUFFICES ASSUME NEW u \in Recorder PROVE SizeOf(Home[u])'
  BY DEF SizeInv
<1> USE Homes DEF disk, locks, procs, watch, quietV
<1>0. /\ SizeOf(Home[u]) /\ Home[u] \in Proc
      /\ \A v \in Verifier : Home[v] \in Proc /\ v \in Thread
      /\ EmptyLog.size = Len(EmptyLog.entries)
      /\ \A es : Loaded(es).size = Len(Loaded(es).entries)
  BY ThreadAssumption DEF SizeInv, Thread, EmptyLog, Loaded
<1>1. ASSUME mem'[Home[u]] = mem[Home[u]],
             \A v \in Verifier : pc'[v] = pc[v] /\ view'[v] = view[v]
      PROVE  SizeOf(Home[u])'
  BY <1>0, <1>1, SizeFrame
<1>2. ASSUME NEW p \in Proc, boot[p] # "up",
             \A q \in Proc \ {p} : mem'[q] = mem[q],
             mem'[p] = mem[p] \/ mem'[p].size = Len(mem'[p].entries),
             \A v \in Verifier : pc'[v] = pc[v] /\ view'[v] = view[v]
      PROVE  SizeOf(Home[u])'
  <2>1. CASE mem'[Home[u]] = mem[Home[u]]
    BY <1>1, <1>2, <2>1
  <2>2. CASE mem'[Home[u]] # mem[Home[u]]
    BY <1>0, <1>2, <2>2, SizeFresh
  <2> QED
    BY <2>1, <2>2
<1>3. ASSUME NEW p \in Proc, Load(p) \/ Check(p) \/ BootTimeout(p)
      PROVE  SizeOf(Home[u])'
  <2>1. /\ boot[p] # "up" /\ UNCHANGED <<pc, view>>
        /\ \A q \in Proc \ {p} : mem'[q] = mem[q]
        /\ mem'[p] \in {mem[p], Loaded(file), EmptyLog}
    BY <1>3 DEF Load, Check, BootTimeout, Refreshed, TypeOK
  <2> QED
    BY <1>0, <1>2, <2>1
<1>4. ASSUME NEW p \in Proc, Crash(p) PROVE SizeOf(Home[u])'
  <2>1. /\ mem'[p] = EmptyLog /\ \A q \in Proc \ {p} : mem'[q] = mem[q]
        /\ \A v \in Verifier : IF Home[v] = p THEN pc'[v] = "idle"
                              ELSE pc'[v] = pc[v] /\ view'[v] = view[v]
    BY <1>0, <1>4 DEF Crash, Stopped, ThreadsOf, TypeOK
  <2>2. CASE Home[u] = p
    BY <1>0, <2>1, <2>2, SizeFresh
  <2>3. CASE Home[u] # p
    BY <1>0, <2>1, <2>3, SizeFrame
  <2> QED
    BY <2>2, <2>3
<1>5. CASE PowerLoss
  BY <1>0, <1>5, SizeFresh DEF PowerLoss, Stopped
<1>6. CASE RotateKey
  BY <1>1, <1>6 DEF RotateKey
<1>7. ASSUME NEW t \in Recorder, NEW l, Goto(t, l)
      PROVE  \A v \in Verifier : pc'[v] = pc[v]
  BY <1>0, <1>7, GotoThread
<1>8. ASSUME NEW t \in Recorder, pc[t] \in Critical,
             \A q \in Proc \ {Home[t]} : mem'[q] = mem[q],
             mem'[Home[t]] = mem[Home[t]] \/ mem'[Home[t]].size = Len(mem'[Home[t]].entries),
             \A v \in Verifier : pc'[v] = pc[v] /\ view'[v] = view[v]
      PROVE  SizeOf(Home[u])'
  <2>1. CASE mem'[Home[u]] = mem[Home[u]]
    BY <1>1, <1>8, <2>1
  <2>2. CASE mem'[Home[u]] # mem[Home[u]]
    <3>1. Home[u] = Home[t]
      BY <1>0, <1>8, <2>2
    <3>2. \A v \in Verifier : Home[v] = Home[u] => pc'[v] # "resize"
      BY <1>8, <3>1 DEF Apart, Replacing
    <3> QED
      BY <1>8, <2>2, <3>1, <3>2, SizeFresh
  <2> QED
    BY <2>1, <2>2
<1>9. ASSUME NEW t \in Recorder, pc[t] # "idle", NEW m, Fail(t, m),
             \/ m = mem[Home[t]]
             \/ pc[t] \in Critical /\ m.size = Len(m.entries)
      PROVE  SizeOf(Home[u])'
  <2>1. /\ \A q \in Proc \ {Home[t]} : mem'[q] = mem[q]
        /\ \A v \in Verifier : pc'[v] = pc[v] /\ view'[v] = view[v]
    BY <1>7, <1>9 DEF Fail, Release, TypeOK
  <2>2. CASE boot[Home[t]] = "marking"
    <3>1. mem'[Home[t]] = EmptyLog
      BY <1>9, <2>2 DEF Fail, TypeOK
    <3> QED
      BY <1>0, <1>2, <2>1, <2>2, <3>1
  <2>3. CASE boot[Home[t]] # "marking"
    <3>1. mem'[Home[t]] = m
      BY <1>9, <2>3 DEF Fail, TypeOK
    <3>2. CASE m = mem[Home[t]]
      BY <1>0, <1>1, <2>1, <3>1, <3>2
    <3>3. CASE pc[t] \in Critical /\ m.size = Len(m.entries)
      BY <1>8, <2>1, <3>1, <3>3
    <3> QED
      BY <1>9, <3>2, <3>3
  <2> QED
    BY <2>2, <2>3
<1>10. ASSUME NEW t \in Recorder,
              Begin(t) \/ TakeFileLock(t) \/ Build(t) \/ Write(t) \/ WriteAnchor(t)
       PROVE  SizeOf(Home[u])'
  <2>1. UNCHANGED <<mem, view>> /\ \A v \in Verifier : pc'[v] = pc[v]
    BY <1>7, <1>10 DEF Begin, TakeFileLock, Build, Write, WriteAnchor, Release
  <2> QED
    BY <1>1, <2>1
<1>11. ASSUME NEW t \in Recorder, LockTimeout(t) \/ BuildFails(t) \/ WriteFails(t)
       PROVE  SizeOf(Home[u])'
  <2>1. Fail(t, mem[Home[t]]) /\ pc[t] # "idle"
    BY <1>11 DEF LockTimeout, BuildFails, WriteFails
  <2> QED
    BY <1>9, <2>1
<1>12. ASSUME NEW t \in Recorder, Refresh(t) PROVE SizeOf(Home[u])'
  <2> DEFINE m == Refreshed(mem[Home[t]])
  <2>1. pc[t] \in Critical /\ pc[t] # "idle"
    BY <1>12 DEF Refresh, Critical, Placed
  <2>2. m = mem[Home[t]] \/ m.size = Len(m.entries)
    BY <1>0 DEF Refreshed
  <2>3. CASE Fail(t, m)
    BY <1>9, <2>1, <2>2, <2>3
  <2>4. CASE ~Fail(t, m)
    <3>1. /\ view' = view /\ mem' = [mem EXCEPT ![Home[t]] = m]
          /\ \A v \in Verifier : pc'[v] = pc[v]
      BY <1>7, <1>12, <2>4 DEF Refresh
    <3>2. mem'[Home[t]] = m /\ \A q \in Proc \ {Home[t]} : mem'[q] = mem[q]
      BY <3>1 DEF TypeOK
    <3> QED
      BY <1>8, <2>1, <2>2, <3>1, <3>2
  <2> QED
    BY <2>3, <2>4
<1>13. ASSUME NEW t \in Recorder, Commit(t) PROVE SizeOf(Home[u])'
  <2> DEFINE m == Extended(mem[Home[t]], t)
  <2>1. /\ pc[t] = "commit" /\ view' = view
        /\ mem'[Home[t]] = m /\ \A q \in Proc \ {Home[t]} : mem'[q] = mem[q]
        /\ \A v \in Verifier : pc'[v] = pc[v]
    BY <1>7, <1>13 DEF Commit, TypeOK
  <2>2. m.size = Len(m.entries)
    <3>1. mem[Home[t]].entries \in Seq(Entry) /\ draft[t] \in Entry /\ file \in Seq(Entry)
      BY DEF TypeOK, MemType
    <3>2. ~torn /\ Len(mem[Home[t]].entries) + 1 = Len(file)
      BY <2>1
    <3> QED
      BY <3>1, <3>2 DEF Extended, FileSize
  <2> QED
    BY <1>8, <2>1, <2>2 DEF Critical, Placed
<1>14. ASSUME NEW v \in Verifier, VerifyStep(v) PROVE SizeOf(Home[u])'
  <2>1. \A w \in Verifier \ {v} : pc'[w] = pc[w] /\ view'[w] = view[w]
    <3>1. \A l : Goto(v, l) => \A w \in Verifier \ {v} : pc'[w] = pc[w]
      BY <1>0, GotoThread
    <3>2. \A w \in Verifier \ {v} : view'[w] = view[w]
      BY <1>14 DEF VerifyStep, VerifyStat, VerifyRead, VerifyAssign, VerifyResize,
         VerifyAnchor, VerifyCheck, Report, TypeOK
    <3> QED
      BY <1>14, <3>1, <3>2 DEF VerifyStep, VerifyStat, VerifyRead, VerifyAssign,
         VerifyResize, VerifyAnchor, VerifyCheck, Report
  <2>2. ASSUME pc[v] # "resize", pc'[v] # "resize", mem' = mem PROVE SizeOf(Home[u])'
    BY <1>0, <2>1, <2>2, SizeFrame
  <2>3. CASE VerifyAssign(v)
    <3>1. /\ mem'[Home[v]].entries = view[v].read /\ view' = view
          /\ \A q \in Proc \ {Home[v]} : mem'[q] = mem[q]
          /\ pc[v] = "assign" /\ pc'[v] = "resize"
      BY <1>0, <2>3, GotoThread DEF VerifyAssign, Loaded, TypeOK
    <3>2. CASE Home[u] = Home[v]
      <4>1. v \in Replacing(Home[u])' /\ \A w \in Replacing(Home[u])' : w = v
        BY <3>1, <3>2 DEF Apart, Replacing
      <4> QED
        BY <3>1, <3>2, <4>1 DEF SizeOf
    <3>3. CASE Home[u] # Home[v]
      BY <1>0, <2>1, <3>1, <3>3, SizeFrame
    <3> QED
      BY <3>2, <3>3
  <2>4. CASE VerifyResize(v)
    <3>1. /\ mem'[Home[v]].entries = mem[Home[v]].entries
          /\ mem'[Home[v]].size = Len(view[v].read)
          /\ \A q \in Proc \ {Home[v]} : mem'[q] = mem[q]
          /\ pc[v] = "resize" /\ pc'[v] # "resize"
      BY <1>0, <2>4, GotoThread DEF VerifyResize, Report, TypeOK, MemType
    <3>2. CASE Home[u] = Home[v]
      <4>1. v \in Replacing(Home[u]) /\ \A w \in Replacing(Home[u]) : w = v
        BY <3>1, <3>2 DEF Apart, Replacing
      <4>2. mem[Home[u]].entries = view[v].read
        BY <1>0, <4>1 DEF SizeOf
      <4>3. \A w \in Verifier : Home[w] = Home[u] => pc'[w] # "resize"
        BY <2>1, <3>1, <4>1 DEF Replacing
      <4> QED
        BY <3>1, <3>2, <4>2, <4>3, SizeFresh
    <3>3. CASE Home[u] # Home[v]
      BY <1>0, <2>1, <3>1, <3>3, SizeFrame
    <3> QED
      BY <3>2, <3>3
  <2>5. CASE ~VerifyAssign(v) /\ ~VerifyResize(v)
    <3>1. mem' = mem /\ pc[v] # "resize"
      BY <1>14, <2>5 DEF VerifyStep, VerifyStat, VerifyRead, VerifyAnchor, VerifyCheck
    <3>2. pc'[v] # "resize"
      BY <1>0, <1>14, <2>5, GotoThread DEF VerifyStep, VerifyStat, VerifyRead,
         VerifyAnchor, VerifyCheck, Report
    <3> QED
      BY <2>2, <3>1, <3>2
  <2> QED
    BY <2>3, <2>4, <2>5
<1>15. ASSUME NEW v \in Inspector, InspectLoad(v) \/ InspectVerify(v)
       PROVE  SizeOf(Home[u])'
  <2>1. \A w \in Verifier : w \in Thread \ {v} /\ w # v
    BY <1>0, ThreadAssumption
  <2>2. \A l : Goto(v, l) => \A w \in Verifier : pc'[w] = pc[w]
    <3>1. v \in Thread
      BY DEF Thread
    <3> QED
      BY <2>1, <3>1, GotoThread
  <2>3. \A w \in Verifier : view'[w] = view[w]
    BY <1>15, <2>1 DEF InspectLoad, InspectVerify, Report, TypeOK
  <2>4. mem' = mem /\ \A w \in Verifier : pc'[w] = pc[w]
    BY <1>15, <2>2 DEF InspectLoad, InspectVerify, Report
  <2> QED
    BY <1>1, <2>3, <2>4
<1>16. CASE UNCHANGED vars
  BY <1>1, <1>16 DEF vars
<1> QED
  BY <1>3, <1>4, <1>5, <1>6, <1>10, <1>11, <1>12, <1>13, <1>14, <1>15, <1>16
     DEF Next, Step, RecordStep

----------------------------------------------------------------------------
(* The recorders at work.                                                  *)

LEMMA InitDraft == Init => DraftInv
BY DEF Init, DraftInv, DraftOf, Thread

\* A step that leaves the recorder u and what it works on alone.
LEMMA DraftFrame ==
  ASSUME DraftInv, NEW u \in Recorder,
         \/ pc'[u] \notin Placed
         \/ /\ pc'[u] = pc[u] /\ draft'[u] = draft[u]
            /\ mem'[Home[u]] = mem[Home[u]]
            /\ UNCHANGED file
  PROVE  DraftOf(u)'
BY DEF DraftInv, DraftOf, Placed

\* A record that ends leaves the other recorders alone.
LEMMA DraftFail ==
  ASSUME TypeOK, LockInv, DraftInv, NEW t \in Recorder, NEW m, Fail(t, m),
         pc[t] # "idle",
         pc[t] \in Critical \/ UNCHANGED file
  PROVE  DraftInv'
<1> SUFFICES ASSUME NEW u \in Recorder PROVE DraftOf(u)'
  BY DEF DraftInv
<1> USE Homes DEF Fail, Release
<1>1. CASE u = t
  BY <1>1, GotoThread, DraftFrame DEF Placed
<1>2. CASE u # t
  <2>1. pc'[u] = pc[u]
    BY <1>2, GotoThread
  <2>2. draft'[u] = draft[u]
    BY <1>2 DEF TypeOK
  <2>3. CASE pc[u] = "idle"
    BY <2>1, <2>3, DraftFrame DEF Placed
  <2>4. CASE pc[u] # "idle"
    <3>1. Home[u] # Home[t]
      BY <1>2, <2>4 DEF LockInv
    <3>2. mem'[Home[u]] = mem[Home[u]]
      BY <3>1 DEF TypeOK
    <3>3. CASE UNCHANGED file
      BY <2>1, <2>2, <3>2, <3>3, DraftFrame
    <3>4. CASE pc[t] \in Critical
      <4>1. pc[u] \notin Critical
        BY <1>2, <3>4 DEF LockInv
      <4> QED
        BY <2>1, <4>1, DraftFrame DEF Critical, Placed
    <3> QED
      BY <3>3, <3>4
  <2> QED
    BY <2>3, <2>4
<1> QED
  BY <1>1, <1>2

LEMMA DraftStep ==
  ASSUME TypeOK, LockInv, MemInv, SizeInv, DraftInv, Apart, Apart', [Next]_vars
  PROVE  DraftInv'
<1> USE Homes DEF disk, locks, procs, watch
<1>1. ASSUME NEW p \in Proc,
             boot[p] \in {"down", "loaded"},
             UNCHANGED <<file, pc, draft>>,
             \A q \in Proc \ {p} : mem'[q] = mem[q]
      PROVE  DraftInv'
  <2> SUFFICES ASSUME NEW u \in Recorder PROVE DraftOf(u)'
    BY DEF DraftInv
  <2>1. CASE pc[u] = "idle"
    BY <1>1, <2>1, DraftFrame DEF Placed
  <2>2. CASE pc[u] # "idle"
    <3>1. Home[u] # p
      BY <1>1, <2>2 DEF LockInv
    <3> QED
      BY <1>1, <3>1, DraftFrame
  <2> QED
    BY <2>1, <2>2
<1>2. ASSUME NEW p \in Proc, Load(p) PROVE DraftInv'
  <2>1. \A q \in Proc \ {p} : mem'[q] = mem[q]
    BY <1>2 DEF Load, TypeOK
  <2> QED
    BY <1>1, <1>2, <2>1 DEF Load
<1>3. ASSUME NEW p \in Proc, Check(p) PROVE DraftInv'
  <2>1. \A q \in Proc \ {p} : mem'[q] = mem[q]
    BY <1>3 DEF Check, TypeOK
  <2> QED
    BY <1>1, <1>3, <2>1 DEF Check
<1>4. ASSUME NEW p \in Proc, BootTimeout(p) PROVE DraftInv'
  <2>1. \A q \in Proc \ {p} : mem'[q] = mem[q]
    BY <1>4 DEF BootTimeout, TypeOK
  <2> QED
    BY <1>1, <1>4, <2>1 DEF BootTimeout
<1>5. ASSUME NEW p \in Proc, Crash(p) PROVE DraftInv'
  <2> SUFFICES ASSUME NEW u \in Recorder PROVE DraftOf(u)'
    BY DEF DraftInv
  <2>1. CASE Home[u] = p
    <3>1. pc'[u] = "idle"
      BY <1>5, <2>1 DEF Crash, Stopped, ThreadsOf
    <3> QED
      BY <3>1, DraftFrame DEF Placed
  <2>2. CASE Home[u] # p
    BY <1>5, <2>2, DraftFrame DEF Placed, Crash, Stopped, ThreadsOf, TypeOK
  <2> QED
    BY <2>1, <2>2
<1>6. CASE PowerLoss
  BY <1>6, DraftFrame DEF PowerLoss, Stopped, DraftInv, Placed
<1>7. CASE RotateKey
  BY <1>7, DraftFrame DEF RotateKey, DraftInv
<1>8. ASSUME NEW t \in Recorder, NEW l, Goto(t, l),
             pc[t] \in Critical \/ UNCHANGED file,
             \A u \in Recorder \ {t} : draft'[u] = draft[u],
             \A q \in Proc \ {Home[t]} : mem'[q] = mem[q],
             pc[t] # "idle" \/ UNCHANGED mem,
             DraftOf(t)'
      PROVE  DraftInv'
  <2> SUFFICES ASSUME NEW u \in Recorder, u # t PROVE DraftOf(u)'
    BY <1>8 DEF DraftInv
  <2>1. pc'[u] = pc[u]
    BY <1>8, GotoThread
  <2>2. CASE pc[u] = "idle"
    BY <2>1, <2>2, DraftFrame DEF Placed
  <2>3. CASE pc[u] # "idle"
    <3>1. mem'[Home[u]] = mem[Home[u]]
      BY <1>8, <2>3 DEF LockInv
    <3>2. CASE UNCHANGED file
      BY <1>8, <2>1, <3>1, <3>2, DraftFrame
    <3>3. CASE pc[t] \in Critical
      <4>1. pc[u] \notin Critical
        BY <3>3 DEF LockInv
      <4> QED
        BY <2>1, <4>1, DraftFrame DEF Critical, Placed
    <3> QED
      BY <1>8, <3>2, <3>3
  <2> QED
    BY <2>2, <2>3
<1>9. ASSUME NEW t \in Recorder, Begin(t) PROVE DraftInv'
  <2>1. DraftOf(t)'
    BY <1>9, GotoThread, DraftFrame DEF Begin, Placed
  <2> QED
    BY <1>8, <1>9, <2>1 DEF Begin
<1>10. ASSUME NEW t \in Recorder, TakeFileLock(t) PROVE DraftInv'
  <2>1. DraftOf(t)'
    BY <1>10, GotoThread, DraftFrame DEF TakeFileLock, Placed
  <2> QED
    BY <1>8, <1>10, <2>1 DEF TakeFileLock
<1>11. ASSUME NEW t \in Recorder, LockTimeout(t) \/ BuildFails(t) \/ WriteFails(t)
       PROVE  DraftInv'
  BY <1>11, DraftFail DEF LockTimeout, BuildFails, WriteFails, Critical, Placed
<1>12. ASSUME NEW t \in Recorder, Refresh(t) PROVE DraftInv'
  <2>1. CASE Fail(t, Refreshed(mem[Home[t]]))
    BY <1>12, <2>1, DraftFail DEF Refresh
  <2>2. CASE ~Fail(t, Refreshed(mem[Home[t]]))
    <3>1. RefreshReturns(mem[Home[t]]) /\ Goto(t, "build") /\ pc[t] = "refresh"
      BY <1>12, <2>2 DEF Refresh
    <3>2. mem[Home[t]] \in MemType /\ Whole(mem[Home[t]], file)
      BY <3>1 DEF TypeOK, MemInv, Faithful, Whole, SizeInv, SizeOf, Apart, Critical
    <3>3. mem' = [mem EXCEPT ![Home[t]] = Refreshed(mem[Home[t]])]
      BY <1>12, <2>2 DEF Refresh
    <3>4. mem'[Home[t]].entries = file
      BY <3>1, <3>2, <3>3, RefreshReturnsFile DEF TypeOK
    <3>5. UNCHANGED <<file, draft>>
      BY <1>12, <2>2 DEF Refresh
    <3>6. pc'[t] = "build"
      BY <3>1, GotoThread
    <3>7. DraftOf(t)'
      BY <3>4, <3>5, <3>6 DEF DraftOf
    <3>8. \A q \in Proc \ {Home[t]} : mem'[q] = mem[q]
      BY <3>3 DEF TypeOK
    <3> QED
      BY <1>8, <3>1, <3>5, <3>7, <3>8
  <2> QED
    BY <2>1, <2>2
<1>13. ASSUME NEW t \in Recorder, Build(t) PROVE DraftInv'
  <2>1. Goto(t, "write") /\ pc[t] = "build" /\ pc'[t] = "write"
        /\ UNCHANGED <<file, mem>>
    BY <1>13, GotoThread DEF Build
  <2>2. /\ draft'[t] = NewEntry(Home[t])
        /\ \A u \in Recorder \ {t} : draft'[u] = draft[u]
    BY <1>13 DEF Build, TypeOK
  <2>3. Len(mem[Home[t]].entries) = Len(file)
    BY <2>1 DEF DraftInv, DraftOf
  <2>4. mem[Home[t]].entries = file /\ mem[Home[t]].last = HeadHash(file)
    BY <2>3, FullPrefix DEF MemInv, Faithful, TypeOK, MemType
  <2>5. DraftOf(t)'
    BY <2>1, <2>2, <2>3, <2>4 DEF DraftOf, NewEntry, HeadHash
  <2> QED
    BY <1>8, <2>1, <2>2, <2>5
<1>14. ASSUME NEW t \in Recorder, Write(t) PROVE DraftInv'
  <2>1. Goto(t, "commit") /\ pc[t] = "write" /\ pc'[t] = "commit"
        /\ file' = Append(file, draft[t])
        /\ UNCHANGED <<mem, draft>>
    BY <1>14, GotoThread DEF Write
  <2>2. Len(mem[Home[t]].entries) = Len(file)
    BY <2>1 DEF DraftInv, DraftOf
  <2>3. Len(file') = Len(file) + 1
    BY <2>1 DEF TypeOK
  <2>4. DraftOf(t)'
    BY <2>1, <2>2, <2>3 DEF DraftOf
  <2> QED
    BY <1>8, <2>1, <2>4 DEF Critical, Placed
<1>15. ASSUME NEW t \in Recorder, Commit(t) PROVE DraftInv'
  <2>1. Goto(t, "anchor") /\ pc[t] = "commit" /\ pc'[t] = "anchor"
        /\ mem' = [mem EXCEPT ![Home[t]] = Extended(mem[Home[t]], t)]
        /\ UNCHANGED <<file, draft>>
    BY <1>15, GotoThread DEF Commit
  <2>2. Len(mem[Home[t]].entries) + 1 = Len(file)
    BY <2>1 DEF DraftInv, DraftOf
  <2>3. mem'[Home[t]].entries = Append(mem[Home[t]].entries, draft[t])
    BY <2>1 DEF Extended, TypeOK
  <2>4. Len(mem'[Home[t]].entries) = Len(file)
    BY <2>2, <2>3 DEF TypeOK, MemType
  <2>5. DraftOf(t)'
    BY <2>1, <2>2, <2>4 DEF DraftOf
  <2>6. \A q \in Proc \ {Home[t]} : mem'[q] = mem[q]
    BY <2>1 DEF TypeOK
  <2> QED
    BY <1>8, <2>1, <2>5, <2>6 DEF Critical, Placed
<1>16. ASSUME NEW t \in Recorder, WriteAnchor(t) PROVE DraftInv'
  <2>1. DraftOf(t)'
    BY <1>16, GotoThread, DraftFrame DEF WriteAnchor, Release, Placed
  <2>2. \A u \in Recorder \ {t} : draft'[u] = draft[u]
    BY <1>16 DEF WriteAnchor, Release, TypeOK
  <2> QED
    BY <1>8, <1>16, <2>1, <2>2 DEF WriteAnchor, Release
<1>17. ASSUME NEW v \in Verifier \cup Inspector, NEW l, Goto(v, l),
              UNCHANGED <<file, draft>>,
              \A u \in Recorder : pc[u] \in Placed => mem'[Home[u]] = mem[Home[u]]
       PROVE  DraftInv'
  <2>1. \A u \in Recorder : pc'[u] = pc[u]
    BY <1>17, GotoThread DEF Thread
  <2> QED
    BY <1>17, <2>1, DraftFrame DEF DraftInv
<1>18. CASE UNCHANGED vars
  BY <1>18 DEF vars, DraftInv, DraftOf
<1>19. ASSUME NEW v \in Verifier, VerifyStep(v) PROVE DraftInv'
  <2>1. ASSUME \A u \in Recorder : pc[u] \in Placed =>
                 mem'[Home[u]].entries = mem[Home[u]].entries,
               UNCHANGED <<file, draft>>, \A u \in Recorder : pc'[u] = pc[u]
        PROVE  DraftInv'
    BY <2>1 DEF DraftInv, DraftOf, Placed
  <2>2. UNCHANGED <<file, draft>> /\ \A u \in Recorder : pc'[u] = pc[u]
    <3>1. \A l : Goto(v, l) => \A u \in Recorder : pc'[u] = pc[u]
      BY GotoThread DEF Thread
    <3> QED
      BY <1>19, <3>1 DEF VerifyStep, VerifyStat, VerifyRead, VerifyAssign, VerifyResize,
         VerifyAnchor, VerifyCheck, Report, quietV
  <2>3. CASE VerifyAssign(v)
    <3>1. v \in Replacing(Home[v])'
      BY <2>3, GotoThread DEF VerifyAssign, Replacing, Thread
    <3>2. \A u \in Recorder : pc[u] \in Placed => Home[u] # Home[v]
      BY <2>2, <3>1 DEF Apart, Critical
    <3> QED
      BY <2>1, <2>2, <2>3, <3>2 DEF VerifyAssign, TypeOK
  <2>4. CASE ~VerifyAssign(v)
    <3>1. \A p \in Proc : mem'[p].entries = mem[p].entries
      <4>1. CASE VerifyResize(v)
        BY <4>1 DEF VerifyResize, TypeOK, MemType
      <4>2. CASE mem' = mem
        BY <4>2
      <4> QED
        BY <1>19, <2>4, <4>1, <4>2 DEF VerifyStep, VerifyStat, VerifyRead,
           VerifyAnchor, VerifyCheck
    <3> QED
      BY <2>1, <2>2, <3>1
  <2> QED
    BY <2>3, <2>4
<1>20. ASSUME NEW v \in Inspector, InspectLoad(v) \/ InspectVerify(v)
       PROVE  DraftInv'
  BY <1>17, <1>20 DEF InspectLoad, InspectVerify, Report, quietV
<1> QED
  BY <1>2, <1>3, <1>4, <1>5, <1>6, <1>7, <1>9, <1>10, <1>11, <1>12, <1>13,
     <1>14, <1>15, <1>16, <1>18, <1>19, <1>20 DEF Next, Step, RecordStep

----------------------------------------------------------------------------
(* The disk: the receipts, the chain and the anchor.                       *)

LEMMA InitSync == Init => SyncInv
BY DEF Init, SyncInv, ReceiptsDurable

LEMMA SyncFrame ==
  ASSUME SyncInv, UNCHANGED <<file, synced, acked>> PROVE SyncInv'
BY DEF SyncInv, ReceiptsDurable

\* What grows behind the synced lines leaves them and the receipts alone.
LEMMA SyncGrows ==
  ASSUME TypeOK, SyncInv, NEW e \in Entry, file' = Append(file, e),
         UNCHANGED <<synced, acked>>
  PROVE  SyncInv'
<1>1. file \in Seq(Entry) /\ synced \in Nat /\ synced <= Len(file)
  BY DEF TypeOK, SyncInv
<1>2. /\ Len(file') = Len(file) + 1
      /\ \A i \in 1..Len(file) : file'[i] = file[i]
  BY <1>1
<1>3. {file'[i].hash : i \in 1..synced} = {file[i].hash : i \in 1..synced}
  BY <1>1, <1>2
<1> QED
  BY <1>1, <1>2, <1>3 DEF SyncInv, ReceiptsDurable

LEMMA SyncStep ==
  ASSUME TypeOK, EntryInv, SyncInv, [Next]_vars PROVE SyncInv'
<1> USE DEF disk, locks, procs, watch
<1>0. file \in Seq(Entry) /\ synced \in Nat /\ synced <= Len(file)
  BY DEF TypeOK, SyncInv
<1>1. ASSUME NEW p \in Proc, Load(p) \/ Check(p) \/ BootTimeout(p) \/ Crash(p)
      PROVE  SyncInv'
  BY <1>1, SyncFrame DEF Load, Check, BootTimeout, Crash
<1>2. CASE PowerLoss
  <2>1. PICK n \in synced..Len(file) : file' = SubSeq(file, 1, n) /\ synced' = n
    BY <1>2 DEF PowerLoss
  <2>2. /\ Len(file') = n /\ n \in 0..Len(file)
        /\ \A i \in 1..n : file'[i] = file[i]
    BY <1>0, <2>1
  <2>3. \A i \in 1..synced : i \in 1..n /\ file'[i].hash = file[i].hash
    BY <1>0, <2>1, <2>2
  <2>4. {file[i].hash : i \in 1..synced} \subseteq {file'[i].hash : i \in 1..n}
    BY <2>3
  <2>5. acked' = acked
    BY <1>2 DEF PowerLoss
  <2>6. ReceiptsDurable'
    BY <2>1, <2>4, <2>5 DEF SyncInv, ReceiptsDurable
  <2>7. synced' <= Len(file')
    BY <2>1, <2>2
  <2> QED
    BY <2>6, <2>7 DEF SyncInv
<1>3. CASE RotateKey
  BY <1>3, SyncFrame DEF RotateKey
<1>4. ASSUME NEW t \in Recorder,
             \/ Begin(t) \/ TakeFileLock(t) \/ LockTimeout(t)
             \/ Refresh(t) \/ Build(t) \/ BuildFails(t)
      PROVE  SyncInv'
  BY <1>4, SyncFrame
     DEF Begin, TakeFileLock, LockTimeout, Refresh, Build, BuildFails, Fail
<1>5. ASSUME NEW t \in Recorder PROVE draft[t] \in Entry
  BY DEF TypeOK
<1>6. ASSUME NEW t \in Recorder, Write(t) PROVE SyncInv'
  BY <1>5, <1>6, SyncGrows DEF Write
<1>7. ASSUME NEW t \in Recorder, WriteFails(t) PROVE SyncInv'
  <2>1. CASE file' = file
    BY <1>7, <2>1, SyncFrame DEF WriteFails, Fail
  <2>2. CASE file' = Append(file, draft[t])
    BY <1>5, <1>7, <2>2, SyncGrows DEF WriteFails, Fail
  <2> QED
    BY <1>7, <2>1, <2>2 DEF WriteFails
<1>8. ASSUME NEW t \in Recorder, Commit(t) PROVE SyncInv'
  <2>1. synced' = Len(file) /\ UNCHANGED <<file, acked>>
    BY <1>8 DEF Commit
  <2>2. {file[i].hash : i \in 1..synced} \subseteq {file'[i].hash : i \in 1..synced'}
    BY <1>0, <2>1
  <2> QED
    BY <1>0, <2>1, <2>2 DEF SyncInv, ReceiptsDurable
<1>9. ASSUME NEW t \in Recorder, WriteAnchor(t) PROVE SyncInv'
  <2>1. pc[t] = "anchor" /\ acked' = acked \cup {draft[t].hash}
        /\ UNCHANGED <<file, synced>>
    BY <1>9 DEF WriteAnchor
  <2>2. synced = Len(file) /\ file # <<>> /\ draft[t] = file[Len(file)]
    BY <2>1 DEF EntryInv, EntryOf
  <2>3. Len(file) \in 1..Len(file)
    BY <1>0, <2>2
  <2> QED
    BY <2>1, <2>2, <2>3 DEF SyncInv, ReceiptsDurable
<1>10. ASSUME NEW v \in Verifier, VerifyStep(v) PROVE SyncInv'
  BY <1>10, SyncFrame DEF VerifyStep, VerifyStat, VerifyRead, VerifyAssign, VerifyResize,
     VerifyAnchor, VerifyCheck, quietV
<1>11. ASSUME NEW v \in Inspector, InspectLoad(v) \/ InspectVerify(v)
       PROVE  SyncInv'
  BY <1>11, SyncFrame DEF InspectLoad, InspectVerify, quietV
<1>12. CASE UNCHANGED vars
  BY <1>12, SyncFrame DEF vars
<1> QED
  BY <1>1, <1>2, <1>3, <1>4, <1>6, <1>7, <1>8, <1>9, <1>10, <1>11, <1>12
     DEF Next, Step, RecordStep

LEMMA InitDisk == Init => DiskInv
BY DEF Init, DiskInv, Linked, AnchorCovered, NoAnchor

LEMMA DiskFrame ==
  ASSUME DiskInv, UNCHANGED <<file, synced, anchor, anchorOld>>
  PROVE  DiskInv'
BY DEF DiskInv, Linked, AnchorCovered

\* The file grows by an entry that points at its head.
LEMMA DiskGrows ==
  ASSUME TypeOK, SyncInv, DiskInv, NEW e \in Entry, e.prev = HeadHash(file),
         file' = Append(file, e), UNCHANGED <<synced, anchor, anchorOld>>
  PROVE  DiskInv'
<1>1. file \in Seq(Entry) /\ synced \in Nat /\ synced <= Len(file)
  BY DEF TypeOK, SyncInv
<1>2. /\ Len(file') = Len(file) + 1
      /\ \A i \in 1..Len(file) : file'[i] = file[i]
  BY <1>1
<1>3. Linked(file')
  BY <1>1, LinkedAppend DEF DiskInv
<1>4. \A a \in {anchor, anchorOld} : a.n \in Nat
  BY DEF TypeOK, Anchor
<1>5. AnchorCovered'
  BY <1>1, <1>2, <1>4 DEF DiskInv, AnchorCovered
<1> QED
  BY <1>3, <1>5 DEF DiskInv

LEMMA DiskStep ==
  ASSUME TypeOK, MemInv, EntryInv, DraftInv, SyncInv, DiskInv, [Next]_vars
  PROVE  DiskInv'
<1> USE DEF disk, locks, procs, watch
<1>0. /\ file \in Seq(Entry) /\ synced \in Nat /\ synced <= Len(file)
      /\ \A a \in {anchor, anchorOld} : a.n \in Nat
  BY DEF TypeOK, SyncInv, Anchor
<1>1. ASSUME NEW p \in Proc, Load(p) \/ Check(p) \/ BootTimeout(p) \/ Crash(p)
      PROVE  DiskInv'
  BY <1>1, DiskFrame DEF Load, Check, BootTimeout, Crash
<1>2. CASE PowerLoss
  <2>1. PICK n \in synced..Len(file) : file' = SubSeq(file, 1, n) /\ synced' = n
    BY <1>2 DEF PowerLoss
  <2>2. /\ Len(file') = n /\ n \in 0..Len(file)
        /\ \A i \in 1..n : file'[i] = file[i]
    BY <1>0, <2>1
  <2>3. anchor' \in {anchor, anchorOld} /\ anchorOld' = anchor'
    BY <1>2 DEF PowerLoss
  <2>4. Linked(file')
    BY <1>0, <2>1, <2>2, LinkedSubSeq DEF DiskInv
  <2>5. ASSUME NEW a \in {anchor, anchorOld}
        PROVE  a.n <= n /\ (a.n > 0 => file'[a.n].hash = a.h)
    <3>1. a.n <= synced /\ (a.n > 0 => file[a.n].hash = a.h) /\ a.n \in Nat
      BY <1>0 DEF DiskInv, AnchorCovered
    <3>2. synced <= n /\ n \in Nat
      BY <1>0
    <3> QED
      BY <1>0, <2>2, <3>1, <3>2
  <2>6. AnchorCovered'
    BY <2>1, <2>3, <2>5 DEF AnchorCovered
  <2> QED
    BY <2>4, <2>6 DEF DiskInv
<1>3. CASE RotateKey
  BY <1>3, DiskFrame DEF RotateKey
<1>4. ASSUME NEW t \in Recorder,
             \/ Begin(t) \/ TakeFileLock(t) \/ LockTimeout(t)
             \/ Build(t) \/ BuildFails(t)
      PROVE  DiskInv'
  BY <1>4, DiskFrame
     DEF Begin, TakeFileLock, LockTimeout, Build, BuildFails, Fail
<1>5. ASSUME NEW t \in Recorder, Refresh(t) PROVE DiskInv'
  BY <1>5, DiskFrame DEF Refresh, Fail
<1>6. ASSUME NEW t \in Recorder, pc[t] = "write"
      PROVE  draft[t] \in Entry /\ draft[t].prev = HeadHash(file)
  BY <1>6 DEF DraftInv, DraftOf, TypeOK
<1>7. ASSUME NEW t \in Recorder, Write(t) PROVE DiskInv'
  BY <1>6, <1>7, DiskGrows DEF Write
<1>8. ASSUME NEW t \in Recorder, WriteFails(t) PROVE DiskInv'
  <2>1. CASE file' = file
    BY <1>8, <2>1, DiskFrame DEF WriteFails, Fail
  <2>2. CASE file' = Append(file, draft[t])
    BY <1>6, <1>8, <2>2, DiskGrows DEF WriteFails, Fail
  <2> QED
    BY <1>8, <2>1, <2>2 DEF WriteFails
<1>9. ASSUME NEW t \in Recorder, Commit(t) PROVE DiskInv'
  <2>1. /\ synced' = Len(file)
        /\ UNCHANGED <<file, anchor, anchorOld>>
    BY <1>9 DEF Commit
  <2>2. AnchorCovered'
    BY <1>0, <2>1 DEF DiskInv, AnchorCovered
  <2> QED
    BY <2>1, <2>2 DEF DiskInv
<1>10. ASSUME NEW t \in Recorder, WriteAnchor(t) PROVE DiskInv'
  <2>1. pc[t] = "anchor" /\ UNCHANGED <<file, synced>>
    BY <1>10 DEF WriteAnchor
  <2>2. /\ synced = Len(file) /\ file # <<>> /\ draft[t] = file[Len(file)]
        /\ Len(mem[Home[t]].entries) = Len(file)
    BY <2>1 DEF EntryInv, EntryOf, DraftInv, DraftOf
  <2>3. mem[Home[t]].entries = file /\ mem[Home[t]].last = HeadHash(file)
    BY <2>2, Homes, FullPrefix DEF MemInv, Faithful, TypeOK, MemType
  <2>4. /\ NewAnchor(mem[Home[t]]).n = Len(file)
        /\ NewAnchor(mem[Home[t]]).h = file[Len(file)].hash
    BY <2>2, <2>3 DEF NewAnchor, HeadHash
  <2>5. /\ anchor' \in {anchor, NewAnchor(mem[Home[t]])}
        /\ anchorOld' \in {anchor, anchorOld}
    BY <1>10 DEF WriteAnchor
  <2>6. AnchorCovered'
    BY <1>0, <2>1, <2>2, <2>4, <2>5 DEF DiskInv, AnchorCovered
  <2> QED
    BY <2>1, <2>6 DEF DiskInv, Linked
<1>11. ASSUME NEW v \in Verifier, VerifyStep(v) PROVE DiskInv'
  BY <1>11, DiskFrame DEF VerifyStep, VerifyStat, VerifyRead, VerifyAssign, VerifyResize,
     VerifyAnchor, VerifyCheck, quietV
<1>12. ASSUME NEW v \in Inspector, InspectLoad(v) \/ InspectVerify(v)
       PROVE  DiskInv'
  BY <1>12, DiskFrame DEF InspectLoad, InspectVerify, quietV
<1>13. CASE UNCHANGED vars
  BY <1>13, DiskFrame DEF vars
<1> QED
  BY <1>1, <1>2, <1>3, <1>4, <1>5, <1>7, <1>8, <1>9, <1>10, <1>11, <1>12,
     <1>13 DEF Next, Step, RecordStep

----------------------------------------------------------------------------
(* The key generations.                                                    *)

LEMMA InitGen == Init => GenInv
BY DEF Init, GenInv, KnownGenerations, RisingGenerations

\* The file stays as it is and no process starts.
LEMMA GenFrame ==
  ASSUME GenInv, UNCHANGED <<file, cfgGen, gen>>,
         \A p \in Proc : boot'[p] \in {"loaded", "marking", "up"} =>
                           boot[p] \in {"loaded", "marking", "up"}
  PROVE  GenInv'
BY DEF GenInv, KnownGenerations, RisingGenerations

LEMMA GenStep ==
  ASSUME TypeOK, LockInv, EntryInv, GenInv, [Next]_vars PROVE GenInv'
<1> USE Homes DEF disk, locks, procs, watch
<1>1. ASSUME NEW p \in Proc, Load(p) PROVE GenInv'
  BY <1>1 DEF Load, GenInv, KnownGenerations, RisingGenerations, TypeOK
<1>2. ASSUME NEW p \in Proc, Check(p) \/ BootTimeout(p) \/ Crash(p)
      PROVE  GenInv'
  BY <1>2, GenFrame DEF Check, BootTimeout, Crash, TypeOK
<1>3. CASE PowerLoss
  <2>1. PICK n \in synced..Len(file) : file' = SubSeq(file, 1, n)
    BY <1>3 DEF PowerLoss
  <2>2. n \in 0..Len(file) /\ file \in Seq(Entry) /\ cfgGen \in Gen
    BY DEF TypeOK
  <2>3. RisingGenerations(file') /\ KnownGenerations(file', cfgGen)
    BY <2>1, <2>2, GenerationsSubSeq DEF GenInv
  <2> QED
    BY <1>3, <2>3 DEF PowerLoss, GenInv
<1>4. CASE RotateKey
  <2>1. file \in Seq(Entry) /\ cfgGen \in Nat /\ cfgGen' = cfgGen + 1 /\ file' = file
    BY <1>4, BoundAssumption DEF RotateKey, TypeOK, Gen
  <2>2. \A i \in DOMAIN file : file[i].gen \in Nat
    <3>1. \A i \in 1..Len(file) : file[i] \in Entry
      BY <2>1, ElementOfSeq
    <3> QED
      BY <2>1, <3>1, BoundAssumption DEF Entry, Gen
  <2>3. KnownGenerations(file', cfgGen')
    BY <2>1, <2>2 DEF GenInv, KnownGenerations
  <2>4. \A p \in Proc : boot'[p] \in {"down", "refused"}
    BY <1>4 DEF RotateKey
  <2> QED
    BY <2>1, <2>3, <2>4 DEF GenInv, RisingGenerations
<1>5. ASSUME NEW t \in Recorder, NEW m, Fail(t, m), UNCHANGED file
      PROVE  GenInv'
  BY <1>5, GenFrame DEF Fail, TypeOK
<1>6. ASSUME NEW t \in Recorder,
             \/ Begin(t) \/ TakeFileLock(t) \/ Build(t) \/ Commit(t)
      PROVE  GenInv'
  BY <1>6, GenFrame DEF Begin, TakeFileLock, Build, Commit
<1>7. ASSUME NEW t \in Recorder, LockTimeout(t) \/ BuildFails(t) PROVE GenInv'
  BY <1>5, <1>7 DEF LockTimeout, BuildFails
<1>8. ASSUME NEW t \in Recorder, Refresh(t) PROVE GenInv'
  <2>1. CASE Fail(t, Refreshed(mem[Home[t]]))
    BY <1>5, <1>8, <2>1 DEF Refresh
  <2>2. CASE ~Fail(t, Refreshed(mem[Home[t]]))
    BY <1>8, <2>2, GenFrame DEF Refresh
  <2> QED
    BY <2>1, <2>2
<1>9. ASSUME NEW t \in Recorder, pc[t] = "write", file' = Append(file, draft[t])
      PROVE  RisingGenerations(file') /\ KnownGenerations(file', cfgGen)
  <2>1. /\ draft[t] \in Entry /\ draft[t].gen = cfgGen
        /\ file \in Seq(Entry) /\ cfgGen \in Gen
    BY <1>9 DEF EntryInv, EntryOf, TypeOK
  <2> QED
    BY <1>9, <2>1, RisingAppend DEF GenInv
<1>10. ASSUME NEW t \in Recorder, Write(t) PROVE GenInv'
  BY <1>9, <1>10 DEF Write, GenInv
<1>11. ASSUME NEW t \in Recorder, WriteFails(t) PROVE GenInv'
  <2>1. CASE file' = file
    BY <1>5, <1>11, <2>1 DEF WriteFails
  <2>2. CASE file' = Append(file, draft[t])
    <3>1. RisingGenerations(file') /\ KnownGenerations(file', cfgGen)
      BY <1>9, <1>11, <2>2 DEF WriteFails
    <3>2. Fail(t, mem[Home[t]])
      BY <1>11 DEF WriteFails
    <3> QED
      BY <3>1, <3>2 DEF Fail, GenInv, TypeOK
  <2> QED
    BY <1>11, <2>1, <2>2 DEF WriteFails
<1>12. ASSUME NEW t \in Recorder, WriteAnchor(t) PROVE GenInv'
  <2>1. boot[Home[t]] \in {"marking", "up"}
    BY <1>12 DEF WriteAnchor, LockInv
  <2> QED
    BY <1>12, <2>1, GenFrame DEF WriteAnchor, TypeOK
<1>13. ASSUME NEW v \in Verifier, VerifyStep(v) PROVE GenInv'
  BY <1>13, GenFrame DEF VerifyStep, VerifyStat, VerifyRead, VerifyAssign, VerifyResize,
     VerifyAnchor, VerifyCheck, quietV
<1>14. ASSUME NEW v \in Inspector, InspectLoad(v) \/ InspectVerify(v)
       PROVE  GenInv'
  BY <1>14, GenFrame DEF InspectLoad, InspectVerify, quietV
<1>15. CASE UNCHANGED vars
  BY <1>15, GenFrame DEF vars
<1> QED
  BY <1>1, <1>2, <1>3, <1>4, <1>6, <1>7, <1>8, <1>10, <1>11, <1>12, <1>13,
     <1>14, <1>15 DEF Next, Step, RecordStep

----------------------------------------------------------------------------
(* The start of a process.                                                 *)

LEMMA InitStart == Init => HonestStart /\ MarkerInPlace
BY DEF Init, HonestStart, MarkerInPlace

\* A process that verifies its own file, readable, finds nothing wrong.
LEMMA SoundStart ==
  ASSUME TypeOK, CopyInv, MemInv, SyncInv, DiskInv, GenInv, Readable, NEW p \in Proc,
         boot[p] = "loaded"
  PROVE  /\ RefreshReturns(mem[p])
         /\ Refreshed(mem[p]).entries = file
         /\ Finding(file, anchor, gen[p]) = "ok"
<1>0. /\ mem[p] \in MemType /\ Faithful(mem[p], file) /\ Whole(mem[p], file)
      /\ file \in Seq(Entry)
  BY DEF TypeOK, MemInv, CopyInv
<1>1. /\ mem[p].size = Len(mem[p].entries) /\ mem[p].entries \in Seq(Entry)
      /\ mem[p].size <= Len(file) /\ mem[p].size \in Nat /\ Len(file) \in Nat
  BY <1>0 DEF Whole, IsPrefixOf, MemType
<1>2. FileSize = Len(file)
  BY <1>1 DEF FileSize, Readable
<1>3. KeepsHead(mem[p].last, file)
  BY <1>0, <1>1, PrefixKeepsHead DEF Faithful
<1>4. RefreshReturns(mem[p])
  BY <1>1, <1>2, <1>3 DEF RefreshReturns
<1>5. Refreshed(mem[p]).entries = file
  BY <1>0, <1>4, RefreshReturnsFile
<1>6. anchor.n \in Nat /\ synced \in Nat
  BY DEF TypeOK, Anchor
<1>7. Complete(file, anchor)
  BY <1>1, <1>6 DEF SyncInv, DiskInv, AnchorCovered, Complete
<1>8. Finding(file, anchor, gen[p]) = "ok"
  BY <1>7 DEF DiskInv, GenInv, Finding
<1> QED
  BY <1>4, <1>5, <1>8

LEMMA HonestStep ==
  ASSUME TypeOK, CopyInv, MemInv, SyncInv, DiskInv, GenInv, HonestStart, [Next]_vars
  PROVE  HonestStart'
<1> USE Homes DEF disk, locks, procs, watch
<1>1. ASSUME ~Readable => ~Readable',
             \A p \in Proc : boot'[p] = "refused" => boot[p] = "refused"
      PROVE  HonestStart'
  BY <1>1 DEF HonestStart
<1>2. ASSUME NEW p \in Proc, Load(p) PROVE HonestStart'
  BY <1>2 DEF Load, HonestStart, Readable, TypeOK
<1>3. ASSUME NEW p \in Proc, Check(p) PROVE HonestStart'
  <2>1. CASE ~Readable
    BY <1>3, <2>1 DEF Check, HonestStart, Readable
  <2>2. CASE Readable
    <3>1. boot'[p] # "refused"
      BY <1>3, <2>2, SoundStart DEF Check, Readable, TypeOK
    <3> QED
      BY <1>1, <1>3, <3>1 DEF Check, Readable, TypeOK
  <2> QED
    BY <2>1, <2>2
<1>4. ASSUME NEW p \in Proc, BootTimeout(p) \/ Crash(p) PROVE HonestStart'
  BY <1>1, <1>4 DEF BootTimeout, Crash, Readable, TypeOK
<1>5. CASE PowerLoss
  BY <1>5 DEF PowerLoss, HonestStart, Readable
<1>6. CASE RotateKey
  BY <1>1, <1>6 DEF RotateKey, Readable
<1>7. ASSUME NEW t \in Recorder, NEW m, Fail(t, m), ~Readable => ~Readable'
      PROVE  HonestStart'
  BY <1>1, <1>7 DEF Fail, TypeOK
<1>8. ASSUME NEW t \in Recorder,
             Begin(t) \/ TakeFileLock(t) \/ Build(t) \/ Write(t) \/ Commit(t)
      PROVE  HonestStart'
  BY <1>1, <1>8 DEF Begin, TakeFileLock, Build, Write, Commit, Readable, TypeOK
<1>9. ASSUME NEW t \in Recorder, LockTimeout(t) \/ BuildFails(t) \/ WriteFails(t)
      PROVE  HonestStart'
  <2>1. PICK m : Fail(t, m)
    BY <1>9 DEF LockTimeout, BuildFails, WriteFails
  <2>2. ~Readable => ~Readable'
    BY <1>9 DEF LockTimeout, BuildFails, WriteFails, Readable, TypeOK
  <2> QED
    BY <1>7, <2>1, <2>2
<1>10. ASSUME NEW t \in Recorder, Refresh(t) PROVE HonestStart'
  <2>1. CASE Fail(t, Refreshed(mem[Home[t]]))
    BY <1>7, <1>10, <2>1 DEF Refresh, Readable
  <2>2. CASE ~Fail(t, Refreshed(mem[Home[t]]))
    BY <1>1, <1>10, <2>2 DEF Refresh, Readable
  <2> QED
    BY <2>1, <2>2
<1>11. ASSUME NEW t \in Recorder, WriteAnchor(t) PROVE HonestStart'
  BY <1>1, <1>11 DEF WriteAnchor, Readable, TypeOK
<1>12. ASSUME NEW v \in Verifier, VerifyStep(v) PROVE HonestStart'
  BY <1>1, <1>12 DEF VerifyStep, VerifyStat, VerifyRead, VerifyAssign, VerifyResize,
     VerifyAnchor, VerifyCheck, quietV, Readable
<1>13. ASSUME NEW v \in Inspector, InspectLoad(v) \/ InspectVerify(v)
       PROVE  HonestStart'
  BY <1>1, <1>13 DEF InspectLoad, InspectVerify, quietV, Readable
<1>14. CASE UNCHANGED vars
  BY <1>1, <1>14 DEF vars, Readable
<1> QED
  BY <1>2, <1>3, <1>4, <1>5, <1>6, <1>8, <1>9, <1>10, <1>11, <1>12, <1>13,
     <1>14 DEF Next, Step, RecordStep

\* A file that ends in the current generation goes on doing so.
LEMMA MarkerKept ==
  ASSUME TypeOK, EntryInv, GenInv, MarkerInPlace, NEW t \in Recorder,
         pc[t] = "write", file' = Append(file, draft[t]), UNCHANGED <<gen, cfgGen>>,
         \A p \in Proc : boot'[p] = "up" => boot[p] = "up"
  PROVE  MarkerInPlace'
<1>1. draft[t].gen = cfgGen /\ file \in Seq(Entry) /\ draft[t] \in Entry
  BY DEF EntryInv, EntryOf, TypeOK
<1>2. file' # <<>> /\ file'[Len(file')] = draft[t]
  BY <1>1
<1>3. \A p \in Proc : boot'[p] = "up" => gen[p] = cfgGen
  BY DEF GenInv
<1> QED
  BY <1>1, <1>2, <1>3 DEF MarkerInPlace

LEMMA MarkerStep ==
  ASSUME TypeOK, LockInv, CopyInv, EntryInv, GenInv, MarkerInPlace, [Next]_vars
  PROVE  MarkerInPlace'
<1> USE Homes DEF disk, locks, procs, watch
<1>1. ASSUME UNCHANGED <<file, gen>>,
             \A p \in Proc : boot'[p] = "up" => boot[p] = "up"
      PROVE  MarkerInPlace'
  BY <1>1 DEF MarkerInPlace
<1>2. ASSUME NEW p \in Proc, Load(p) PROVE MarkerInPlace'
  BY <1>2 DEF Load, MarkerInPlace, TypeOK
<1>3. ASSUME NEW p \in Proc, Check(p) PROVE MarkerInPlace'
  <2> DEFINE m == IF mem[p].entries = <<>> THEN mem[p] ELSE Refreshed(mem[p])
  <2>1. \A q \in Proc \ {p} : boot'[q] = boot[q]
    BY <1>3 DEF Check, TypeOK
  <2>2. /\ UNCHANGED <<file, gen>> /\ boot[p] = "loaded"
        /\ boot'[p] = "up" => ~NeedsMarker(m.entries, gen[p])
    BY <1>3 DEF Check, TypeOK
  <2>3. /\ m \in MemType /\ IsPrefixOf(m.entries, file)
        /\ file \in Seq(Entry) /\ gen[p] \in Nat
    <3>1. /\ mem[p] \in MemType /\ IsPrefixOf(mem[p].entries, file)
          /\ file \in Seq(Entry)
      BY <2>2 DEF TypeOK, CopyInv, Whole
    <3>2. gen[p] \in Nat
      BY BoundAssumption DEF TypeOK, Gen
    <3> QED
      BY <3>1, <3>2, LoadedType, PrefixOfSelf DEF Refreshed, Loaded
  <2>4. ASSUME boot'[p] = "up", gen[p] > 0
        PROVE  file # <<>> /\ file[Len(file)].gen = gen[p]
    <3> DEFINE es == m.entries
    <3> HIDE DEF m
    <3>1. es # <<>> /\ es[Len(es)].gen = gen[p]
      BY <2>2, <2>3, <2>4 DEF NeedsMarker
    <3>2. es \in Seq(Entry) /\ Len(es) <= Len(file) /\ es[Len(es)] = file[Len(es)]
          /\ Len(es) \in 1..Len(file)
      BY <2>3, <3>1 DEF MemType, IsPrefixOf
    <3>3. file # <<>> /\ Len(file) \in 1..Len(file)
      BY <2>3, <3>2
    <3>4. file[Len(es)].gen <= file[Len(file)].gen
      BY <2>3, <3>2, <3>3 DEF GenInv, RisingGenerations
    <3>5. file[Len(file)].gen <= cfgGen /\ gen[p] = cfgGen
      BY <2>2, <3>3 DEF GenInv, KnownGenerations
    <3>6. file[Len(file)].gen \in Nat
      <4>1. file[Len(file)] \in Entry
        BY <2>3, <3>3, ElementOfSeq
      <4> QED
        BY <4>1, BoundAssumption DEF Entry, Gen
    <3> QED
      BY <2>3, <3>1, <3>2, <3>3, <3>4, <3>5, <3>6
  <2> QED
    BY <2>1, <2>2, <2>4 DEF MarkerInPlace
<1>4. ASSUME NEW p \in Proc, BootTimeout(p) \/ Crash(p) PROVE MarkerInPlace'
  BY <1>1, <1>4 DEF BootTimeout, Crash, TypeOK
<1>5. CASE PowerLoss
  BY <1>5 DEF PowerLoss, MarkerInPlace
<1>6. CASE RotateKey
  BY <1>1, <1>6 DEF RotateKey
<1>7. ASSUME NEW t \in Recorder, NEW m, Fail(t, m), UNCHANGED file
      PROVE  MarkerInPlace'
  BY <1>1, <1>7 DEF Fail, TypeOK
<1>8. ASSUME NEW t \in Recorder,
             Begin(t) \/ TakeFileLock(t) \/ Build(t) \/ Commit(t)
      PROVE  MarkerInPlace'
  BY <1>1, <1>8 DEF Begin, TakeFileLock, Build, Commit
<1>9. ASSUME NEW t \in Recorder, LockTimeout(t) \/ BuildFails(t)
      PROVE  MarkerInPlace'
  BY <1>7, <1>9 DEF LockTimeout, BuildFails
<1>10. ASSUME NEW t \in Recorder, Refresh(t) PROVE MarkerInPlace'
  <2>1. CASE Fail(t, Refreshed(mem[Home[t]]))
    BY <1>7, <1>10, <2>1 DEF Refresh
  <2>2. CASE ~Fail(t, Refreshed(mem[Home[t]]))
    BY <1>1, <1>10, <2>2 DEF Refresh
  <2> QED
    BY <2>1, <2>2
<1>11. ASSUME NEW t \in Recorder, Write(t) PROVE MarkerInPlace'
  BY <1>11, MarkerKept DEF Write
<1>12. ASSUME NEW t \in Recorder, WriteFails(t) PROVE MarkerInPlace'
  <2>1. Fail(t, mem[Home[t]]) /\ pc[t] = "write"
    BY <1>12 DEF WriteFails
  <2>2. CASE file' = file
    BY <1>7, <2>1, <2>2
  <2>3. CASE file' = Append(file, draft[t])
    <3>1. \A p \in Proc : boot'[p] = "up" => boot[p] = "up"
      BY <2>1 DEF Fail, TypeOK
    <3>2. UNCHANGED <<gen, cfgGen>>
      BY <2>1 DEF Fail
    <3> QED
      BY <2>1, <2>3, <3>1, <3>2, MarkerKept
  <2> QED
    BY <1>12, <2>2, <2>3 DEF WriteFails
<1>13. ASSUME NEW t \in Recorder, WriteAnchor(t) PROVE MarkerInPlace'
  <2>1. /\ pc[t] = "anchor" /\ UNCHANGED <<file, gen>>
        /\ \A q \in Proc \ {Home[t]} : boot'[q] = boot[q]
    BY <1>13 DEF WriteAnchor, TypeOK
  <2>2. file # <<>> /\ file[Len(file)].gen = gen[Home[t]]
    BY <2>1 DEF EntryInv, EntryOf, GenInv, LockInv
  <2> QED
    BY <2>1, <2>2 DEF MarkerInPlace
<1>14. ASSUME NEW v \in Verifier, VerifyStep(v) PROVE MarkerInPlace'
  BY <1>1, <1>14 DEF VerifyStep, VerifyStat, VerifyRead, VerifyAssign, VerifyResize,
     VerifyAnchor, VerifyCheck, quietV
<1>15. ASSUME NEW v \in Inspector, InspectLoad(v) \/ InspectVerify(v)
       PROVE  MarkerInPlace'
  BY <1>1, <1>15 DEF InspectLoad, InspectVerify, quietV
<1>16. CASE UNCHANGED vars
  BY <1>1, <1>16 DEF vars
<1> QED
  BY <1>2, <1>3, <1>4, <1>5, <1>6, <1>8, <1>9, <1>10, <1>11, <1>12, <1>13,
     <1>14, <1>15, <1>16 DEF Next, Step, RecordStep

----------------------------------------------------------------------------
(* The hashes.                                                             *)

\* Every hash handed out is new: no entry of the file has the hash of another
\* that is about to be written.
LEMMA InitFresh == Init => FreshInv
<1> SUFFICES ASSUME Init PROVE FreshInv
  OBVIOUS
<1>1. \A i \in DOMAIN file : FALSE
  BY DEF Init
<1>2. \A t \in Recorder : pc[t] # "write"
  BY Homes DEF Init
<1> QED
  BY <1>1, <1>2 DEF FreshInv

LEMMA FreshFrame ==
  ASSUME FreshInv, UNCHANGED <<file, minted>>,
         \A t \in Recorder : pc'[t] = "write" => pc[t] = "write" /\ draft'[t] = draft[t]
  PROVE  FreshInv'
BY DEF FreshInv, Hashes

\* A recorder leaves the place where it writes when its entry is in the file.
LEMMA FreshAppend ==
  ASSUME TypeOK, LockInv, FreshInv, NEW t \in Recorder, pc[t] = "write",
         file' = Append(file, draft[t]), minted' = minted,
         pc' = [pc EXCEPT ![t] = pc'[t]], pc'[t] # "write"
  PROVE  FreshInv'
<1>1. file \in Seq(Entry) /\ draft[t] \in Entry /\ file' \in Seq(Entry)
  BY DEF TypeOK
<1>2. ASSUME NEW s \in Recorder PROVE pc'[s] # "write"
  <2>1. CASE s = t
    BY <2>1
  <2>2. CASE s # t
    <3>1. pc[s] # "write"
      BY <2>2 DEF LockInv, Critical, Placed
    <3>2. pc'[s] = pc[s]
      BY <2>2, Homes DEF TypeOK
    <3> QED
      BY <3>1, <3>2
  <2> QED
    BY <2>1, <2>2
<1>3. ASSUME NEW i \in DOMAIN file' PROVE file'[i].hash \in 1..minted'
  <2>1. CASE i \in DOMAIN file
    BY <1>1, <2>1 DEF FreshInv
  <2>2. CASE i \notin DOMAIN file
    BY <1>1, <2>2 DEF FreshInv
  <2> QED
    BY <2>1, <2>2
<1> QED
  BY <1>2, <1>3 DEF FreshInv

LEMMA FreshStep ==
  ASSUME TypeOK, LockInv, FreshInv, [Next]_vars
  PROVE  FreshInv'
<1> USE Homes DEF disk, locks, procs, watch
<1>1. ASSUME NEW p \in Proc, Load(p) \/ Check(p) \/ BootTimeout(p) PROVE FreshInv'
  BY <1>1, FreshFrame DEF Load, Check, BootTimeout
<1>2. ASSUME NEW p \in Proc, Crash(p) PROVE FreshInv'
  <2>1. \A t \in Recorder : pc'[t] = "write" => pc[t] = "write" /\ draft'[t] = draft[t]
    BY <1>2 DEF Crash, Stopped
  <2> QED
    BY <1>2, <2>1, FreshFrame DEF Crash
<1>3. CASE PowerLoss
  <2>1. PICK n \in synced..Len(file) : file' = SubSeq(file, 1, n)
    BY <1>3 DEF PowerLoss
  <2>2. minted' = minted /\ \A t \in Recorder : pc'[t] = "idle"
    BY <1>3 DEF PowerLoss, Stopped, Thread
  <2>3. ASSUME NEW i \in DOMAIN file' PROVE i \in DOMAIN file /\ file'[i] = file[i]
    BY <2>1, <2>3 DEF TypeOK
  <2> QED
    BY <2>2, <2>3 DEF FreshInv
<1>4. CASE RotateKey
  BY <1>4, FreshFrame DEF RotateKey
<1>5. ASSUME NEW t \in Recorder, NEW m, Fail(t, m)
      PROVE  /\ pc' = [pc EXCEPT ![t] = "idle"]
             /\ \A s \in Recorder : pc'[s] = "write" => pc[s] = "write" /\ draft'[s] = draft[s]
  BY <1>5 DEF Fail, Release, Goto, TypeOK
<1>6. ASSUME NEW t \in Recorder, Begin(t) \/ TakeFileLock(t) \/ Commit(t)
      PROVE  FreshInv'
  BY <1>6, FreshFrame DEF Begin, TakeFileLock, Commit, Goto, TypeOK
<1>7. ASSUME NEW t \in Recorder, LockTimeout(t) \/ BuildFails(t) PROVE FreshInv'
  BY <1>5, <1>7, FreshFrame DEF LockTimeout, BuildFails
<1>8. ASSUME NEW t \in Recorder, Refresh(t) PROVE FreshInv'
  <2>1. CASE Fail(t, Refreshed(mem[Home[t]]))
    BY <1>5, <1>8, <2>1, FreshFrame DEF Refresh
  <2>2. CASE ~Fail(t, Refreshed(mem[Home[t]]))
    BY <1>8, <2>2, FreshFrame DEF Refresh, Goto, TypeOK
  <2> QED
    BY <2>1, <2>2
<1>9. ASSUME NEW t \in Recorder, Build(t) PROVE FreshInv'
  <2>1. /\ pc[t] = "build" /\ minted' = minted + 1 /\ file' = file
        /\ draft' = [draft EXCEPT ![t] = NewEntry(Home[t])]
        /\ pc' = [pc EXCEPT ![t] = "write"]
    BY <1>9 DEF Build, Goto
  <2>2. minted \in Nat
    BY BoundAssumption DEF TypeOK, Hash
  <2>3. \A i \in DOMAIN file : file[i].hash \in 1..minted' /\ file[i].hash # minted + 1
    BY <2>1, <2>2 DEF FreshInv
  <2>4. ASSUME NEW s \in Recorder, pc'[s] = "write"
        PROVE  draft'[s].hash \in 1..minted' /\ draft'[s].hash \notin Hashes(file')
    <3>1. s = t
      BY <2>1, <2>4 DEF LockInv, Critical, Placed, TypeOK
    <3>2. draft'[s].hash = minted + 1
      BY <2>1, <3>1 DEF NewEntry, TypeOK
    <3> QED
      BY <2>1, <2>2, <2>3, <3>2 DEF Hashes
  <2> QED
    BY <2>1, <2>3, <2>4 DEF FreshInv
<1>10. ASSUME NEW t \in Recorder, Write(t) PROVE FreshInv'
  <2>1. /\ pc[t] = "write" /\ file' = Append(file, draft[t]) /\ minted' = minted
        /\ pc' = [pc EXCEPT ![t] = "commit"]
    BY <1>10 DEF Write, Goto
  <2>2. pc'[t] = "commit"
    BY <2>1 DEF TypeOK
  <2> QED
    BY <2>1, <2>2, FreshAppend
<1>11. ASSUME NEW t \in Recorder, WriteFails(t) PROVE FreshInv'
  <2>1. Fail(t, mem[Home[t]]) /\ pc[t] = "write" /\ minted' = minted
    BY <1>11 DEF WriteFails
  <2>2. CASE file' = file
    BY <1>5, <2>1, <2>2, FreshFrame
  <2>3. CASE file' = Append(file, draft[t])
    <3>1. pc' = [pc EXCEPT ![t] = "idle"]
      BY <1>5, <2>1
    <3>2. pc'[t] = "idle"
      BY <3>1 DEF TypeOK
    <3> QED
      BY <2>1, <2>3, <3>1, <3>2, FreshAppend
  <2> QED
    BY <1>11, <2>2, <2>3 DEF WriteFails
<1>12. ASSUME NEW t \in Recorder, WriteAnchor(t) PROVE FreshInv'
  BY <1>12, FreshFrame DEF WriteAnchor, Release, Goto, TypeOK
<1>13. ASSUME NEW v \in Verifier, VerifyStep(v) PROVE FreshInv'
  BY <1>13, FreshFrame DEF VerifyStep, VerifyStat, VerifyRead, VerifyAssign, VerifyResize,
     VerifyAnchor, VerifyCheck, quietV, Report, Goto, TypeOK
<1>14. ASSUME NEW v \in Inspector, InspectLoad(v) \/ InspectVerify(v)
       PROVE  FreshInv'
  BY <1>14, FreshFrame DEF InspectLoad, InspectVerify, quietV, Report, Goto, TypeOK
<1>15. CASE UNCHANGED vars
  BY <1>15, FreshFrame DEF vars
<1> QED
  BY <1>1, <1>2, <1>3, <1>4, <1>6, <1>7, <1>8, <1>9, <1>10, <1>11, <1>12, <1>13,
     <1>14, <1>15 DEF Next, Step, RecordStep

----------------------------------------------------------------------------
(* What holds in every behaviour.                                          *)

LEMMA InitGround == Init => GroundInv
BY InitType, InitLock, InitCopy, InitEntry, InitSync, InitGen, InitStart, InitFresh
   DEF GroundInv

LEMMA GroundStep == GroundInv /\ [Next]_vars => GroundInv'
BY NextType, LockStep, CopyStep, EntryStep, SyncStep, GenStep, MarkerStep, FreshStep
   DEF GroundInv

\* What the thread lock and the file lock give holds in every behaviour, also
\* where verify() replaces a log in memory in the middle of a record: nobody
\* writes to the file beside the holder of the locks.
THEOREM Ground == Spec => []GroundInv
<1>1. Init => GroundInv
  BY InitGround
<1>2. GroundInv /\ [Next]_vars => GroundInv'
  BY GroundStep
<1> QED
  BY <1>1, <1>2, PTL DEF Spec

\* ... so what record() has returned survives every power failure.
THEOREM ReceiptsSafe == Spec => []ReceiptsDurable
<1>1. GroundInv => ReceiptsDurable
  BY DEF GroundInv, SyncInv
<1> QED
  BY <1>1, Ground, PTL

\* ... key generations never go back along the file.
THEOREM RotationSafe == Spec => []GenerationsRise
<1>1. GroundInv => GenerationsRise
  BY DEF GroundInv, GenInv, GenerationsRise
<1> QED
  BY <1>1, Ground, PTL

\* ... a process with a rotated key serves requests only behind its marker.
THEOREM MarkerSafe == Spec => []MarkerInPlace
<1>1. GroundInv => MarkerInPlace
  BY DEF GroundInv
<1> QED
  BY <1>1, Ground, PTL

----------------------------------------------------------------------------
(* The log implements AuditTrail.                                          *)

\* What the log shows of itself changes only with the file and the receipts.
LEMMA TrailFrame ==
  ASSUME UNCHANGED <<file, acked>> PROVE [Trail!Next]_(Trail!trailVars)
BY DEF Trail!trailVars

LEMMA TrailAppend ==
  ASSUME TypeOK, FreshInv, NEW t \in Recorder, pc[t] = "write",
         file' = Append(file, draft[t]), acked' = acked
  PROVE  Trail!Next
<1> DEFINE tr == [i \in 1..Len(file) |-> file[i].hash]
<1>1. file \in Seq(Entry) /\ draft[t] \in Entry /\ minted \in 0..MaxEntries
  BY DEF TypeOK, Hash
<1>2. draft[t].hash \in 1..MaxEntries
  BY <1>1, BoundAssumption DEF FreshInv
<1>3. draft[t].hash \notin Trail!Recorded
  BY <1>1 DEF FreshInv, Hashes, Trail!Recorded
<1>4. tr' = Append(tr, draft[t].hash)
  <2>1. Len(tr) = Len(file) /\ Len(file) \in Nat /\ Len(file') = Len(file) + 1
    BY <1>1
  <2>2. tr' = [i \in 1..Len(file) + 1 |-> IF i <= Len(file) THEN file[i].hash ELSE draft[t].hash]
    BY <1>1, <2>1
  <2>3. Append(tr, draft[t].hash) =
          [i \in 1..Len(file) + 1 |-> IF i <= Len(file) THEN file[i].hash ELSE draft[t].hash]
    BY <2>1
  <2> QED
    BY <2>2, <2>3
<1>5. PICK e \in 1..MaxEntries : e = draft[t].hash
  BY <1>2
<1>6. Trail!Record(e)
  BY <1>3, <1>4, <1>5 DEF Trail!Record
<1> QED
  BY <1>6 DEF Trail!Next

LEMMA TrailStep ==
  ASSUME GroundInv, [Next]_vars
  PROVE  [Trail!Next]_(Trail!trailVars)
<1> USE Homes DEF disk, locks, procs, watch, GroundInv
<1>1. ASSUME NEW p \in Proc, Load(p) \/ Check(p) \/ BootTimeout(p) \/ Crash(p)
      PROVE  UNCHANGED <<file, acked>>
  BY <1>1 DEF Load, Check, BootTimeout, Crash
<1>2. CASE PowerLoss
  <2>1. PICK n \in synced..Len(file) : file' = SubSeq(file, 1, n)
    BY <1>2 DEF PowerLoss
  <2>2. /\ file \in Seq(Entry) /\ synced \in Nat /\ n \in 0..Len(file) /\ acked' = acked
        /\ acked \subseteq {file[i].hash : i \in 1..synced}
    BY <1>2, <2>1 DEF PowerLoss, TypeOK, SyncInv, ReceiptsDurable
  <2> DEFINE tr == [i \in 1..Len(file) |-> file[i].hash]
  <2>3. Len(tr) = Len(file) /\ Len(file') = n
    BY <2>1, <2>2
  <2>4. tr' = SubSeq(tr, 1, n)
    BY <2>1, <2>2, <2>3
  <2>5. acked \subseteq {tr[i] : i \in 1..n}
    BY <2>1, <2>2
  <2>6. Trail!LosePower
    BY <2>2, <2>3, <2>4, <2>5 DEF Trail!LosePower
  <2> QED
    BY <2>6 DEF Trail!Next
<1>3. ASSUME NEW t \in Recorder, NEW m, Fail(t, m) PROVE acked' = acked
  BY <1>3 DEF Fail
<1>4. ASSUME NEW t \in Recorder,
             \/ Begin(t) \/ TakeFileLock(t) \/ LockTimeout(t) \/ Refresh(t) \/ Build(t)
             \/ BuildFails(t) \/ Commit(t)
      PROVE  UNCHANGED <<file, acked>>
  BY <1>3, <1>4 DEF Begin, TakeFileLock, LockTimeout, Refresh, Build, BuildFails, Commit
<1>5. ASSUME NEW t \in Recorder, Write(t) PROVE Trail!Next
  BY <1>5, TrailAppend DEF Write
<1>6. ASSUME NEW t \in Recorder, WriteFails(t) PROVE [Trail!Next]_(Trail!trailVars)
  <2>1. acked' = acked /\ pc[t] = "write"
    BY <1>3, <1>6 DEF WriteFails
  <2>2. file' = file \/ file' = Append(file, draft[t])
    BY <1>6 DEF WriteFails
  <2> QED
    BY <2>1, <2>2, TrailFrame, TrailAppend
<1>7. ASSUME NEW t \in Recorder, WriteAnchor(t) PROVE Trail!Next
  <2>1. pc[t] = "anchor" /\ file' = file /\ acked' = acked \cup {draft[t].hash}
    BY <1>7 DEF WriteAnchor
  <2>2. file \in Seq(Entry) /\ file # <<>> /\ draft[t] = file[Len(file)]
    BY <2>1 DEF EntryInv, EntryOf, TypeOK
  <2>3. draft[t].hash \in Trail!Recorded
    BY <2>2 DEF Trail!Recorded
  <2>4. draft[t].hash \in 1..MaxEntries
    <3>1. Len(file) \in DOMAIN file
      BY <2>2
    <3>2. draft[t].hash \in 1..minted
      BY <2>2, <3>1 DEF FreshInv
    <3> QED
      BY <3>2, BoundAssumption DEF TypeOK, Hash
  <2>5. PICK e \in 1..MaxEntries : e = draft[t].hash
    BY <2>4
  <2>6. Trail!Acknowledge(e)
    BY <2>1, <2>3, <2>5 DEF Trail!Acknowledge
  <2> QED
    BY <2>6 DEF Trail!Next
<1>8. ASSUME \/ RotateKey
             \/ \E v \in Verifier : VerifyStep(v)
             \/ \E v \in Inspector : InspectLoad(v) \/ InspectVerify(v)
             \/ UNCHANGED vars
      PROVE  UNCHANGED <<file, acked>>
  BY <1>8 DEF RotateKey, VerifyStep, VerifyStat, VerifyRead, VerifyAssign, VerifyResize, VerifyAnchor,
     VerifyCheck, InspectLoad, InspectVerify, quietV, vars
<1> QED
  BY <1>1, <1>2, <1>4, <1>5, <1>6, <1>7, <1>8, TrailFrame DEF Next, Step, RecordStep

\* Every behaviour of the log is one of AuditTrail, whoever verifies it and when:
\* it only grows, but for what a power failure takes from its end, and that is
\* nothing that record() had returned.
THEOREM TrailImplemented == Spec => ImplementsTrail
<1>1. Init => Trail!Init
  <2> SUFFICES ASSUME Init PROVE Trail!Init
    OBVIOUS
  <2>1. file = <<>> /\ acked = {}
    BY DEF Init
  <2>2. [i \in 1..Len(file) |-> file[i].hash] = <<>>
    BY <2>1
  <2> QED
    BY <2>1, <2>2 DEF Trail!Init
<1>2. GroundInv /\ [Next]_vars => [Trail!Next]_(Trail!trailVars)
  BY TrailStep
<1> QED
  BY <1>1, <1>2, Ground, PTL DEF Spec, ImplementsTrail, Trail!Spec

----------------------------------------------------------------------------
(* The theorems that need verifications apart from records.                *)

\* A verification replaces no log of a process that is recording: so it is where
\* no process both records and verifies, whatever the processes do.
LEMMA ApartProcesses == ASSUME RecordersDoNotVerify PROVE Spec => []Apart
<1>1. Apart
  BY DEF Apart, Replacing, RecordersDoNotVerify
<1> QED
  BY <1>1, PTL

\* While no verification replaces the log of a process that is recording, or that
\* another one is replacing, everything the recorders rely on holds at all times.
THEOREM Safety == Spec /\ []Apart => []Inv
<1>1. Init => Inv
  BY InitGround, InitMem, InitSize, InitDraft, InitDisk, InitStart DEF Inv
<1>2. Inv /\ Apart /\ Apart' /\ [Next]_vars => Inv'
  <2> SUFFICES ASSUME Inv, Apart, Apart', [Next]_vars PROVE Inv'
    OBVIOUS
  <2>1. SizeInv'
    BY SizeStep DEF Inv, GroundInv, CopyInv, EntryInv, EntryOf, DraftInv, DraftOf, Placed
  <2> QED
    BY <2>1, GroundStep, MemStep, DraftStep, DiskStep, HonestStep DEF Inv, GroundInv
<1> QED
  BY <1>1, <1>2, PTL DEF Spec

\* ... so the chain in the file is never broken by any interleaving of records,
\* crashes and power failures: two processes never fork it.
THEOREM ChainSafe == Spec /\ []Apart => []ChainUnbroken
<1>1. Inv => ChainUnbroken
  BY DEF Inv, DiskInv, ChainUnbroken
<1> QED
  BY <1>1, Safety, PTL

\* ... the anchor names an entry that the next power failure spares.
THEOREM AnchorSafe == Spec /\ []Apart => []AnchorCovered
<1>1. Inv => AnchorCovered
  BY DEF Inv, DiskInv
<1> QED
  BY <1>1, Safety, PTL

\* ... no start is refused over an honest log that can be read.
THEOREM StartSafe == Spec /\ []Apart => []HonestStart
<1>1. Inv => HonestStart
  BY DEF Inv
<1> QED
  BY <1>1, Safety, PTL

\* ... the log in the memory of a process is a prefix of the file.
THEOREM MemorySafe == Spec /\ []Apart => []MemoryIsPrefix
<1>1. Inv => MemoryIsPrefix
  <2> SUFFICES ASSUME Inv, NEW p \in Proc
               PROVE  /\ Len(mem[p].entries) <= Len(file)
                      /\ mem[p].entries = SubSeq(file, 1, Len(mem[p].entries))
                      /\ mem[p].last = HeadHash(mem[p].entries)
    BY DEF MemoryIsPrefix
  <2>1. /\ mem[p].entries \in Seq(Entry) /\ file \in Seq(Entry)
        /\ IsPrefixOf(mem[p].entries, file)
        /\ mem[p].last = HeadHash(mem[p].entries)
    BY DEF Inv, GroundInv, TypeOK, MemType, MemInv, Faithful
  <2> QED
    BY <2>1, PrefixIsSubSeq DEF IsPrefixOf
<1> QED
  BY <1>1, Safety, PTL

----------------------------------------------------------------------------
(* The log when its file is changed from outside.                          *)

LEMMA HomesOfWriters ==
  /\ \A t \in Recorder : Home[t] \in Writers
  /\ \A p \in Writers : p \in Proc
  /\ \A v \in Verifier : Home[v] \in Proc /\ v \in Thread /\ v \notin Recorder
  /\ \A p \in Writers : \E t \in Recorder : Home[t] = p
BY Homes, ThreadAssumption DEF Writers, Thread

\* What a step of the program does to the receipts of a process.
LEMMA OwnStep ==
  ASSUME TypeOK, DStep, NEW p \in Proc
  PROVE  /\ own'[p] \subseteq own[p] \cup
              {draft[t].hash : t \in {r \in Recorder : Home[r] = p /\ pc[r] = "anchor"}}
         /\ boot'[p] \in {"down", "refused"} => own'[p] = {}
BY DEF DStep

\* ... none but what the memory of the process holds.
LEMMA OwnBound ==
  ASSUME TypeOK, KeptInv, WriterInv, DStep, NEW p \in Writers
  PROVE  own'[p] \subseteq Hashes(mem[p].entries)
<1>1. p \in Proc
  BY HomesOfWriters
<1>2. own[p] \subseteq Hashes(mem[p].entries)
  BY DEF KeptInv, KeptOf
<1>3. \A t \in Recorder :
        Home[t] = p /\ pc[t] = "anchor" => draft[t].hash \in Hashes(mem[p].entries)
  BY DEF WriterInv, WriterOf
<1> QED
  BY <1>1, <1>2, <1>3, OwnStep

LEMMA ProcessInit == DInit => ProcessInv
BY ThreadAssumption DEF DInit, Init, ProcessInv, Thread

LEMMA HashesGrow ==
  ASSUME NEW s \in Seq(Entry), NEW f \in Seq(Entry), IsPrefixOf(s, f)
  PROVE  Hashes(s) \subseteq Hashes(f)
BY DEF IsPrefixOf, Hashes

LEMMA PrefixTransitive ==
  ASSUME NEW r \in Seq(Entry), NEW s \in Seq(Entry), NEW f \in Seq(Entry),
         IsPrefixOf(r, s), IsPrefixOf(s, f)
  PROVE  IsPrefixOf(r, f)
BY DEF IsPrefixOf

LEMMA PrefixesCompare ==
  ASSUME NEW r \in Seq(Entry), NEW s \in Seq(Entry), NEW f \in Seq(Entry),
         IsPrefixOf(r, f), IsPrefixOf(s, f)
  PROVE  IsPrefixOf(r, s) \/ IsPrefixOf(s, r)
BY DEF IsPrefixOf

\* The program only adds to the file.
LEMMA FileGrows ==
  ASSUME TypeOK, Step PROVE IsPrefixOf(file, file')
<1> USE DEF disk, locks, procs, watch, quietV
<1>1. IsPrefixOf(file, file)
  BY PrefixOfSelf DEF TypeOK
<1>2. ASSUME NEW t \in Recorder, file' = Append(file, draft[t]) PROVE IsPrefixOf(file, file')
  BY <1>1, <1>2, PrefixOfAppend DEF TypeOK
<1>3. ASSUME NEW p \in Proc, Load(p) \/ Check(p) \/ BootTimeout(p) \/ Crash(p)
      PROVE  file' = file
  BY <1>3 DEF Load, Check, BootTimeout, Crash
<1>4. ASSUME NEW t \in Recorder, Begin(t) \/ RecordStep(t)
      PROVE  file' \in {file, Append(file, draft[t])}
  BY <1>4 DEF Begin, RecordStep, TakeFileLock, LockTimeout, Refresh, Build, BuildFails,
     Write, WriteFails, Commit, WriteAnchor
<1>5. ASSUME NEW v \in Verifier, VerifyStep(v) PROVE file' = file
  BY <1>5 DEF VerifyStep, VerifyStat, VerifyRead, VerifyAssign, VerifyResize,
     VerifyAnchor, VerifyCheck
<1>6. ASSUME NEW v \in Inspector, InspectLoad(v) \/ InspectVerify(v) PROVE file' = file
  BY <1>6 DEF InspectLoad, InspectVerify
<1> QED
  BY <1>1, <1>2, <1>3, <1>4, <1>5, <1>6 DEF Step, RotateKey

\* A refresh never takes from a writer what it knows.
LEMMA RefreshGrows ==
  ASSUME TypeOK, NEW p \in Writers, KeptOf(p), mem[p].size = Len(mem[p].entries)
  PROVE  /\ IsPrefixOf(mem[p].entries, Refreshed(mem[p]).entries)
         /\ Refreshed(mem[p]) \in {mem[p], Loaded(file)}
<1>1. mem[p].entries \in Seq(Entry) /\ file \in Seq(Entry)
  BY HomesOfWriters DEF TypeOK, MemType
<1>2. CASE FileSize > mem[p].size /\ Readable
  <2>1. Len(file) > Len(mem[p].entries)
    BY <1>1, <1>2 DEF FileSize, Readable
  <2>2. IsPrefixOf(mem[p].entries, file)
    BY <1>1, <2>1 DEF KeptOf, OneHistory, IsPrefixOf
  <2> QED
    BY <1>2, <2>2 DEF Refreshed, Loaded
<1>3. CASE ~(FileSize > mem[p].size /\ Readable)
  BY <1>1, <1>3, PrefixOfSelf DEF Refreshed
<1> QED
  BY <1>2, <1>3

\* ... and one that returns leaves it with the file.
LEMMA RefreshKnows ==
  ASSUME TypeOK, NEW p \in Writers, KeptOf(p), mem[p].size = Len(mem[p].entries),
         RefreshReturns(mem[p])
  PROVE  ~torn /\ Refreshed(mem[p]).entries = file
<1>1. mem[p].entries \in Seq(Entry) /\ file \in Seq(Entry) /\ torn \in BOOLEAN
  BY HomesOfWriters DEF TypeOK, MemType
<1>2. CASE FileSize > mem[p].size /\ Readable
  BY <1>2 DEF Refreshed, Loaded, Readable
<1>3. CASE FileSize = mem[p].size
  <2>1. ~torn
    BY <1>1, <1>3 DEF FileSize, KeptOf, OneHistory, IsPrefixOf
  <2>2. Len(file) = Len(mem[p].entries)
    BY <1>1, <1>3, <2>1 DEF FileSize
  <2>3. mem[p].entries = file
    BY <1>1, <2>2, FullPrefix DEF KeptOf, OneHistory
  <2>4. ~(FileSize > mem[p].size)
    BY <1>1, <1>3, <2>1 DEF FileSize
  <2> QED
    BY <2>1, <2>3, <2>4 DEF Refreshed
<1> QED
  BY <1>2, <1>3 DEF RefreshReturns

\* A process whose log nobody replaces knows its size.
LEMMA KnowsSize ==
  ASSUME SizeInv, NEW p \in Writers, Replacing(p) = {}
  PROVE  mem[p].size = Len(mem[p].entries)
BY HomesOfWriters DEF SizeInv, SizeOf

----------------------------------------------------------------------------
(* The memory of the writers.                                              *)

LEMMA KeptInit == DInit => KeptInv
<1> SUFFICES ASSUME DInit, NEW p \in Writers PROVE KeptOf(p)
  BY DEF KeptInv
<1>1. mem[p] = EmptyLog /\ own[p] = {} /\ file = <<>> /\ <<>> \in Seq(Entry)
  BY HomesOfWriters DEF DInit, Init
<1>2. IsPrefixOf(<<>>, file)
  BY <1>1, EmptyPrefix
<1>3. mem[p].entries = <<>> /\ mem[p].last = HeadHash(<<>>)
  BY <1>1 DEF EmptyLog, HeadHash
<1> QED
  BY <1>1, <1>2, <1>3 DEF KeptOf, OneHistory

\* A writer that keeps its log stays on the history of the file ...
LEMMA KeptSame ==
  ASSUME TypeOK, TypeOK', KeptInv, WriterInv, DStep, ~Refilled, NEW p \in Writers,
         mem'[p].entries = mem[p].entries, mem'[p].last = mem[p].last
  PROVE  KeptOf(p)'
<1>1. KeptOf(p) /\ own'[p] \subseteq Hashes(mem'[p].entries)
  BY OwnBound DEF KeptInv
<1>2. /\ mem[p].entries \in Seq(Entry) /\ file \in Seq(Entry) /\ file' \in Seq(Entry)
      /\ IsPrefixOf(file, file')
  BY HomesOfWriters, FileGrows DEF TypeOK, MemType, DStep
<1>3. CASE UNCHANGED <<file, torn>>
  BY <1>1, <1>3 DEF KeptOf, OneHistory
<1>4. CASE IsPrefixOf(mem[p].entries, file)
  <2>1. IsPrefixOf(mem[p].entries, file')
    BY <1>2, <1>4, PrefixTransitive
  <2> QED
    BY <1>1, <2>1 DEF KeptOf, OneHistory
<1> QED
  BY <1>3, <1>4 DEF Refilled

\* ... so does one that forgets it, or reads the file anew.
LEMMA KeptEmpty ==
  ASSUME TypeOK', NEW p \in Writers, mem'[p] = EmptyLog, own'[p] = {}
  PROVE  KeptOf(p)'
BY EmptyPrefix DEF KeptOf, OneHistory, EmptyLog, HeadHash, TypeOK

LEMMA KeptLoaded ==
  ASSUME TypeOK, NEW p \in Writers, mem'[p] = Loaded(file), UNCHANGED <<file, torn>>,
         own'[p] \subseteq Hashes(file)
  PROVE  KeptOf(p)'
BY PrefixOfSelf DEF KeptOf, OneHistory, Loaded, TypeOK

\* ... or refreshes its memory.
LEMMA KeptRefreshed ==
  ASSUME TypeOK, TypeOK', KeptInv, WriterInv, DStep, ~Refilled, NEW p \in Writers,
         UNCHANGED <<file, torn>>, mem[p].size = Len(mem[p].entries),
         mem'[p] = Refreshed(mem[p])
  PROVE  KeptOf(p)'
<1>1. KeptOf(p) /\ own'[p] \subseteq Hashes(mem[p].entries)
  BY OwnBound DEF KeptInv
<1>2. CASE Refreshed(mem[p]) = mem[p]
  BY <1>2, KeptSame
<1>3. CASE Refreshed(mem[p]) = Loaded(file)
  <2>1. IsPrefixOf(mem[p].entries, file)
    BY <1>1, <1>3, RefreshGrows DEF Loaded
  <2>2. Hashes(mem[p].entries) \subseteq Hashes(file)
    BY <2>1, HashesGrow, HomesOfWriters DEF TypeOK, MemType
  <2> QED
    BY <1>1, <1>3, <2>2, KeptLoaded
<1> QED
  BY <1>1, <1>2, <1>3, RefreshGrows

LEMMA KeptStep ==
  ASSUME TypeOK, TypeOK', LockInv, ProcessInv, KeptInv, SizeInv, WriterInv, Apart,
         DStep, ~Overtaken, ~Refilled
  PROVE  KeptInv'
<1> SUFFICES ASSUME NEW p \in Writers PROVE KeptOf(p)'
  BY DEF KeptInv
<1> USE HomesOfWriters DEF disk, locks, procs, watch, quietV
<1>0. /\ p \in Proc /\ KeptOf(p) /\ mem[p] \in MemType /\ mem[p].entries \in Seq(Entry)
      /\ own'[p] \subseteq Hashes(mem[p].entries)
      /\ boot'[p] \in {"down", "refused"} => own'[p] = {}
  BY OwnBound, OwnStep DEF KeptInv, TypeOK, MemType
<1>1. ASSUME mem'[p] = mem[p] PROVE KeptOf(p)'
  BY <1>1, KeptSame
<1>2. ASSUME mem'[p] = EmptyLog, boot'[p] = "down" PROVE KeptOf(p)'
  BY <1>0, <1>2, KeptEmpty
<1>3. ASSUME boot[p] # "up" PROVE mem[p].size = Len(mem[p].entries)
  <2>1. Replacing(p) = {}
    BY <1>3 DEF Replacing, ProcessInv
  <2> QED
    BY <2>1, KnowsSize
<1>4. ASSUME NEW q \in Proc, Load(q) PROVE KeptOf(p)'
  <2>1. /\ boot[q] = "down" /\ UNCHANGED <<file, torn>>
        /\ \A r \in Proc \ {q} : mem'[r] = mem[r]
        /\ mem'[q] \in {mem[q], Loaded(file)}
    BY <1>4 DEF Load, TypeOK
  <2>2. CASE q = p /\ mem'[p] = Loaded(file)
    <3>1. own'[p] = {}
      BY <1>0, <2>1, <2>2 DEF ProcessInv, EmptyLog, Hashes
    <3> QED
      BY <2>1, <2>2, <3>1, KeptLoaded
  <2> QED
    BY <1>0, <1>1, <2>1, <2>2
<1>5. ASSUME NEW q \in Proc, Check(q) PROVE KeptOf(p)'
  <2>1. /\ boot[q] = "loaded" /\ UNCHANGED <<file, torn>>
        /\ \A r \in Proc \ {q} : mem'[r] = mem[r]
        /\ mem'[q] \in {mem[q], Refreshed(mem[q])}
    BY <1>5 DEF Check, TypeOK
  <2>2. CASE q = p /\ mem'[p] = Refreshed(mem[p])
    BY <1>3, <2>1, <2>2, KeptRefreshed
  <2> QED
    BY <1>0, <1>1, <2>1, <2>2
<1>6. ASSUME NEW q \in Proc, BootTimeout(q) \/ Crash(q) PROVE KeptOf(p)'
  <2>1. /\ boot'[q] = "down" /\ mem'[q] = EmptyLog
        /\ \A r \in Proc \ {q} : mem'[r] = mem[r]
    BY <1>6 DEF BootTimeout, Crash, TypeOK
  <2> QED
    BY <1>0, <1>1, <1>2, <2>1
<1>7. CASE RotateKey
  BY <1>1, <1>7 DEF RotateKey
<1>8. ASSUME NEW t \in Recorder, NEW m, Fail(t, m),
             mem'[p] = m /\ Home[t] = p => KeptOf(p)'
      PROVE  KeptOf(p)'
  <2>1. /\ \A r \in Proc \ {Home[t]} : mem'[r] = mem[r]
        /\ \/ boot'[Home[t]] = "down" /\ mem'[Home[t]] = EmptyLog
           \/ mem'[Home[t]] = m
    BY <1>8 DEF Fail, TypeOK
  <2> QED
    BY <1>0, <1>1, <1>2, <1>8, <2>1
<1>9. ASSUME NEW t \in Recorder, LockTimeout(t) \/ BuildFails(t) \/ WriteFails(t)
      PROVE  KeptOf(p)'
  <2>1. Fail(t, mem[Home[t]])
    BY <1>9 DEF LockTimeout, BuildFails, WriteFails
  <2> QED
    BY <1>1, <1>8, <2>1
<1>10. ASSUME NEW t \in Recorder,
              Begin(t) \/ TakeFileLock(t) \/ Build(t) \/ Write(t) \/ WriteAnchor(t)
       PROVE  KeptOf(p)'
  BY <1>1, <1>10 DEF Begin, TakeFileLock, Build, Write, WriteAnchor
<1>11. ASSUME NEW t \in Recorder, Refresh(t) PROVE KeptOf(p)'
  <2>1. UNCHANGED <<file, torn>> /\ Replacing(Home[t]) = {}
    BY <1>11 DEF Refresh, Apart, Critical
  <2>2. ASSUME mem'[p] = Refreshed(mem[Home[t]]), Home[t] = p PROVE KeptOf(p)'
    <3>1. mem[p].size = Len(mem[p].entries)
      BY <2>1, <2>2, KnowsSize
    <3> QED
      BY <2>1, <2>2, <3>1, KeptRefreshed
  <2>3. CASE Fail(t, Refreshed(mem[Home[t]]))
    BY <1>8, <2>2, <2>3
  <2>4. CASE ~Fail(t, Refreshed(mem[Home[t]]))
    <3>1. mem' = [mem EXCEPT ![Home[t]] = Refreshed(mem[Home[t]])]
      BY <1>11, <2>4 DEF Refresh
    <3> QED
      BY <1>0, <1>1, <2>2, <3>1 DEF TypeOK
  <2> QED
    BY <2>3, <2>4
<1>12. ASSUME NEW t \in Recorder, Commit(t) PROVE KeptOf(p)'
  <2>1. /\ pc[t] = "commit" /\ UNCHANGED <<file, torn>>
        /\ mem'[Home[t]] = Extended(mem[Home[t]], t)
        /\ \A r \in Proc \ {Home[t]} : mem'[r] = mem[r]
    BY <1>12 DEF Commit, TypeOK
  <2>2. CASE Home[t] # p
    BY <1>0, <1>1, <2>1, <2>2
  <2>3. CASE Home[t] = p
    <3>1. ~torn /\ file = Append(mem[p].entries, draft[t])
      BY <2>1, <2>3 DEF WriterInv, WriterOf
    <3>2. draft[t] \in Entry /\ file \in Seq(Entry)
      BY DEF TypeOK
    <3>3. mem'[p] = Loaded(file)
      <4>1. HeadHash(file) = draft[t].hash
        BY <1>0, <3>1, <3>2, HeadOfAppend
      <4>2. FileSize = Len(file)
        BY <3>1, <3>2 DEF FileSize
      <4> QED
        BY <2>1, <2>3, <3>1, <4>1, <4>2 DEF Extended, Loaded
    <3>4. Hashes(mem[p].entries) \subseteq Hashes(file)
      <4>1. IsPrefixOf(mem[p].entries, mem[p].entries)
        BY <1>0, PrefixOfSelf
      <4>2. IsPrefixOf(mem[p].entries, file)
        BY <1>0, <3>1, <3>2, <4>1, PrefixOfAppend
      <4> QED
        BY <1>0, <3>2, <4>2, HashesGrow
    <3> QED
      BY <1>0, <2>1, <3>3, <3>4, KeptLoaded
  <2> QED
    BY <2>2, <2>3
<1>13. ASSUME NEW v \in Verifier, VerifyAssign(v) PROVE KeptOf(p)'
  <2>1. /\ pc[v] = "assign" /\ pc'[v] = "resize" /\ UNCHANGED <<file, torn>>
        /\ \A r \in Proc \ {Home[v]} : mem'[r] = mem[r]
        /\ mem'[Home[v]].entries = view[v].read
        /\ mem'[Home[v]].last = HeadHash(view[v].read)
    BY <1>13, GotoThread DEF VerifyAssign, Loaded, TypeOK
  <2>2. CASE Home[v] # p
    BY <1>0, <1>1, <2>1, <2>2
  <2>3. CASE Home[v] = p
    <3>1. IsPrefixOf(mem[p].entries, view[v].read) /\ OneHistory(view[v].read)
      BY <2>1, <2>3 DEF Overtaken, Stale
    <3>2. view[v].read \in Seq(Entry)
      BY DEF TypeOK, ViewType
    <3>3. own'[p] \subseteq Hashes(view[v].read)
      BY <1>0, <3>1, <3>2, HashesGrow
    <3> QED
      BY <2>1, <2>3, <3>1, <3>3 DEF KeptOf, OneHistory
  <2> QED
    BY <2>2, <2>3
<1>14. ASSUME NEW v \in Verifier, VerifyResize(v) PROVE KeptOf(p)'
  <2>1. mem'[p].entries = mem[p].entries /\ mem'[p].last = mem[p].last
    BY <1>0, <1>14 DEF VerifyResize, TypeOK, MemType
  <2> QED
    BY <2>1, KeptSame
<1>15. ASSUME NEW v \in Verifier, VerifyStep(v) PROVE KeptOf(p)'
  BY <1>1, <1>13, <1>14, <1>15 DEF VerifyStep, VerifyStat, VerifyRead, VerifyAnchor,
     VerifyCheck
<1>16. ASSUME NEW v \in Inspector, InspectLoad(v) \/ InspectVerify(v) PROVE KeptOf(p)'
  BY <1>1, <1>16 DEF InspectLoad, InspectVerify
<1> QED
  BY <1>4, <1>5, <1>6, <1>7, <1>9, <1>10, <1>11, <1>12, <1>15, <1>16
     DEF DStep, Step, RecordStep

----------------------------------------------------------------------------
(* The writers at work.                                                    *)

LEMMA WriterInit == DInit => WriterInv
BY DEF DInit, Init, WriterInv, WriterOf, Thread

\* A step that leaves the recorder u and what it works on alone.
LEMMA WriterFrame ==
  ASSUME WriterInv, NEW u \in Recorder,
         \/ pc'[u] \notin Placed
         \/ /\ pc'[u] = pc[u] /\ draft'[u] = draft[u]
            /\ mem'[Home[u]].entries = mem[Home[u]].entries
            /\ UNCHANGED <<file, torn, cfgGen>>
  PROVE  WriterOf(u)'
BY DEF WriterInv, WriterOf, Placed

\* A step of the recorder t leaves the others alone.
LEMMA WriterAlone ==
  ASSUME TypeOK, LockInv, WriterInv, NEW t \in Recorder, NEW l, Goto(t, l),
         pc[t] \in Critical \/ UNCHANGED <<file, torn>>,
         \A u \in Recorder \ {t} : draft'[u] = draft[u],
         \A q \in Proc \ {Home[t]} : mem'[q] = mem[q],
         pc[t] # "idle" \/ UNCHANGED mem,
         cfgGen' = cfgGen,
         WriterOf(t)'
  PROVE  WriterInv'
<1> SUFFICES ASSUME NEW u \in Recorder, u # t PROVE WriterOf(u)'
  BY DEF WriterInv
<1> USE Homes
<1>1. pc'[u] = pc[u]
  BY GotoThread
<1>2. CASE pc[u] = "idle"
  BY <1>1, <1>2, WriterFrame DEF Placed
<1>3. CASE pc[u] # "idle"
  <2>1. mem'[Home[u]] = mem[Home[u]]
    BY <1>3 DEF LockInv
  <2>2. CASE UNCHANGED <<file, torn>>
    BY <1>1, <2>1, <2>2, WriterFrame
  <2>3. CASE pc[t] \in Critical
    <3>1. pc[u] \notin Critical
      BY <2>3 DEF LockInv
    <3> QED
      BY <1>1, <3>1, WriterFrame DEF Critical, Placed
  <2> QED
    BY <2>2, <2>3
<1> QED
  BY <1>2, <1>3

LEMMA WriterStep ==
  ASSUME TypeOK, LockInv, ProcessInv, KeptInv, SizeInv, WriterInv, Apart,
         DStep, ~Overtaken
  PROVE  WriterInv'
<1> USE Homes DEF disk, locks, procs, watch, quietV
<1>1. ASSUME NEW p \in Proc, Load(p) \/ Check(p) \/ BootTimeout(p) PROVE WriterInv'
  <2> SUFFICES ASSUME NEW u \in Recorder PROVE WriterOf(u)'
    BY DEF WriterInv
  <2>1. /\ boot[p] \in {"down", "loaded"} /\ UNCHANGED <<file, torn, cfgGen, pc, draft>>
        /\ \A q \in Proc \ {p} : mem'[q] = mem[q]
    BY <1>1 DEF Load, Check, BootTimeout, TypeOK
  <2>2. CASE pc[u] = "idle"
    BY <2>1, <2>2, WriterFrame DEF Placed
  <2>3. CASE pc[u] # "idle"
    <3>1. Home[u] # p
      BY <2>1, <2>3 DEF LockInv
    <3> QED
      BY <2>1, <3>1, WriterFrame
  <2> QED
    BY <2>2, <2>3
<1>2. ASSUME NEW p \in Proc, Crash(p) PROVE WriterInv'
  <2> SUFFICES ASSUME NEW u \in Recorder PROVE WriterOf(u)'
    BY DEF WriterInv
  <2>1. CASE Home[u] = p
    <3>1. pc'[u] = "idle"
      BY <1>2, <2>1 DEF Crash, Stopped, ThreadsOf
    <3> QED
      BY <3>1, WriterFrame DEF Placed
  <2>2. CASE Home[u] # p
    <3>1. /\ pc'[u] = pc[u] /\ draft'[u] = draft[u] /\ mem'[Home[u]] = mem[Home[u]]
          /\ UNCHANGED <<file, torn, cfgGen>>
      BY <1>2, <2>2 DEF Crash, Stopped, ThreadsOf, TypeOK
    <3> QED
      BY <3>1, WriterFrame
  <2> QED
    BY <2>1, <2>2
<1>3. CASE RotateKey
  <2>1. \A u \in Recorder : pc'[u] = "idle"
    BY <1>3 DEF RotateKey, LockInv
  <2> QED
    BY <2>1, WriterFrame DEF WriterInv, Placed
<1>4. ASSUME NEW t \in Recorder, NEW m, Fail(t, m), pc[t] # "idle",
             pc[t] \in Critical \/ UNCHANGED <<file, torn>>
      PROVE  WriterInv'
  <2>1. /\ Goto(t, "idle") /\ cfgGen' = cfgGen
        /\ \A u \in Recorder \ {t} : draft'[u] = draft[u]
        /\ \A q \in Proc \ {Home[t]} : mem'[q] = mem[q]
    BY <1>4 DEF Fail, Release, TypeOK
  <2>2. WriterOf(t)'
    BY <2>1, GotoThread, WriterFrame DEF Placed
  <2> QED
    BY <1>4, <2>1, <2>2, WriterAlone
<1>5. ASSUME NEW t \in Recorder, Begin(t) \/ TakeFileLock(t) PROVE WriterInv'
  <2>1. \E l \in {"flock", "refresh"} : Goto(t, l)
    BY <1>5 DEF Begin, TakeFileLock
  <2>2. WriterOf(t)'
    BY <2>1, GotoThread, WriterFrame DEF Placed
  <2>3. UNCHANGED <<file, torn, draft, mem, cfgGen>>
    BY <1>5 DEF Begin, TakeFileLock
  <2> QED
    BY <2>1, <2>2, <2>3, WriterAlone
<1>6. ASSUME NEW t \in Recorder, LockTimeout(t) \/ BuildFails(t) \/ WriteFails(t)
      PROVE  WriterInv'
  <2>1. /\ Fail(t, mem[Home[t]]) /\ pc[t] # "idle"
        /\ pc[t] \in Critical \/ UNCHANGED <<file, torn>>
    BY <1>6 DEF LockTimeout, BuildFails, WriteFails, Critical, Placed
  <2> QED
    BY <1>4, <2>1
<1>7. ASSUME NEW t \in Recorder, Refresh(t) PROVE WriterInv'
  <2> DEFINE m == mem[Home[t]]
  <2>1. pc[t] = "refresh" /\ UNCHANGED <<file, torn>>
    BY <1>7 DEF Refresh
  <2>2. CASE Fail(t, Refreshed(m))
    BY <1>4, <2>1, <2>2
  <2>3. CASE ~Fail(t, Refreshed(m))
    <3>1. /\ RefreshReturns(m) /\ Goto(t, "build") /\ UNCHANGED <<cfgGen, draft>>
          /\ mem' = [mem EXCEPT ![Home[t]] = Refreshed(m)]
      BY <1>7, <2>3 DEF Refresh
    <3>2. pc'[t] = "build"
      BY <3>1, GotoThread
    <3>3. /\ mem'[Home[t]] = Refreshed(m)
          /\ \A q \in Proc \ {Home[t]} : mem'[q] = mem[q]
      BY <3>1 DEF TypeOK
    <3>4. ~torn /\ Refreshed(m).entries = file
      <4>1. Home[t] \in Writers /\ Replacing(Home[t]) = {}
        BY <2>1, HomesOfWriters DEF Apart, Critical
      <4>2. KeptOf(Home[t]) /\ m.size = Len(m.entries)
        BY <4>1, KnowsSize DEF KeptInv
      <4> QED
        BY <3>1, <4>1, <4>2, RefreshKnows
    <3>5. WriterOf(t)'
      BY <2>1, <3>2, <3>3, <3>4 DEF WriterOf
    <3> QED
      BY <2>1, <3>1, <3>3, <3>5, WriterAlone
  <2> QED
    BY <2>2, <2>3
<1>8. ASSUME NEW t \in Recorder, Build(t) PROVE WriterInv'
  <2>1. /\ pc[t] = "build" /\ UNCHANGED <<file, torn, mem, gen, cfgGen>> /\ Goto(t, "write")
        /\ draft'[t] = NewEntry(Home[t])
        /\ \A u \in Recorder \ {t} : draft'[u] = draft[u]
    BY <1>8 DEF Build, TypeOK
  <2>2. pc'[t] = "write"
    BY <2>1, GotoThread
  <2>3. gen[Home[t]] = cfgGen
    BY <2>1 DEF LockInv, ProcessInv, Running
  <2>4. /\ mem[Home[t]].last = HeadHash(mem[Home[t]].entries)
        /\ ~torn /\ mem[Home[t]].entries = file
    BY <2>1, HomesOfWriters DEF KeptInv, KeptOf, WriterInv, WriterOf
  <2>5. WriterOf(t)'
    BY <2>1, <2>2, <2>3, <2>4 DEF WriterOf, NewEntry
  <2> QED
    BY <2>1, <2>5, WriterAlone
<1>9. ASSUME NEW t \in Recorder, Write(t) PROVE WriterInv'
  <2>1. /\ pc[t] = "write" /\ UNCHANGED <<torn, mem, draft, cfgGen>> /\ Goto(t, "commit")
        /\ file' = Append(file, draft[t])
    BY <1>9 DEF Write
  <2>2. pc'[t] = "commit"
    BY <2>1, GotoThread
  <2>3. ~torn /\ mem[Home[t]].entries = file
    BY <2>1 DEF WriterInv, WriterOf
  <2>4. WriterOf(t)'
    BY <2>1, <2>2, <2>3 DEF WriterOf
  <2> QED
    BY <2>1, <2>4, WriterAlone DEF Critical, Placed
<1>10. ASSUME NEW t \in Recorder, Commit(t) PROVE WriterInv'
  <2>1. /\ pc[t] = "commit" /\ UNCHANGED <<file, torn, draft, cfgGen>> /\ Goto(t, "anchor")
        /\ mem'[Home[t]] = Extended(mem[Home[t]], t)
        /\ \A q \in Proc \ {Home[t]} : mem'[q] = mem[q]
    BY <1>10 DEF Commit, TypeOK
  <2>2. pc'[t] = "anchor"
    BY <2>1, GotoThread
  <2>3. ~torn /\ file = Append(mem[Home[t]].entries, draft[t])
    BY <2>1 DEF WriterInv, WriterOf
  <2>4. mem[Home[t]].entries \in Seq(Entry) /\ draft[t] \in Entry
    BY DEF TypeOK, MemType
  <2>5. draft[t].hash \in Hashes(file)
    BY <2>3, <2>4 DEF Hashes
  <2>6. WriterOf(t)'
    BY <2>1, <2>2, <2>3, <2>5 DEF WriterOf, Extended
  <2> QED
    BY <2>1, <2>6, WriterAlone DEF Critical, Placed
<1>11. ASSUME NEW t \in Recorder, WriteAnchor(t) PROVE WriterInv'
  <2>1. /\ pc[t] = "anchor" /\ UNCHANGED <<file, torn, mem, cfgGen>> /\ Goto(t, "idle")
        /\ \A u \in Recorder \ {t} : draft'[u] = draft[u]
    BY <1>11 DEF WriteAnchor, Release, TypeOK
  <2>2. WriterOf(t)'
    BY <2>1, GotoThread, WriterFrame DEF Placed
  <2> QED
    BY <2>1, <2>2, WriterAlone
<1>12. ASSUME NEW v \in Verifier, VerifyStep(v) PROVE WriterInv'
  <2>1. UNCHANGED <<file, torn, cfgGen, draft>> /\ \A u \in Recorder : pc'[u] = pc[u]
    <3>1. \A l : Goto(v, l) => \A u \in Recorder : pc'[u] = pc[u]
      BY GotoThread DEF Thread
    <3> QED
      BY <1>12, <3>1 DEF VerifyStep, VerifyStat, VerifyRead, VerifyAssign, VerifyResize,
         VerifyAnchor, VerifyCheck, Report
  <2>2. ASSUME \A u \in Recorder : pc[u] \in Placed =>
                 mem'[Home[u]].entries = mem[Home[u]].entries
        PROVE  WriterInv'
    BY <2>1, <2>2, WriterFrame DEF WriterInv
  <2>3. CASE VerifyAssign(v)
    <3>1. v \in Replacing(Home[v])'
      BY <2>3, GotoThread DEF VerifyAssign, Replacing, Thread
    <3>2. \A u \in Recorder : pc[u] \in Placed => Home[u] # Home[v]
      BY <2>1, <3>1 DEF Overtaken, Apart, Critical
    <3> QED
      BY <2>2, <2>3, <3>2 DEF VerifyAssign, TypeOK
  <2>4. CASE ~VerifyAssign(v)
    <3>1. \A p \in Proc : mem'[p].entries = mem[p].entries
      <4>1. CASE VerifyResize(v)
        BY <4>1 DEF VerifyResize, TypeOK, MemType
      <4>2. CASE mem' = mem
        BY <4>2
      <4> QED
        BY <1>12, <2>4, <4>1, <4>2 DEF VerifyStep, VerifyStat, VerifyRead,
           VerifyAnchor, VerifyCheck
    <3> QED
      BY <2>2, <3>1
  <2> QED
    BY <2>3, <2>4
<1>13. ASSUME NEW v \in Inspector, InspectLoad(v) \/ InspectVerify(v) PROVE WriterInv'
  <2>1. UNCHANGED <<file, torn, cfgGen, draft, mem>>
    BY <1>13 DEF InspectLoad, InspectVerify
  <2>2. \A u \in Recorder : pc'[u] = pc[u]
    BY <1>13, GotoThread DEF InspectLoad, InspectVerify, Report, Thread
  <2> QED
    BY <2>1, <2>2, WriterFrame DEF WriterInv
<1> QED
  BY <1>1, <1>2, <1>3, <1>5, <1>6, <1>7, <1>8, <1>9, <1>10, <1>11, <1>12, <1>13
     DEF DStep, Step, RecordStep

LEMMA ProcessStep ==
  ASSUME TypeOK, LockInv, ProcessInv, DStep PROVE ProcessInv'
<1> USE Homes DEF disk, locks, procs, watch
<1>0. \A p \in Proc : boot'[p] \in {"down", "refused"} => own'[p] = {}
  BY OwnStep
<1>1. ASSUME UNCHANGED <<gen, cfgGen>>,
             \A p \in Proc : /\ boot'[p] = "down" => mem'[p] = EmptyLog
                             /\ boot'[p] \in Running => boot[p] \in Running
                             /\ boot[p] = "up" => boot'[p] = "up",
             \A v \in Verifier : pc'[v] # "idle" => pc[v] # "idle"
      PROVE  ProcessInv'
  <2>1. \A v \in Verifier : Home[v] \in Proc
    BY ThreadAssumption
  <2> QED
    BY <1>0, <1>1, <2>1 DEF ProcessInv
<1>2. ASSUME NEW p \in Proc, Load(p) PROVE ProcessInv'
  <2>1. /\ boot[p] = "down" /\ boot'[p] \in {"loaded", "refused"} /\ gen'[p] = cfgGen
        /\ \A q \in Proc \ {p} : boot'[q] = boot[q] /\ gen'[q] = gen[q] /\ mem'[q] = mem[q]
        /\ cfgGen' = cfgGen /\ pc' = pc
    BY <1>2 DEF Load, TypeOK
  <2>2. \A v \in Verifier : Home[v] \in Proc
    BY ThreadAssumption
  <2> QED
    BY <1>0, <2>1, <2>2 DEF ProcessInv
<1>3. ASSUME NEW p \in Proc, Check(p) PROVE ProcessInv'
  <2>1. /\ boot[p] = "loaded" /\ boot'[p] \in {"refused", "marking", "up"}
        /\ \A q \in Proc \ {p} : boot'[q] = boot[q] /\ mem'[q] = mem[q]
        /\ UNCHANGED <<gen, cfgGen, pc>>
    BY <1>3 DEF Check, TypeOK
  <2> QED
    BY <1>1, <2>1 DEF ProcessInv, Running
<1>4. ASSUME NEW p \in Proc, BootTimeout(p) PROVE ProcessInv'
  <2>1. /\ boot[p] = "loaded" /\ boot'[p] = "down" /\ mem'[p] = EmptyLog
        /\ \A q \in Proc \ {p} : boot'[q] = boot[q] /\ mem'[q] = mem[q]
        /\ UNCHANGED <<gen, cfgGen, pc>>
    BY <1>4 DEF BootTimeout, TypeOK
  <2> QED
    BY <1>1, <2>1 DEF ProcessInv, Running
<1>5. ASSUME NEW p \in Proc, Crash(p) PROVE ProcessInv'
  <2>1. /\ boot'[p] = "down" /\ mem'[p] = EmptyLog
        /\ \A q \in Proc \ {p} : boot'[q] = boot[q] /\ mem'[q] = mem[q]
        /\ UNCHANGED <<gen, cfgGen>>
    BY <1>5 DEF Crash, TypeOK
  <2>2. \A v \in Verifier : pc'[v] # "idle" => pc'[v] = pc[v] /\ Home[v] # p
    BY <1>5 DEF Crash, Stopped, ThreadsOf, Thread
  <2>3. \A v \in Verifier : Home[v] \in Proc
    BY ThreadAssumption
  <2> QED
    BY <1>0, <2>1, <2>2, <2>3 DEF ProcessInv, Running
<1>6. CASE RotateKey
  <2>1. (\A p \in Proc : boot[p] \notin Running) /\ UNCHANGED <<boot, mem, pc>>
    BY <1>6 DEF RotateKey, Running
  <2> QED
    BY <1>0, <2>1 DEF ProcessInv
<1>7. ASSUME NEW t \in Recorder PROVE \A v \in Verifier : v # t /\ v \in Thread
  BY ThreadAssumption DEF Thread
<1>8. ASSUME NEW t \in Recorder, NEW m, Fail(t, m), pc[t] # "idle" PROVE ProcessInv'
  <2>1. UNCHANGED <<gen, cfgGen>> /\ \A v \in Verifier : pc'[v] = pc[v]
    BY <1>7, <1>8 DEF Fail, Release, Goto, TypeOK
  <2>2. \A q \in Proc \ {Home[t]} : boot'[q] = boot[q] /\ mem'[q] = mem[q]
    BY <1>8 DEF Fail, TypeOK
  <2>3. CASE boot[Home[t]] = "marking"
    <3>1. boot'[Home[t]] = "down" /\ mem'[Home[t]] = EmptyLog
      BY <1>8, <2>3 DEF Fail, TypeOK
    <3> QED
      BY <1>1, <2>1, <2>2, <2>3, <3>1 DEF ProcessInv, Running
  <2>4. CASE boot[Home[t]] = "up"
    <3>1. boot' = boot
      BY <1>8, <2>4 DEF Fail
    <3> QED
      BY <1>1, <2>1, <2>2, <2>4, <3>1 DEF ProcessInv, Running
  <2> QED
    BY <1>8, <2>3, <2>4 DEF LockInv
<1>9. ASSUME NEW t \in Recorder,
             \/ Begin(t) \/ TakeFileLock(t) \/ Build(t) \/ Write(t) \/ Commit(t)
             \/ Refresh(t) /\ ~Fail(t, Refreshed(mem[Home[t]]))
      PROVE  ProcessInv'
  <2>1. UNCHANGED <<gen, cfgGen, boot>> /\ \A v \in Verifier : pc'[v] = pc[v]
    <3>1. UNCHANGED <<gen, cfgGen, boot>>
      BY <1>9 DEF Begin, TakeFileLock, Build, Write, Commit, Refresh, Fail
    <3>2. \E l : Goto(t, l)
      BY <1>9 DEF Begin, TakeFileLock, Build, Write, Commit, Refresh, Fail, Release
    <3> QED
      BY <1>7, <3>1, <3>2 DEF Goto, TypeOK
  <2>2. \A q \in Proc : boot[q] = "down" => q # Home[t] \/ mem'[q] = mem[q]
    BY <1>9 DEF Begin, TakeFileLock, Build, Write, Commit, Refresh, LockInv
  <2>3. \A q \in Proc \ {Home[t]} : mem'[q] = mem[q]
    BY <1>9 DEF Begin, TakeFileLock, Build, Write, Commit, Refresh, Fail, TypeOK
  <2> QED
    BY <1>1, <2>1, <2>2, <2>3 DEF ProcessInv
<1>10. ASSUME NEW t \in Recorder, LockTimeout(t) \/ BuildFails(t) \/ WriteFails(t)
       PROVE  ProcessInv'
  BY <1>8, <1>10 DEF LockTimeout, BuildFails, WriteFails
<1>11. ASSUME NEW t \in Recorder, Refresh(t) PROVE ProcessInv'
  <2>1. CASE Fail(t, Refreshed(mem[Home[t]]))
    BY <1>8, <1>11, <2>1 DEF Refresh
  <2>2. CASE ~Fail(t, Refreshed(mem[Home[t]]))
    BY <1>9, <1>11, <2>2 DEF Refresh
  <2> QED
    BY <2>1, <2>2
<1>12. ASSUME NEW t \in Recorder, WriteAnchor(t) PROVE ProcessInv'
  <2>1. /\ pc[t] = "anchor" /\ boot'[Home[t]] = "up"
        /\ \A q \in Proc \ {Home[t]} : boot'[q] = boot[q]
        /\ UNCHANGED <<gen, cfgGen, mem>>
    BY <1>12 DEF WriteAnchor, TypeOK
  <2>2. \A v \in Verifier : pc'[v] = pc[v]
    BY <1>7, <1>12 DEF WriteAnchor, Release, Goto, TypeOK
  <2>3. boot[Home[t]] \in Running
    BY <2>1 DEF LockInv, Running
  <2> QED
    BY <1>1, <2>1, <2>2, <2>3 DEF ProcessInv
<1>13. ASSUME NEW v \in Verifier, VerifyStep(v) PROVE ProcessInv'
  <2>1. UNCHANGED <<boot, gen, cfgGen>> /\ boot[Home[v]] = "up"
    BY <1>13 DEF VerifyStep, VerifyStat, VerifyRead, VerifyAssign, VerifyResize,
       VerifyAnchor, VerifyCheck, quietV, ProcessInv
  <2>2. \A u \in Verifier \ {v} : pc'[u] = pc[u]
    BY <1>13 DEF VerifyStep, VerifyStat, VerifyRead, VerifyAssign, VerifyResize,
       VerifyAnchor, VerifyCheck, Report, Goto, TypeOK, Thread
  <2>3. \A q \in Proc \ {Home[v]} : mem'[q] = mem[q]
    BY <1>13 DEF VerifyStep, VerifyStat, VerifyRead, VerifyAssign, VerifyResize,
       VerifyAnchor, VerifyCheck, quietV, TypeOK
  <2> QED
    BY <1>0, <2>1, <2>2, <2>3 DEF ProcessInv
<1>14. ASSUME NEW v \in Inspector, InspectLoad(v) \/ InspectVerify(v) PROVE ProcessInv'
  <2>1. UNCHANGED <<boot, gen, cfgGen, mem>>
    BY <1>14 DEF InspectLoad, InspectVerify, quietV
  <2>2. \A u \in Verifier : pc'[u] = pc[u]
    BY <1>14, ThreadAssumption DEF InspectLoad, InspectVerify, Report, Goto, TypeOK, Thread
  <2> QED
    BY <1>1, <2>1, <2>2 DEF ProcessInv
<1> QED
  BY <1>2, <1>3, <1>4, <1>5, <1>6, <1>9, <1>10, <1>11, <1>12, <1>13, <1>14
     DEF DStep, Step, RecordStep

----------------------------------------------------------------------------
(* The chain in the file and in its copies.                                *)

LEMMA SoundAppend ==
  ASSUME NEW f \in Seq(Entry), NEW e \in Entry, NEW g \in Gen, Sound(f, g),
         e.prev = HeadHash(f), e.gen = g
  PROVE  Sound(Append(f, e), g)
BY LinkedAppend, RisingAppend DEF Sound

LEMMA SoundSubSeq ==
  ASSUME NEW f \in Seq(Entry), NEW n \in 0..Len(f), NEW g \in Gen, Sound(f, g)
  PROVE  Sound(SubSeq(f, 1, n), g)
BY LinkedSubSeq, GenerationsSubSeq DEF Sound

LEMMA SoundEmpty ==
  ASSUME NEW g PROVE Sound(<<>>, g)
<1>1. \A i \in DOMAIN <<>> : FALSE
  OBVIOUS
<1> QED
  BY <1>1 DEF Sound, Linked, KnownGenerations, RisingGenerations

LEMMA SoundLater ==
  ASSUME NEW f \in Seq(Entry), NEW g \in Nat, Sound(f, g) PROVE Sound(f, g + 1)
<1>1. \A i \in DOMAIN f : f[i] \in Entry
  OBVIOUS
<1>2. \A i \in DOMAIN f : f[i].gen \in Nat
  BY <1>1, BoundAssumption DEF Entry, Gen
<1> QED
  BY <1>2 DEF Sound, KnownGenerations

LEMMA SoundReport ==
  ASSUME NEW es, NEW a, NEW g, Sound(es, g)
  PROVE  Finding(es, a, g) # "lancuch"
BY DEF Finding, Sound

LEMMA SoundInit == DInit => SoundInv
BY SoundEmpty DEF DInit, Init, SoundInv, EmptyLog, NoForkReported, Thread

\* Where the chain of the file stays sound, its copies do.
LEMMA SoundFrame ==
  ASSUME SoundInv, Sound(file', cfgGen'), cfgGen' = cfgGen,
         \A p \in Proc : mem'[p].entries \in {mem[p].entries, <<>>, file},
         \A v \in Verifier \cup Inspector :
           /\ pc'[v] \in {"assign", "resize", "inspect"} =>
                \/ pc'[v] = pc[v] /\ view'[v] = view[v]
                \/ view'[v].read = file
           /\ report'[v] # "lancuch" \/ report'[v] = report[v]
  PROVE  SoundInv'
<1>1. \A p \in Proc : Sound(mem'[p].entries, cfgGen')
  BY SoundEmpty DEF SoundInv
<1>2. \A v \in Verifier \cup Inspector :
        pc'[v] \in {"assign", "resize", "inspect"} => Sound(view'[v].read, cfgGen')
  BY DEF SoundInv
<1>3. NoForkReported'
  BY DEF SoundInv, NoForkReported
<1> QED
  BY <1>1, <1>2, <1>3 DEF SoundInv

LEMMA SoundStep ==
  ASSUME TypeOK, TypeOK', ProcessInv, WriterInv, SoundInv, DStep
  PROVE  SoundInv'
<1> USE Homes DEF disk, locks, procs, watch
<1>0. /\ \A t \in Recorder : t \notin Verifier \cup Inspector
      /\ \A t \in Recorder : WriterOf(t)
      /\ Sound(file, cfgGen) /\ file \in Seq(Entry) /\ cfgGen \in Gen /\ cfgGen \in Nat
  BY BoundAssumption DEF WriterInv, SoundInv, TypeOK, Gen
<1>1. ASSUME UNCHANGED <<file, cfgGen, report>>,
             \A p \in Proc : mem'[p] \in {mem[p], EmptyLog, Loaded(file)},
             \A v \in Verifier \cup Inspector :
               pc'[v] \in {"assign", "resize", "inspect"} => pc'[v] = pc[v] /\ view'[v] = view[v]
      PROVE  SoundInv'
  <2>1. \A p \in Proc : mem'[p].entries \in {mem[p].entries, <<>>, file}
    BY <1>1 DEF EmptyLog, Loaded
  <2> QED
    BY <1>0, <1>1, <2>1, SoundFrame
<1>2. ASSUME NEW p \in Proc, Load(p) \/ Check(p) \/ BootTimeout(p) PROVE SoundInv'
  <2>1. UNCHANGED <<file, cfgGen, report, pc, view>>
    BY <1>2 DEF Load, Check, BootTimeout
  <2>2. \A q \in Proc : mem'[q] \in {mem[q], EmptyLog, Loaded(file)}
    BY <1>2 DEF Load, Check, BootTimeout, Refreshed, TypeOK
  <2> QED
    BY <1>1, <2>1, <2>2
<1>3. ASSUME NEW p \in Proc, Crash(p) PROVE SoundInv'
  <2>1. UNCHANGED <<file, cfgGen, report>>
    BY <1>3 DEF Crash
  <2>2. \A q \in Proc : mem'[q] \in {mem[q], EmptyLog, Loaded(file)}
    BY <1>3 DEF Crash, TypeOK
  <2>3. \A v \in Verifier \cup Inspector :
          pc'[v] \in {"assign", "resize", "inspect"} => pc'[v] = pc[v] /\ view'[v] = view[v]
    BY <1>3 DEF Crash, Stopped, Thread
  <2> QED
    BY <1>1, <2>1, <2>2, <2>3
<1>4. CASE RotateKey
  <2>1. UNCHANGED <<file, mem, pc, view, report>> /\ cfgGen' = cfgGen + 1
    BY <1>4 DEF RotateKey
  <2>2. Sound(file, cfgGen + 1)
    BY <1>0, SoundLater
  <2>3. \A p \in Proc : Sound(mem[p].entries, cfgGen + 1)
    BY <1>0, SoundLater DEF SoundInv, TypeOK, MemType
  <2>4. \A v \in Verifier \cup Inspector :
          pc[v] \in {"assign", "resize", "inspect"} => Sound(view[v].read, cfgGen + 1)
    BY <1>0, SoundLater DEF SoundInv, TypeOK, ViewType
  <2> QED
    BY <2>1, <2>2, <2>3, <2>4 DEF SoundInv, NoForkReported
<1>5. ASSUME NEW t \in Recorder, NEW m, Fail(t, m), m \in {mem[Home[t]], Refreshed(mem[Home[t]])},
             Sound(file', cfgGen)
      PROVE  SoundInv'
  <2>1. UNCHANGED <<cfgGen, report, view>>
    BY <1>5 DEF Fail
  <2>2. \A p \in Proc : mem'[p] \in {mem[p], EmptyLog, Loaded(file)}
    BY <1>5 DEF Fail, Refreshed, TypeOK
  <2>3. \A p \in Proc : mem'[p].entries \in {mem[p].entries, <<>>, file}
    BY <2>2 DEF EmptyLog, Loaded
  <2>4. \A v \in Verifier \cup Inspector : pc'[v] = pc[v]
    BY <1>0, <1>5 DEF Fail, Release, Goto, TypeOK, Thread
  <2> QED
    BY <1>5, <2>1, <2>3, <2>4, SoundFrame
<1>6. ASSUME NEW t \in Recorder,
             \/ Begin(t) \/ TakeFileLock(t) \/ Build(t) \/ WriteAnchor(t)
             \/ Refresh(t) /\ ~Fail(t, Refreshed(mem[Home[t]]))
      PROVE  SoundInv'
  <2>1. UNCHANGED <<file, cfgGen, report, view>>
    BY <1>6 DEF Begin, TakeFileLock, Build, WriteAnchor, Refresh
  <2>2. \A p \in Proc : mem'[p] \in {mem[p], EmptyLog, Loaded(file)}
    BY <1>6 DEF Begin, TakeFileLock, Build, WriteAnchor, Refresh, Refreshed, TypeOK
  <2>3. \A v \in Verifier \cup Inspector : pc'[v] = pc[v]
    BY <1>0, <1>6 DEF Begin, TakeFileLock, Build, WriteAnchor, Refresh, Release, Goto,
       TypeOK, Thread
  <2> QED
    BY <1>1, <2>1, <2>2, <2>3
<1>7. ASSUME NEW t \in Recorder,
             \/ LockTimeout(t) \/ BuildFails(t)
             \/ Refresh(t) /\ Fail(t, Refreshed(mem[Home[t]]))
      PROVE  SoundInv'
  <2>1. file' = file
    BY <1>7 DEF LockTimeout, BuildFails, Refresh
  <2> QED
    BY <1>0, <1>5, <1>7, <2>1 DEF LockTimeout, BuildFails
<1>8. ASSUME NEW t \in Recorder, pc[t] = "write" PROVE Sound(Append(file, draft[t]), cfgGen)
  <2>1. /\ mem[Home[t]].entries = file /\ draft[t].prev = HeadHash(mem[Home[t]].entries)
        /\ draft[t].gen = cfgGen
    BY <1>0, <1>8 DEF WriterOf
  <2>2. draft[t] \in Entry
    BY DEF TypeOK
  <2> QED
    BY <1>0, <2>1, <2>2, SoundAppend
<1>9. ASSUME NEW t \in Recorder, Write(t) PROVE SoundInv'
  <2>1. /\ pc[t] = "write" /\ file' = Append(file, draft[t])
        /\ UNCHANGED <<cfgGen, report, view, mem>>
    BY <1>9 DEF Write
  <2>2. \A v \in Verifier \cup Inspector : pc'[v] = pc[v]
    BY <1>0, <1>9 DEF Write, Goto, TypeOK, Thread
  <2>3. Sound(file', cfgGen')
    BY <1>8, <2>1
  <2> QED
    BY <2>1, <2>2, <2>3, SoundFrame
<1>10. ASSUME NEW t \in Recorder, WriteFails(t) PROVE SoundInv'
  <2>1. /\ pc[t] = "write" /\ file' \in {file, Append(file, draft[t])}
        /\ Fail(t, mem[Home[t]])
    BY <1>10 DEF WriteFails
  <2>2. Sound(file', cfgGen)
    BY <1>0, <1>8, <2>1
  <2> QED
    BY <1>5, <2>1, <2>2
<1>11. ASSUME NEW t \in Recorder, Commit(t) PROVE SoundInv'
  <2>1. /\ pc[t] = "commit" /\ UNCHANGED <<file, cfgGen, report, view>>
        /\ mem' = [mem EXCEPT ![Home[t]] = Extended(mem[Home[t]], t)]
    BY <1>11 DEF Commit
  <2>2. \A v \in Verifier \cup Inspector : pc'[v] = pc[v]
    BY <1>0, <1>11 DEF Commit, Goto, TypeOK, Thread
  <2>3. Extended(mem[Home[t]], t).entries = file
    BY <1>0, <2>1 DEF WriterOf, Extended
  <2>4. \A p \in Proc : mem'[p].entries \in {mem[p].entries, <<>>, file}
    BY <2>1, <2>3 DEF TypeOK
  <2> QED
    BY <1>0, <2>1, <2>2, <2>4, SoundFrame
<1>12. ASSUME NEW v \in Verifier, VerifyStep(v) PROVE SoundInv'
  <2>0. /\ v \in Thread /\ Home[v] \in Proc /\ v \in Verifier \cup Inspector
        /\ UNCHANGED <<file, cfgGen>>
    BY <1>12, ThreadAssumption DEF Thread, VerifyStep, VerifyStat, VerifyRead, VerifyAssign, VerifyResize,
       VerifyAnchor, VerifyCheck, quietV
  <2>1. ASSUME NEW r, Report(v, r)
        PROVE  /\ pc'[v] = "idle" /\ report'[v] = r
               /\ \A u \in (Verifier \cup Inspector) \ {v} :
                    pc'[u] = pc[u] /\ view'[u] = view[u] /\ report'[u] = report[u]
    BY <2>0, <2>1 DEF Report, Goto, TypeOK, Thread
  <2>2. ASSUME NEW l, Goto(v, l)
        PROVE  pc'[v] = l /\ \A u \in (Verifier \cup Inspector) \ {v} : pc'[u] = pc[u]
    BY <2>0, <2>2 DEF Goto, TypeOK, Thread
  <2>3. CASE VerifyStat(v)
    <3>1. mem' = mem
      BY <2>3 DEF VerifyStat
    <3>2. CASE Report(v, "plik")
      BY <1>0, <2>0, <2>1, <3>1, <3>2, SoundFrame
    <3>3. CASE ~Report(v, "plik")
      <4>1. /\ Goto(v, "anchor") \/ Goto(v, "read")
            /\ \A u \in (Verifier \cup Inspector) \ {v} : view'[u] = view[u]
        BY <2>3, <3>3 DEF VerifyStat, TypeOK
      <4>2. report' = report
        BY <2>3, <3>3 DEF VerifyStat
      <4>3. pc'[v] \notin {"assign", "resize", "inspect"}
        BY <2>2, <4>1
      <4>4. \A u \in (Verifier \cup Inspector) \ {v} : pc'[u] = pc[u]
        BY <2>2, <4>1
      <4> QED
        BY <1>0, <2>0, <3>1, <4>1, <4>2, <4>3, <4>4, SoundFrame
    <3> QED
      BY <3>2, <3>3
  <2>4. CASE VerifyRead(v)
    <3>1. mem' = mem
      BY <2>4 DEF VerifyRead
    <3>2. CASE Report(v, "plik")
      BY <1>0, <2>0, <2>1, <3>1, <3>2, SoundFrame
    <3>3. CASE ~Report(v, "plik")
      <4>1. /\ Goto(v, "assign") /\ report' = report
            /\ view' = [view EXCEPT ![v].read = file]
        BY <2>4, <3>3 DEF VerifyRead
      <4>2. /\ view'[v].read = file
            /\ \A u \in (Verifier \cup Inspector) \ {v} : view'[u] = view[u]
        BY <2>0, <4>1 DEF TypeOK, ViewType
      <4> QED
        BY <1>0, <2>0, <2>2, <3>1, <4>1, <4>2, SoundFrame
    <3> QED
      BY <3>2, <3>3
  <2>5. CASE VerifyAssign(v)
    <3>1. /\ pc[v] = "assign" /\ Goto(v, "resize") /\ UNCHANGED watch
          /\ mem'[Home[v]].entries = view[v].read
          /\ \A p \in Proc \ {Home[v]} : mem'[p] = mem[p]
      BY <2>0, <2>5 DEF VerifyAssign, Loaded, TypeOK
    <3>2. Sound(view[v].read, cfgGen)
      BY <2>0, <3>1 DEF SoundInv
    <3>3. \A p \in Proc : Sound(mem'[p].entries, cfgGen')
      BY <2>0, <3>1, <3>2 DEF SoundInv
    <3>4. \A u \in Verifier \cup Inspector :
            pc'[u] \in {"assign", "resize", "inspect"} =>
              pc[u] \in {"assign", "resize", "inspect"}
      BY <2>2, <3>1
    <3> QED
      BY <2>0, <3>1, <3>3, <3>4 DEF SoundInv, NoForkReported
  <2>8. CASE VerifyResize(v)
    <3>1. \A p \in Proc : mem'[p].entries = mem[p].entries
      BY <2>0, <2>8 DEF VerifyResize, TypeOK, MemType
    <3>2. CASE Report(v, "plik")
      BY <1>0, <2>0, <2>1, <3>1, <3>2, SoundFrame
    <3>3. CASE Goto(v, "anchor") /\ UNCHANGED watch
      BY <1>0, <2>0, <2>2, <3>1, <3>3, SoundFrame
    <3> QED
      BY <2>8, <3>2, <3>3 DEF VerifyResize
  <2>6. CASE VerifyAnchor(v)
    <3>1. /\ mem' = mem /\ Goto(v, "check") /\ report' = report
          /\ \A u \in (Verifier \cup Inspector) \ {v} : view'[u] = view[u]
      BY <2>6 DEF VerifyAnchor, TypeOK
    <3> QED
      BY <1>0, <2>0, <2>2, <3>1, SoundFrame
  <2>7. CASE VerifyCheck(v)
    <3> DEFINE r == Finding(mem[Home[v]].entries, view[v].anchor, gen[Home[v]])
    <3>1. mem' = mem /\ Report(v, r) /\ pc[v] = "check"
      BY <2>7 DEF VerifyCheck
    <3>2. gen[Home[v]] = cfgGen
      BY <2>0, <3>1 DEF ProcessInv, Running
    <3>3. Sound(mem[Home[v]].entries, cfgGen)
      BY <2>0 DEF SoundInv
    <3>4. r # "lancuch"
      BY <3>2, <3>3, SoundReport
    <3> HIDE DEF r
    <3> QED
      BY <1>0, <2>0, <2>1, <3>1, <3>4, SoundFrame
  <2> QED
    BY <1>12, <2>3, <2>4, <2>5, <2>6, <2>7, <2>8 DEF VerifyStep
<1>13. ASSUME NEW v \in Inspector, InspectLoad(v) \/ InspectVerify(v) PROVE SoundInv'
  <2>0. /\ v \in Thread /\ v \in Verifier \cup Inspector
        /\ UNCHANGED <<file, cfgGen, mem>>
    BY <1>13 DEF Thread, InspectLoad, InspectVerify, quietV
  <2>1. ASSUME NEW r, Report(v, r), r # "lancuch" PROVE SoundInv'
    <3>1. /\ pc'[v] = "idle" /\ report'[v] = r
          /\ \A u \in (Verifier \cup Inspector) \ {v} :
               pc'[u] = pc[u] /\ view'[u] = view[u] /\ report'[u] = report[u]
      BY <2>0, <2>1 DEF Report, Goto, TypeOK, Thread
    <3> QED
      BY <1>0, <2>0, <2>1, <3>1, SoundFrame
  <2>2. CASE InspectVerify(v)
    <3>1. Sound(view[v].read, cfgGen)
      BY <2>0, <2>2 DEF InspectVerify, SoundInv
    <3> QED
      BY <2>1, <2>2, <3>1, SoundReport DEF InspectVerify
  <2>3. CASE InspectLoad(v) /\ ~Report(v, "plik")
    <3>1. /\ Goto(v, "inspect") /\ report' = report
          /\ view' = [view EXCEPT ![v].read = file]
      BY <2>3 DEF InspectLoad
    <3>2. /\ view'[v].read = file
          /\ \A u \in (Verifier \cup Inspector) \ {v} : view'[u] = view[u] /\ pc'[u] = pc[u]
      BY <2>0, <3>1 DEF TypeOK, ViewType, Goto, Thread
    <3> QED
      BY <1>0, <2>0, <3>1, <3>2, SoundFrame
  <2> QED
    BY <1>13, <2>1, <2>2, <2>3
<1> QED
  BY <1>2, <1>3, <1>4, <1>6, <1>7, <1>9, <1>10, <1>11, <1>12, <1>13
     DEF DStep, Step, RecordStep

----------------------------------------------------------------------------
(* The evidence of a lost tail, in blocking mode.                          *)

LEMMA EvidenceInit == DInit => EvidenceInv
BY DEF DInit, Init, EvidenceInv, NoAnchor

\* A step that leaves file and anchor alone, and takes nothing from a writer.
LEMMA EvidenceFrame ==
  ASSUME EvidenceInv, TypeOK, TypeOK', UNCHANGED <<file, torn, anchor, lost>>,
         \A p \in Writers :
           /\ boot'[p] \in {"marking", "up"} =>
                boot[p] \in {"marking", "up"} /\ Len(mem[p].entries) <= Len(mem'[p].entries)
           /\ boot'[p] = "loaded" => boot[p] = "loaded" /\ mem'[p] = mem[p],
         lost = {} \/ \A t \in Recorder : pc'[t] \in Placed => pc[t] \in Placed
  PROVE  EvidenceInv'
<1>1. ASSUME NEW p \in Writers, boot'[p] \in {"marking", "up"}, lost # {}
      PROVE  Len(file) < Len(mem'[p].entries)
  <2>1. Len(file) < Len(mem[p].entries) /\ Len(mem[p].entries) <= Len(mem'[p].entries)
    BY <1>1 DEF EvidenceInv
  <2>2. Len(mem[p].entries) \in Nat /\ Len(mem'[p].entries) \in Nat /\ Len(file) \in Nat
    BY HomesOfWriters DEF TypeOK, MemType
  <2> QED
    BY <2>1, <2>2
<1> QED
  BY <1>1 DEF EvidenceInv

LEMMA EvidenceStep ==
  ASSUME TypeOK, TypeOK', Blocking = TRUE, LockInv, ProcessInv, KeptInv, SizeInv,
         WriterInv, Apart, EvidenceInv, DStep, ~Overtaken
  PROVE  EvidenceInv'
<1> USE HomesOfWriters DEF disk, locks, procs, watch, quietV
<1>0. /\ \A p \in Writers : KeptOf(p)
      /\ \A p \in Proc : mem[p] \in MemType /\ mem[p].entries \in Seq(Entry)
      /\ \A p \in Proc : Len(mem[p].entries) \in Nat
      /\ file \in Seq(Entry) /\ anchor.n \in Nat /\ Len(file) \in Nat
      /\ lost' = lost
  BY DEF KeptInv, TypeOK, MemType, Anchor, DStep
<1>1. ASSUME NEW t \in Recorder, pc[t] \in Placed PROVE lost = {}
  BY <1>1 DEF EvidenceInv
<1>2. ASSUME lost = {}, anchor'.n > 0 => file' # <<>> PROVE EvidenceInv'
  BY <1>0, <1>2 DEF EvidenceInv
<1>3. ASSUME UNCHANGED <<file, torn, anchor, boot, mem>>,
             \A u \in Recorder : pc'[u] \in Placed => pc[u] \in Placed
      PROVE  EvidenceInv'
  BY <1>0, <1>3, EvidenceFrame
\* The start of a process.
<1>4. ASSUME NEW p \in Proc, Load(p) PROVE EvidenceInv'
  <2>1. /\ UNCHANGED <<file, torn, anchor, pc>>
        /\ boot'[p] \in {"refused", "loaded"}
        /\ boot'[p] = "loaded" => mem'[p].entries = file
        /\ \A q \in Proc \ {p} : boot'[q] = boot[q] /\ mem'[q] = mem[q]
    BY <1>4 DEF Load, Loaded, TypeOK
  <2>2. lost # {} => file # <<>>
    BY <1>0 DEF EvidenceInv
  <2> QED
    BY <1>0, <2>1, <2>2 DEF EvidenceInv
<1>5. ASSUME NEW p \in Proc, Check(p) PROVE EvidenceInv'
  <2> DEFINE m == IF mem[p].entries = <<>> THEN mem[p] ELSE Refreshed(mem[p])
  <2>1. /\ UNCHANGED <<file, torn, anchor, pc>>
        /\ boot[p] = "loaded" /\ boot'[p] \in {"refused", "marking", "up"}
        /\ mem'[p] = m
        /\ \A q \in Proc \ {p} : boot'[q] = boot[q] /\ mem'[q] = mem[q]
    BY <1>5 DEF Check, TypeOK
  <2>2. ASSUME boot'[p] \in {"marking", "up"}, p \in Writers, lost # {}
        PROVE  Len(file) < Len(m.entries)
    <3>1. mem[p].entries # <<>>
      BY <2>1, <2>2 DEF EvidenceInv
    <3>2. Finding(m.entries, anchor, gen[p]) = "ok"
      BY <1>5, <2>2, <3>1 DEF Check, TypeOK
    <3>3. Complete(m.entries, anchor)
      BY <3>2 DEF Finding
    <3>4. Len(m.entries) \in Nat
      BY <1>0, <3>1, LoadedType DEF Refreshed, MemType
    <3>5. Len(file) < anchor.n
      BY <2>2 DEF EvidenceInv
    <3> HIDE DEF m
    <3> QED
      BY <1>0, <3>3, <3>4, <3>5 DEF Complete
  <2> HIDE DEF m
  <2> QED
    BY <1>0, <2>1, <2>2 DEF EvidenceInv
<1>6. ASSUME NEW p \in Proc, BootTimeout(p) \/ Crash(p) PROVE EvidenceInv'
  <2>1. /\ UNCHANGED <<file, torn, anchor>>
        /\ boot'[p] = "down"
        /\ \A q \in Proc \ {p} : boot'[q] = boot[q] /\ mem'[q] = mem[q]
    BY <1>6 DEF BootTimeout, Crash, TypeOK
  <2>2. \A t \in Recorder : pc'[t] \in Placed => pc[t] \in Placed
    BY <1>6, Homes DEF BootTimeout, Crash, Stopped, Placed, TypeOK
  <2> QED
    BY <1>0, <2>1, <2>2, EvidenceFrame
<1>7. CASE RotateKey
  BY <1>3, <1>7 DEF RotateKey
\* The writers.
<1>8. ASSUME NEW t \in Recorder, Begin(t) \/ TakeFileLock(t) PROVE EvidenceInv'
  <2>1. \A u \in Recorder : pc'[u] \in Placed => pc[u] \in Placed
    BY <1>8, Homes DEF Begin, TakeFileLock, Goto, Placed, TypeOK
  <2> QED
    BY <1>3, <1>8, <2>1 DEF Begin, TakeFileLock
<1>9. ASSUME NEW t \in Recorder, NEW m, Fail(t, m), pc[t] # "idle",
             UNCHANGED <<file, torn, anchor>>,
             Len(mem[Home[t]].entries) <= Len(m.entries)
      PROVE  EvidenceInv'
  <2>1. /\ \/ boot'[Home[t]] = "down"
           \/ boot'[Home[t]] = boot[Home[t]] /\ mem'[Home[t]] = m
        /\ \A q \in Proc \ {Home[t]} : boot'[q] = boot[q] /\ mem'[q] = mem[q]
    BY <1>9 DEF Fail, TypeOK
  <2>2. \A u \in Recorder : pc'[u] \in Placed => pc[u] \in Placed
    BY <1>9 DEF Fail, Release, Goto, Placed, TypeOK
  <2>3. boot[Home[t]] \in {"marking", "up"}
    BY <1>9 DEF LockInv
  <2>4. ASSUME NEW p \in Writers
        PROVE  /\ boot'[p] \in {"marking", "up"} =>
                    /\ boot[p] \in {"marking", "up"}
                    /\ Len(mem[p].entries) <= Len(mem'[p].entries)
               /\ boot'[p] = "loaded" => boot[p] = "loaded" /\ mem'[p] = mem[p]
    BY <1>0, <1>9, <2>1, <2>3
  <2> QED
    BY <1>0, <1>9, <2>2, <2>4, EvidenceFrame
<1>10. ASSUME NEW t \in Recorder, LockTimeout(t) \/ BuildFails(t) PROVE EvidenceInv'
  <2>1. UNCHANGED <<file, torn, anchor>> /\ Fail(t, mem[Home[t]]) /\ pc[t] # "idle"
    BY <1>10 DEF LockTimeout, BuildFails
  <2> QED
    BY <1>0, <1>9, <2>1
<1>11. ASSUME NEW t \in Recorder, Refresh(t) PROVE EvidenceInv'
  <2> DEFINE m == mem[Home[t]]
  <2>1. /\ UNCHANGED <<file, torn, anchor>> /\ pc[t] = "refresh"
        /\ boot[Home[t]] \in {"marking", "up"}
    BY <1>11 DEF Refresh, LockInv
  <2>2. m.size = Len(m.entries)
    <3>1. Replacing(Home[t]) = {}
      BY <2>1 DEF Apart, Critical
    <3> QED
      BY <3>1, KnowsSize
  <2>3. Len(m.entries) <= Len(Refreshed(m).entries)
    BY <1>0, <2>2, RefreshGrows DEF IsPrefixOf
  <2>4. CASE Fail(t, Refreshed(m))
    BY <1>9, <2>1, <2>3, <2>4
  <2>5. CASE ~Fail(t, Refreshed(m))
    <3>1. RefreshReturns(m)
      BY <1>11, <2>5 DEF Refresh
    <3>2. lost = {}
      <4>1. lost # {} => Len(file) < Len(m.entries)
        BY <2>1 DEF EvidenceInv
      <4>2. Refreshed(m).entries = file
        BY <1>0, <2>2, <3>1, RefreshKnows
      <4> QED
        BY <1>0, <2>3, <4>1, <4>2
    <3> QED
      BY <1>2, <2>1, <3>2 DEF EvidenceInv
  <2> QED
    BY <2>4, <2>5
<1>12. ASSUME NEW t \in Recorder, Build(t) \/ Write(t) \/ WriteFails(t) \/ Commit(t)
       PROVE  EvidenceInv'
  <2>1. /\ pc[t] \in Placed /\ UNCHANGED anchor
        /\ file' \in {file, Append(file, draft[t])}
    BY <1>12 DEF Build, Write, WriteFails, Commit, Placed
  <2>2. file # <<>> => file' # <<>>
    BY <1>0, <2>1
  <2> QED
    BY <1>1, <1>2, <2>1, <2>2 DEF EvidenceInv
<1>13. ASSUME NEW t \in Recorder, WriteAnchor(t) PROVE EvidenceInv'
  <2>1. /\ pc[t] = "anchor" /\ UNCHANGED file
        /\ anchor' \in {anchor, NewAnchor(mem[Home[t]])}
    BY <1>13 DEF WriteAnchor
  <2>2. mem[Home[t]].entries = file
    BY <2>1 DEF WriterInv, WriterOf
  <2>3. anchor'.n > 0 => file' # <<>>
    BY <1>0, <2>1, <2>2 DEF EvidenceInv, NewAnchor
  <2> QED
    BY <1>1, <1>2, <2>1, <2>3 DEF Placed
\* The others.
<1>14. ASSUME NEW v \in Verifier, VerifyStep(v) PROVE EvidenceInv'
  <2>1. UNCHANGED <<file, torn, anchor, boot>> /\ \A u \in Recorder : pc'[u] = pc[u]
    <3>1. \A l : Goto(v, l) => \A u \in Recorder : pc'[u] = pc[u]
      BY GotoThread, Homes DEF Thread
    <3> QED
      BY <1>14, <3>1 DEF VerifyStep, VerifyStat, VerifyRead, VerifyAssign, VerifyResize,
         VerifyAnchor, VerifyCheck, Report
  <2>2. /\ boot[Home[v]] = "up" /\ \A q \in Proc \ {Home[v]} : mem'[q] = mem[q]
    BY <1>14 DEF VerifyStep, VerifyStat, VerifyRead, VerifyAssign, VerifyResize,
       VerifyAnchor, VerifyCheck, ProcessInv, TypeOK
  <2>3. ASSUME Home[v] \in Writers
        PROVE  Len(mem[Home[v]].entries) <= Len(mem'[Home[v]].entries)
    <3>1. CASE VerifyAssign(v)
      <4>1. /\ pc[v] = "assign" /\ pc'[v] = "resize"
            /\ mem'[Home[v]].entries = view[v].read
        BY <3>1, GotoThread DEF VerifyAssign, Loaded, TypeOK
      <4>2. IsPrefixOf(mem[Home[v]].entries, view[v].read)
        BY <2>3, <4>1 DEF Overtaken, Stale
      <4> QED
        BY <4>1, <4>2 DEF IsPrefixOf
    <3>2. CASE ~VerifyAssign(v)
      <4>1. mem'[Home[v]].entries = mem[Home[v]].entries
        <5>1. CASE VerifyResize(v)
          BY <1>0, <5>1 DEF VerifyResize, TypeOK, MemType
        <5>2. CASE mem' = mem
          BY <5>2
        <5> QED
          BY <1>14, <3>2, <5>1, <5>2 DEF VerifyStep, VerifyStat, VerifyRead,
             VerifyAnchor, VerifyCheck
      <4> QED
        BY <1>0, <4>1
    <3> QED
      BY <3>1, <3>2
  <2>4. ASSUME NEW p \in Writers
        PROVE  /\ boot'[p] \in {"marking", "up"} =>
                    /\ boot[p] \in {"marking", "up"}
                    /\ Len(mem[p].entries) <= Len(mem'[p].entries)
               /\ boot'[p] = "loaded" => boot[p] = "loaded" /\ mem'[p] = mem[p]
    <3>1. CASE p = Home[v]
      BY <2>1, <2>2, <2>3, <3>1
    <3>2. CASE p # Home[v]
      BY <1>0, <2>1, <2>2, <3>2
    <3> QED
      BY <3>1, <3>2
  <2> QED
    BY <1>0, <2>1, <2>4, EvidenceFrame
<1>15. ASSUME NEW v \in Inspector, InspectLoad(v) \/ InspectVerify(v) PROVE EvidenceInv'
  <2>1. \A u \in Recorder : pc'[u] = pc[u]
    BY <1>15, GotoThread, Homes DEF InspectLoad, InspectVerify, Report, Thread
  <2> QED
    BY <1>3, <1>15, <2>1 DEF InspectLoad, InspectVerify
<1> QED
  BY <1>4, <1>5, <1>6, <1>7, <1>8, <1>10, <1>11, <1>12, <1>13, <1>14, <1>15
     DEF DStep, Step, RecordStep

----------------------------------------------------------------------------
(* The changes from outside.                                               *)

LEMMA DisturbFrame ==
  ASSUME TypeOK, LockInv, NEW kind, NEW es \in Seq(Entry), Disturb(kind, es)
  PROVE  /\ file' = es /\ torn' = FALSE /\ Len(es) \in Nat
         /\ UNCHANGED <<anchor, boot, gen, mem, lock, flock, pc, view, report,
                        cfgGen, own>>
         /\ \A t \in Recorder : pc[t] \notin Critical
         /\ LockInv' /\ (Apart => Apart')
<1> USE DEF locks, procs, watch
<1>1. \A t \in Recorder : pc[t] \notin Critical
  BY ThreadAssumption DEF Disturb, LockInv, Thread
<1> QED
  BY <1>1 DEF Disturb, LockInv, Apart, Replacing

LEMMA DisturbType ==
  ASSUME TypeOK, NEW kind, NEW es \in Seq(Entry), Disturb(kind, es), minted' \in Hash
  PROVE  TypeOK'
<1> USE DEF locks, procs, watch
<1>0. Len(es) \in Nat
  OBVIOUS
<1>1. file' = es /\ torn' = FALSE /\ synced' \in Nat /\ glue' \in 0..Len(es)
  BY <1>0 DEF Disturb, TypeOK
<1>2. /\ UNCHANGED <<anchor, anchorOld, locks, procs, pc, draft, watch, cfgGen, acked>>
  BY DEF Disturb
<1> QED
  BY <1>1, <1>2 DEF TypeOK

LEMMA DisturbProcess ==
  ASSUME ProcessInv, UNCHANGED <<boot, gen, mem, pc, cfgGen, own>>
  PROVE  ProcessInv'
BY DEF ProcessInv

\* A file that only loses its end stays on the history of the writers.
LEMMA CutHistory ==
  ASSUME TypeOK, LockInv, HistoryInv, NEW kind, NEW es \in Seq(Entry),
         Disturb(kind, es), IsPrefixOf(es, file), Sound(es, cfgGen)
  PROVE  HistoryInv'
<1>1. /\ file' = es /\ torn' = FALSE
      /\ UNCHANGED <<mem, pc, view, report, cfgGen, own>>
      /\ \A t \in Recorder : pc[t] \notin Critical
  BY DisturbFrame
<1>2. ASSUME NEW p \in Writers PROVE KeptOf(p)'
  <2> DEFINE m == mem[p].entries
  <2>1. m \in Seq(Entry) /\ file \in Seq(Entry)
    BY HomesOfWriters DEF TypeOK, MemType
  <2>2. IsPrefixOf(m, file) \/ IsPrefixOf(file, m)
    BY DEF HistoryInv, KeptInv, KeptOf, OneHistory
  <2>3. IsPrefixOf(m, es) \/ IsPrefixOf(es, m)
    <3> HIDE DEF m
    <3> QED
      BY <2>1, <2>2, PrefixesCompare, PrefixTransitive
  <2>4. own[p] \subseteq Hashes(m) /\ mem[p].last = HeadHash(m)
    BY DEF HistoryInv, KeptInv, KeptOf
  <2> QED
    BY <1>1, <2>3, <2>4 DEF KeptOf, OneHistory
<1>3. WriterInv'
  BY <1>1, WriterFrame DEF HistoryInv, WriterInv, Placed, Critical
<1>4. SoundInv'
  BY <1>1 DEF HistoryInv, SoundInv, NoForkReported
<1>5. SizeInv'
  BY <1>1 DEF HistoryInv, SizeInv, SizeOf, Replacing
<1> QED
  BY <1>2, <1>3, <1>4, <1>5 DEF HistoryInv, KeptInv

LEMMA LoseTailStep ==
  ASSUME DisturbedInv, LoseTail PROVE DisturbedInv'
<1>1. PICK n \in 1..Len(file) : Disturb("tail", SubSeq(file, 1, n))
  BY DEF LoseTail
<1> DEFINE es == SubSeq(file, 1, n)
<1>2. TypeOK /\ LockInv /\ ProcessInv /\ file \in Seq(Entry)
      /\ minted \in Hash /\ cfgGen \in Gen /\ anchor.n \in Nat
  BY DEF DisturbedInv, TypeOK, Anchor
<1>3. /\ es \in Seq(Entry) /\ Len(es) = n
      /\ \A i \in 1..n : es[i] = file[i]
  BY <1>2
<1>4. IsPrefixOf(es, file)
  BY <1>2, <1>3 DEF IsPrefixOf
<1> HIDE DEF es
<1>5. Disturb("tail", es)
  BY <1>1 DEF es
<1>6. /\ file' = es /\ torn' = FALSE
      /\ UNCHANGED <<anchor, boot, gen, mem, pc, cfgGen, own>>
      /\ \A t \in Recorder : pc[t] \notin Critical
      /\ LockInv' /\ (Apart => Apart')
  BY <1>2, <1>3, <1>5, DisturbFrame
<1>7. TypeOK'
  BY <1>2, <1>3, <1>5, DisturbType DEF LoseTail
<1>8. ProcessInv'
  BY <1>2, <1>6, DisturbProcess
<1>9. /\ disturbed' = disturbed \cup {"tail"}
      /\ slips' = slips \cup (IF Behind(es) THEN {"behind"} ELSE {})
  BY <1>5 DEF Disturb
<1>10. ASSUME "rewrite" \notin disturbed, slips \subseteq {"behind"} PROVE HistoryInv'
  <2>1. HistoryInv
    BY <1>10 DEF DisturbedInv
  <2>2. Sound(file, cfgGen)
    BY <2>1 DEF HistoryInv, SoundInv
  <2>3. Sound(es, cfgGen)
    BY <1>2, <2>2, SoundSubSeq DEF es
  <2> QED
    BY <1>2, <1>3, <1>4, <1>5, <2>1, <2>3, CutHistory
<1>11. ASSUME EvidenceInv, ~Behind(es) PROVE EvidenceInv'
  <2>1. file' # <<>> /\ \A t \in Recorder : pc'[t] \notin Placed
    BY <1>3, <1>6 DEF Placed, Critical
  <2>2. \A p \in Writers : Len(mem[p].entries) \in Nat
    BY HomesOfWriters, <1>2 DEF TypeOK, MemType
  <2>3. CASE lost # {}
    BY <1>2, <1>3, <1>6, <1>11, <2>1, <2>2, <2>3 DEF EvidenceInv
  <2>4. CASE lost = {} /\ lost' # {}
    <3>1. PICK j \in Taken(es) : TRUE
      BY <1>5, <2>4 DEF Disturb
    <3>2. j \in 1..Len(file) /\ j <= anchor.n /\ ~(j <= n)
      BY <1>3, <3>1 DEF Taken
    <3>3. \A p \in Writers : boot[p] \in Running => j <= Len(mem[p].entries)
      BY <1>11, <2>2, <3>1, <3>2 DEF Behind, Running
    <3>4. \A p \in Writers : boot[p] = "loaded" => mem[p].entries # <<>>
      BY <2>2, <3>2, <3>3 DEF Running
    <3> QED
      BY <1>2, <1>3, <1>6, <2>1, <2>2, <3>2, <3>3, <3>4 DEF EvidenceInv, Running
  <2>5. CASE lost' = {}
    BY <1>6, <2>1, <2>5 DEF EvidenceInv
  <2> QED
    BY <2>3, <2>4, <2>5
<1> QED
  BY <1>6, <1>7, <1>8, <1>9, <1>10, <1>11 DEF DisturbedInv

LEMMA RotateAwayStep ==
  ASSUME DisturbedInv, RotateAway PROVE DisturbedInv'
<1>1. TypeOK /\ LockInv /\ ProcessInv /\ file \in Seq(Entry) /\ <<>> \in Seq(Entry)
      /\ minted \in Hash
  BY DEF DisturbedInv, TypeOK
<1>2. Disturb("rotate", <<>>) /\ minted' = minted
  BY DEF RotateAway
<1>3. UNCHANGED <<boot, gen, mem, pc, cfgGen, own>> /\ LockInv' /\ (Apart => Apart')
  BY <1>1, <1>2, DisturbFrame
<1>4. TypeOK' /\ ProcessInv'
  BY <1>1, <1>2, <1>3, DisturbType, DisturbProcess
<1>5. disturbed' = disturbed \cup {"rotate"} /\ slips \subseteq slips'
  BY <1>2 DEF Disturb
<1>6. "rewrite" \notin disturbed /\ slips \subseteq {"behind"} => HistoryInv'
  BY <1>1, <1>2, EmptyPrefix, SoundEmpty, CutHistory DEF DisturbedInv
<1> QED
  BY <1>3, <1>4, <1>5, <1>6 DEF DisturbedInv

LEMMA RewriteStep ==
  ASSUME DisturbedInv, Rewrite PROVE DisturbedInv'
<1>1. TypeOK /\ LockInv /\ ProcessInv /\ file \in Seq(Entry) /\ minted \in Hash
      /\ file # <<>>
  BY DEF DisturbedInv, TypeOK, Rewrite
<1> DEFINE Before(n) == HeadHash(SubSeq(file, 1, n))
           Other(n, k) == [i \in 1..k |->
             [hash |-> minted + i,
              prev |-> IF i = 1 THEN Before(n) ELSE minted + i - 1,
              gen  |-> file[Len(file)].gen]]
<1>2. PICK n \in 0..Len(file) - 1, k \in 1..MaxEntries - minted :
        /\ Disturb("rewrite", SubSeq(file, 1, n) \o Other(n, k))
        /\ minted' = minted + k
  BY DEF Rewrite
<1>3. SubSeq(file, 1, n) \in Seq(Entry) /\ Before(n) \in Hash
  <2>1. SubSeq(file, 1, n) \in Seq(Entry)
    BY <1>1
  <2> QED
    BY <2>1, HeadHashType
<1>4. Other(n, k) \in Seq(Entry)
  <2>1. file[Len(file)] \in Entry
    BY <1>1
  <2>2. ASSUME NEW i \in 1..k PROVE Other(n, k)[i] \in Entry
    <3> DEFINE h == Before(n)
    <3>1. h \in Hash
      BY <1>3
    <3> HIDE DEF h
    <3>2. Other(n, k)[i] = [hash |-> minted + i,
                            prev |-> IF i = 1 THEN h ELSE minted + i - 1,
                            gen  |-> file[Len(file)].gen]
      BY <2>2 DEF h
    <3>3. minted + i \in Hash /\ (i # 1 => minted + i - 1 \in Hash)
      BY <1>1, <2>2, BoundAssumption DEF Hash
    <3> QED
      BY <2>1, <3>1, <3>2, <3>3 DEF Entry
  <2>3. k \in Nat
    OBVIOUS
  <2>4. Other(n, k) \in [1..k -> Entry]
    BY <2>2
  <2> QED
    BY <2>3, <2>4
<1> DEFINE es == SubSeq(file, 1, n) \o Other(n, k)
<1>5. es \in Seq(Entry)
  BY <1>3, <1>4
<1> HIDE DEF Before, Other
<1>6. Disturb("rewrite", es)
  BY <1>2
<1> HIDE DEF es
<1>7. UNCHANGED <<boot, gen, mem, pc, cfgGen, own>> /\ LockInv' /\ (Apart => Apart')
  BY <1>1, <1>5, <1>6, DisturbFrame
<1>8. minted' \in Hash
  BY <1>1, <1>2, BoundAssumption DEF Hash
<1>9. TypeOK' /\ ProcessInv'
  BY <1>1, <1>5, <1>6, <1>7, <1>8, DisturbType, DisturbProcess
<1>10. "rewrite" \in disturbed' /\ slips \subseteq slips'
  BY <1>6 DEF Disturb
<1> QED
  BY <1>7, <1>9, <1>10 DEF DisturbedInv

LEMMA DisturbedStep == DisturbedInv /\ [DNext]_dvars => DisturbedInv'
<1> SUFFICES ASSUME DisturbedInv, [DNext]_dvars PROVE DisturbedInv'
  OBVIOUS
<1>1. CASE DStep
  <2>1. TypeOK /\ LockInv /\ ProcessInv /\ [Next]_vars
    BY <1>1 DEF DisturbedInv, DStep, Next
  <2>2. TypeOK' /\ LockInv' /\ ProcessInv'
    BY <1>1, <2>1, NextType, LockStep, ProcessStep
  <2>3. /\ disturbed' = disturbed /\ slips \subseteq slips'
        /\ "overtaken" \notin slips' => ~Overtaken
        /\ "refilled" \notin slips' => ~Refilled
    BY <1>1 DEF DStep
  <2>4. "overtaken" \notin slips' => Apart /\ Apart'
    BY <2>3 DEF DisturbedInv, Overtaken
  <2>5. ASSUME "rewrite" \notin disturbed, slips' \subseteq {"behind"} PROVE HistoryInv'
    <3>1. ~Overtaken /\ ~Refilled /\ Apart /\ Apart' /\ HistoryInv
      BY <2>3, <2>4, <2>5 DEF DisturbedInv
    <3>2. SizeInv'
      <4>1. ASSUME NEW t \in Recorder, pc[t] = "commit"
            PROVE  ~torn /\ Len(mem[Home[t]].entries) + 1 = Len(file)
        <5>1. ~torn /\ file = Append(mem[Home[t]].entries, draft[t])
          BY <3>1, <4>1 DEF HistoryInv, WriterInv, WriterOf
        <5>2. mem[Home[t]].entries \in Seq(Entry)
          BY <2>1, Homes DEF TypeOK, MemType
        <5> QED
          BY <5>1, <5>2
      <4>2. \A v \in Verifier : pc[v] # "idle" => boot[Home[v]] = "up"
        BY <2>1 DEF ProcessInv
      <4>3. SizeInv
        BY <3>1 DEF HistoryInv
      <4> QED
        BY <2>1, <3>1, <4>1, <4>2, <4>3, SizeStep
    <3> QED
      BY <1>1, <2>1, <2>2, <3>1, <3>2, KeptStep, WriterStep, SoundStep DEF HistoryInv
  <2>6. ASSUME Blocking, disturbed \subseteq {"tail"}, slips' = {} PROVE EvidenceInv'
    <3>1. KeptInv /\ SizeInv /\ WriterInv /\ EvidenceInv /\ Apart /\ ~Overtaken
      BY <2>3, <2>4, <2>6 DEF DisturbedInv, HistoryInv
    <3>2. Blocking = TRUE
      BY <2>6, SwitchAssumption
    <3> QED
      BY <1>1, <2>1, <2>2, <3>1, <3>2, EvidenceStep
  <2> QED
    BY <2>2, <2>3, <2>4, <2>5, <2>6 DEF DisturbedInv
<1>2. CASE UNCHANGED dvars
  <2>1. UNCHANGED <<vars, own, lost, disturbed, slips>>
    BY <1>2 DEF dvars
  <2>2. TypeOK' /\ LockInv' /\ ProcessInv' /\ (Apart => Apart')
    BY <2>1 DEF vars, disk, locks, procs, watch, DisturbedInv, TypeOK, LockInv,
       ProcessInv, Apart, Replacing
  <2>3. HistoryInv => HistoryInv'
    BY <2>1 DEF vars, disk, locks, procs, watch, HistoryInv, KeptInv, KeptOf, OneHistory,
       SizeInv, SizeOf, Replacing, WriterInv, WriterOf, SoundInv, NoForkReported
  <2>4. EvidenceInv => EvidenceInv'
    BY <2>1 DEF vars, disk, locks, procs, watch, EvidenceInv
  <2> QED
    BY <2>1, <2>2, <2>3, <2>4 DEF DisturbedInv
<1> QED
  BY <1>1, <1>2, LoseTailStep, RotateAwayStep, RewriteStep DEF DNext

\* However many processes record and verify, everything that the refusals of a
\* damaged log rest on holds, whatever is cut off, moved away or put in place from
\* outside, until one of the races that slips names has happened.
THEOREM DisturbedSafety == DSpec => []DisturbedInv
<1>1. DInit => DisturbedInv
  <2> SUFFICES ASSUME DInit PROVE DisturbedInv
    OBVIOUS
  <2>1. Init /\ (\A v \in Verifier : pc[v] = "idle")
    BY HomesOfWriters DEF DInit, Init
  <2>2. Apart
    BY <2>1, Homes DEF Apart, Replacing, Critical, Placed, Init
  <2> QED
    BY <2>1, <2>2, InitType, InitLock, InitSize, ProcessInit, KeptInit, WriterInit,
       SoundInit, EvidenceInit DEF DisturbedInv, HistoryInv
<1>2. DisturbedInv /\ [DNext]_dvars => DisturbedInv'
  BY DisturbedStep
<1> QED
  BY <1>1, <1>2, PTL DEF DSpec

\* ... so a process never appends to what is left of a file that has lost entries
\* which it recorded itself, with other writers about and a verify() of its own.
THEOREM LossIsRefused == DSpec => []LossRefused
<1>1. DisturbedInv => LossRefused
  <2> SUFFICES ASSUME DisturbedInv, "rewrite" \notin disturbed, slips \subseteq {"behind"},
                      NEW t \in Recorder, pc[t] \in {"write", "commit", "anchor"}
               PROVE  own[Home[t]] \subseteq Hashes(file)
    BY DEF LossRefused, OwnEntriesKept
  <2> DEFINE es == mem[Home[t]].entries
  <2>1. /\ own[Home[t]] \subseteq Hashes(es) /\ WriterOf(t)
        /\ es \in Seq(Entry) /\ file \in Seq(Entry) /\ draft[t] \in Entry
    BY HomesOfWriters DEF DisturbedInv, HistoryInv, KeptInv, KeptOf, WriterInv,
       TypeOK, MemType
  <2>2. es = file \/ file = Append(es, draft[t])
    BY <2>1 DEF WriterOf
  <2> HIDE DEF es
  <2>3. IsPrefixOf(es, file)
    BY <2>1, <2>2 DEF IsPrefixOf
  <2> QED
    BY <2>1, <2>3, HashesGrow
<1> QED
  BY <1>1, DisturbedSafety, PTL

\* ... in blocking mode a lost tail that the anchor covered, and every running
\* writer had seen, is never made good: no later record, restart or verification
\* brings the log and its anchor to agree again.
THEOREM EvidenceIsKept == DSpec => []EvidenceKept
<1>1. DisturbedInv => EvidenceKept
  <2> SUFFICES ASSUME DisturbedInv, Blocking, disturbed \subseteq {"tail"}, slips = {},
                      lost # {}
               PROVE  ~Complete(file, anchor)
    BY DEF EvidenceKept
  <2>1. Len(file) < anchor.n /\ Len(file) \in Nat /\ anchor.n \in Nat
    BY DEF DisturbedInv, EvidenceInv, TypeOK, Anchor
  <2> QED
    BY <2>1 DEF Complete
<1> QED
  BY <1>1, DisturbedSafety, PTL

\* ... and no verification, not even one of a process that records, takes a loss, a
\* rotation of the file or a record in progress for a fork of the chain.
THEOREM ForkIsRewrite == DSpec => []ForkMeansRewrite
<1>1. DisturbedInv => ForkMeansRewrite
  BY DEF DisturbedInv, HistoryInv, SoundInv, ForkMeansRewrite
<1> QED
  BY <1>1, DisturbedSafety, PTL

=============================================================================
