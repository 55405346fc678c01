----------------------------- MODULE AuditLog -----------------------------
(***************************************************************************)
(* The hash-chained audit log of security/audit.py: several processes      *)
(* append to one JSONL file, each under a thread lock (one per process)    *)
(* and an inter-process file lock, and keep a copy of the log in memory.   *)
(* A second file, the anchor, holds the number of entries and the hash of  *)
(* the last one.  verify() takes neither lock.                             *)
(*                                                                         *)
(* The hash of an entry is abstracted to its identity: two entries have    *)
(* the same hash only if they are the same entry.  An entry's text, its    *)
(* actor and its detail are left out.  A line cut short makes the file     *)
(* unreadable ("torn"); one that lacks only its newline does so as soon as *)
(* another line is glued to it ("glue").                                   *)
(*                                                                         *)
(* A step is what CPython's interpreter does without letting another       *)
(* thread in: it switches threads at calls and at jumps back, never        *)
(* between two plain assignments.                                          *)
(***************************************************************************)
EXTENDS Naturals, Sequences, FiniteSets

CONSTANTS
  Proc,        \* the operating-system processes that share the log
  Recorder,    \* threads that call AuditLog.record
  Verifier,    \* threads that call AuditLog.verify on a live log (GET /api/audit)
  Inspector,   \* runs of "husarz audit verify", each a process of its own
  Home,        \* the process of each recorder and verifier
  Responsive,  \* the processes that are scheduled (the others may hang)
  Blocking,    \* security.audit.wymusza_integralnosc
  MaxEntries,  \* bound on the entries minted
  MaxGen,      \* bound on the rotations of the HMAC key
  None         \* no thread

Thread == Recorder \cup Verifier \cup Inspector

ASSUME ThreadAssumption ==
  /\ Recorder \cap Verifier = {}
  /\ Inspector \cap (Recorder \cup Verifier) = {}
  /\ Home \in [Recorder \cup Verifier -> Proc]
  /\ None \notin Thread
ASSUME BoundAssumption ==
  /\ MaxEntries \in Nat
  /\ MaxGen \in Nat
ASSUME SwitchAssumption ==
  /\ Blocking \in BOOLEAN
  /\ Responsive \subseteq Proc

VARIABLES
  \* the disk, as the processes see it, and what of it a power failure spares
  file,       \* the complete lines of the log
  torn,       \* whether an incomplete line follows them
  glue,       \* the first line that lacks only its newline, 0 if none does
  synced,     \* how many lines have been forced to the medium
  anchor,     \* the anchor file; n = 0 when there is none
  anchorOld,  \* the anchor that the last replace() replaced
  \* the locks
  flock,      \* the recorder holding the file lock
  lock,       \* lock[p]: the recorder of p holding AuditLog._lock
  \* the processes
  boot,       \* how far build_audit_log has come in p
  gen,        \* the key generation p was started with
  mem,        \* mem[p]: the AuditLog object of p
  \* the threads
  pc, draft, view, report,
  \* the operator's configuration
  cfgGen,     \* the current key generation in the configuration
  \* history
  minted,     \* the number of hashes handed out
  acked       \* the hashes of the entries record() has returned

disk == <<file, torn, glue, synced, anchor, anchorOld>>
locks == <<flock, lock>>
procs == <<boot, gen, mem>>
watch == <<view, report>>
vars == <<disk, locks, procs, pc, draft, watch, cfgGen, minted, acked>>

Genesis == 0
Hash == 0..MaxEntries
Gen == 0..MaxGen
Entry == [hash : Hash, prev : Hash, gen : Gen]
Anchor == [n : Nat, h : Hash]
NoAnchor == [n |-> 0, h |-> Genesis]
NoEntry == [hash |-> Genesis, prev |-> Genesis, gen |-> 0]

----------------------------------------------------------------------------
(* A log in memory and what the code asks of it.                           *)

HeadHash(es) == IF es = <<>> THEN Genesis ELSE es[Len(es)].hash
Hashes(es) == {es[i].hash : i \in DOMAIN es}

\* AuditLog(path): nothing read yet.
EmptyLog == [entries |-> <<>>, last |-> Genesis, size |-> 0]

\* Bug: the head is not restored, so the next entry starts a second chain.
LoadedWithoutHead(es) ==
  [entries |-> es, last |-> Genesis, size |-> Len(es)]

\* _wczytaj: the whole file replaces what was in memory.
Loaded(es) == [entries |-> es, last |-> HeadHash(es), size |-> Len(es)]

\* The size of the file in lines; an incomplete line counts.
FileSize == Len(file) + (IF torn THEN 1 ELSE 0)

\* Every line that is there can be parsed: none is cut short, and none is glued
\* to the one that follows it.
Readable == ~torn /\ glue \in {0, Len(file)}

\* Bug: record() goes on with the head its process knew before.
RefreshedNever(m) == m

\* _odswiez_z_pliku: the state it leaves, and whether it returns.  The new
\* state is in place before the old head is looked for in it.
Refreshed(m) == IF FileSize > m.size /\ Readable THEN Loaded(file) ELSE m

KeepsHead(head, es) == head = Genesis \/ head \in Hashes(es)

\* Bug: a file that has shrunk is taken for one without news.
RefreshReturnsOnShrink(m) ==
  FileSize <= m.size \/ (Readable /\ KeepsHead(m.last, file))

RefreshReturns(m) ==
  \/ FileSize = m.size
  \/ FileSize > m.size /\ Readable /\ KeepsHead(m.last, file)

\* _kompletny_wobec_kotwicy, for entries es and an anchor a already read.
Complete(es, a) ==
  \/ a.n = 0
  \/ Len(es) >= a.n /\ es[a.n].hash = a.h

\* The loop of pierwsza_niezgodnosc: links, known generations, generations
\* that never go back.
Linked(es) ==
  \A i \in DOMAIN es : es[i].prev = IF i = 1 THEN Genesis ELSE es[i - 1].hash
KnownGenerations(es, g) == \A i \in DOMAIN es : es[i].gen <= g
RisingGenerations(es) ==
  \A i, j \in DOMAIN es : i <= j => es[i].gen <= es[j].gen

\* Bug: the chain alone is verified, as it was before there was an anchor.
FindingInChain(es, a, g) ==
  IF Linked(es) /\ KnownGenerations(es, g) /\ RisingGenerations(es)
  THEN "ok" ELSE "lancuch"

\* What verify() finds first, "ok" when nothing is wrong.
Finding(es, a, g) ==
  IF ~Complete(es, a) THEN "kotwica"
  ELSE IF Linked(es) /\ KnownGenerations(es, g) /\ RisingGenerations(es)
       THEN "ok" ELSE "lancuch"

\* Bug: an empty log never needs the marker.
NeedsMarkerUnlessEmpty(es, g) == es # <<>> /\ es[Len(es)].gen # g

\* _zapisz_znacznik_rotacji: the log does not end in the current generation.
\* Generation 0 with an empty log is an installation that never rotated.
NeedsMarker(es, g) ==
  IF es = <<>> THEN g > 0 ELSE es[Len(es)].gen # g

----------------------------------------------------------------------------
(* Processes: start, crash, power failure, key rotation.                   *)

NoView == [head |-> Genesis, read |-> <<>>, anchor |-> NoAnchor]

Init ==
  /\ file = <<>> /\ torn = FALSE /\ glue = 0 /\ synced = 0
  /\ anchor = NoAnchor /\ anchorOld = NoAnchor
  /\ flock = None /\ lock = [p \in Proc |-> None]
  /\ boot = [p \in Proc |-> "down"]
  /\ gen = [p \in Proc |-> 0]
  /\ mem = [p \in Proc |-> EmptyLog]
  /\ pc = [t \in Thread |-> "idle"]
  /\ draft = [r \in Recorder |-> NoEntry]
  /\ view = [v \in Verifier \cup Inspector |-> NoView]
  /\ report = [v \in Verifier \cup Inspector |-> "ok"]
  /\ cfgGen = 0 /\ minted = 0 /\ acked = {}

\* build_audit_log reads the file, if there is one, under the file lock; an
\* unreadable file is refused whatever the integrity switch says.
Load(p) ==
  /\ boot[p] = "down"
  /\ flock = None \/ FileSize = 0
  /\ gen' = [gen EXCEPT ![p] = cfgGen]
  /\ IF Readable
     THEN /\ boot' = [boot EXCEPT ![p] = "loaded"]
          /\ mem' = [mem EXCEPT ![p] = Loaded(file)]
     ELSE /\ boot' = [boot EXCEPT ![p] = "refused"]
          /\ UNCHANGED mem
  /\ UNCHANGED <<disk, locks, pc, draft, watch, cfgGen, minted, acked>>

\* ... verifies it under the file lock, taken anew, and decides whether the
\* rotation marker has to be recorded before the process serves requests.
Check(p) ==
  LET m == IF mem[p].entries = <<>> THEN mem[p] ELSE Refreshed(mem[p])
      sound == \/ mem[p].entries = <<>>
               \/ RefreshReturns(mem[p]) /\ Finding(m.entries, anchor, gen[p]) = "ok"
  IN /\ boot[p] = "loaded"
     /\ flock = None \/ mem[p].entries = <<>>
     /\ mem' = [mem EXCEPT ![p] = m]
     /\ boot' = [boot EXCEPT ![p] =
          IF ~sound /\ Blocking THEN "refused"
          ELSE IF NeedsMarker(m.entries, gen[p]) THEN "marking" ELSE "up"]
     /\ UNCHANGED <<disk, locks, gen, pc, draft, watch, cfgGen, minted, acked>>

\* The file lock stays taken for longer than the limit: the start fails.
BootTimeout(p) ==
  /\ boot[p] = "loaded" /\ flock # None
  /\ boot' = [boot EXCEPT ![p] = "down"]
  /\ mem' = [mem EXCEPT ![p] = EmptyLog]
  /\ UNCHANGED <<disk, locks, gen, pc, draft, watch, cfgGen, minted, acked>>

\* What is left of the threads in T when their processes end: the operating
\* system frees the locks they held.
Stopped(T) ==
  /\ pc' = [t \in Thread |-> IF t \in T THEN "idle" ELSE pc[t]]
  /\ draft' = [r \in Recorder |-> IF r \in T THEN NoEntry ELSE draft[r]]
  /\ view' = [v \in Verifier \cup Inspector |->
                IF v \in T THEN NoView ELSE view[v]]
  /\ flock' = IF flock \in T THEN None ELSE flock

ThreadsOf(p) == {t \in Recorder \cup Verifier : Home[t] = p}

\* A process is killed, at any point.  What it has written stays in the file.
Crash(p) ==
  /\ boot[p] \in {"loaded", "marking", "up"}
  /\ boot' = [boot EXCEPT ![p] = "down"]
  /\ mem' = [mem EXCEPT ![p] = EmptyLog]
  /\ lock' = [lock EXCEPT ![p] = None]
  /\ Stopped(ThreadsOf(p))
  /\ UNCHANGED <<disk, gen, report, cfgGen, minted, acked>>

\* Power is lost: lines not yet forced to the medium may be gone, the first of
\* them cut short or the last that stays without its newline, and the last
\* replace() of the anchor undone.
PowerLoss ==
  /\ \E n \in synced..Len(file) :
       /\ file' = SubSeq(file, 1, n)
       /\ torn' \in IF n < Len(file) THEN BOOLEAN ELSE {torn, FALSE}
       /\ glue' \in IF 0 < glue /\ glue <= n THEN {glue}
                    ELSE IF torn' \/ n = synced THEN {0} ELSE {0, n}
       /\ synced' = n
  /\ anchor' \in {anchor, anchorOld}
  /\ anchorOld' = anchor'
  /\ boot' = [p \in Proc |-> "down"]
  /\ mem' = [p \in Proc |-> EmptyLog]
  /\ lock' = [p \in Proc |-> None]
  /\ Stopped(Thread)
  /\ UNCHANGED <<gen, report, cfgGen, minted, acked>>

\* The operator gives the configuration a new key, all processes stopped.
RotateKey ==
  /\ cfgGen < MaxGen
  /\ \A p \in Proc : boot[p] \in {"down", "refused"}
  /\ cfgGen' = cfgGen + 1
  /\ UNCHANGED <<disk, locks, procs, pc, draft, watch, minted, acked>>

----------------------------------------------------------------------------
(* AuditLog.record, by a recorder t of process Home[t].                    *)

Goto(t, l) == pc' = [pc EXCEPT ![t] = l]

\* Leaving the two with-blocks of record().
Release(t) ==
  /\ Goto(t, "idle")
  /\ draft' = [draft EXCEPT ![t] = NoEntry]
  /\ lock' = [lock EXCEPT ![Home[t]] = None]
  /\ flock' = IF flock = t THEN None ELSE flock

\* record() raises AuditError, the log of the process being m by then.  While
\* the rotation marker is being recorded that ends the start.
Fail(t, m) ==
  LET p == Home[t] IN
  /\ Release(t)
  /\ IF boot[p] = "marking"
     THEN /\ boot' = [boot EXCEPT ![p] = "down"]
          /\ mem' = [mem EXCEPT ![p] = EmptyLog]
     ELSE /\ mem' = [mem EXCEPT ![p] = m]
          /\ UNCHANGED boot
  /\ UNCHANGED <<gen, watch, cfgGen, acked>>

\* with self._lock: a process records one entry at a time.
Begin(t) ==
  /\ pc[t] = "idle"
  /\ boot[Home[t]] \in {"marking", "up"}
  /\ lock[Home[t]] = None
  /\ lock' = [lock EXCEPT ![Home[t]] = t]
  /\ Goto(t, "flock")
  /\ UNCHANGED <<disk, flock, procs, draft, watch, cfgGen, minted, acked>>

\* with self._blokada_zapisu(): one process at a time.
TakeFileLock(t) ==
  /\ pc[t] = "flock" /\ flock = None
  /\ flock' = t
  /\ Goto(t, "refresh")
  /\ UNCHANGED <<disk, lock, procs, draft, watch, cfgGen, minted, acked>>

\* Bug: blokada_pliku waits for the lock without a limit.
LockWithoutLimit(t) == FALSE

\* The attempts to take the file lock have lasted limit_sekund.
LockTimeout(t) ==
  /\ pc[t] = "flock" /\ flock # None
  /\ Fail(t, mem[Home[t]])
  /\ UNCHANGED <<disk, minted>>

\* _odswiez_z_pliku under both locks.
Refresh(t) ==
  LET m == mem[Home[t]] IN
  /\ pc[t] = "refresh"
  /\ \/ /\ RefreshReturns(m)
        /\ mem' = [mem EXCEPT ![Home[t]] = Refreshed(m)]
        /\ Goto(t, "build")
        /\ UNCHANGED <<locks, boot, gen, draft, watch, cfgGen, acked>>
     \/ /\ ~RefreshReturns(m)
        /\ Fail(t, Refreshed(m))
  /\ UNCHANGED <<disk, minted>>

\* The entry is built on the head of the log in memory.
NewEntry(p) == [hash |-> minted + 1, prev |-> mem[p].last, gen |-> gen[p]]

Build(t) ==
  /\ pc[t] = "build" /\ minted < MaxEntries
  /\ minted' = minted + 1
  /\ draft' = [draft EXCEPT ![t] = NewEntry(Home[t])]
  /\ Goto(t, "write")
  /\ UNCHANGED <<disk, locks, procs, watch, cfgGen, acked>>

\* The detail cannot be written as JSON.
BuildFails(t) ==
  /\ pc[t] = "build"
  /\ Fail(t, mem[Home[t]])
  /\ UNCHANGED <<disk, minted>>

\* _append_to_file: write and flush, which other threads and processes can
\* read at once ...
Write(t) ==
  /\ pc[t] = "write"
  /\ file' = Append(file, draft[t])
  /\ Goto(t, "commit")
  /\ UNCHANGED <<torn, glue, synced, anchor, anchorOld, locks, procs, draft,
                 watch, cfgGen, minted, acked>>

\* Bug: the entry enters the log in memory before it is written.
WriteFailsRemembered(t) ==
  /\ pc[t] = "write"
  /\ \/ UNCHANGED <<file, torn, glue>>
     \/ torn' = TRUE /\ UNCHANGED <<file, glue>>
     \/ /\ file' = Append(file, draft[t])
        /\ glue' \in IF glue = 0 THEN {0, Len(file) + 1} ELSE {glue}
        /\ UNCHANGED torn
  /\ Fail(t, [mem[Home[t]] EXCEPT !.entries = Append(@, draft[t]),
                                  !.last = draft[t].hash])
  /\ UNCHANGED <<synced, anchor, anchorOld, minted>>

\* ... or an OSError: nothing, a part of the line, or all of it was written, all
\* of it but the newline maybe.
WriteFails(t) ==
  /\ pc[t] = "write"
  /\ \/ UNCHANGED <<file, torn, glue>>
     \/ torn' = TRUE /\ UNCHANGED <<file, glue>>
     \/ /\ file' = Append(file, draft[t])
        /\ glue' \in IF glue = 0 THEN {0, Len(file) + 1} ELSE {glue}
        /\ UNCHANGED torn
  /\ Fail(t, mem[Home[t]])
  /\ UNCHANGED <<synced, anchor, anchorOld, minted>>

\* What the entry of t makes of the log in memory m.
Extended(m, t) ==
  [entries |-> Append(m.entries, draft[t]),
   last    |-> draft[t].hash,
   size    |-> FileSize]

\* Bug: there is no fsync.
CommitUnsynced(t) ==
  /\ pc[t] = "commit"
  /\ mem' = [mem EXCEPT ![Home[t]] = Extended(@, t)]
  /\ Goto(t, "anchor")
  /\ UNCHANGED <<disk, locks, boot, gen, draft, watch, cfgGen, minted, acked>>

\* fsync and stat; only then does the entry enter the log in memory.
Commit(t) ==
  /\ pc[t] = "commit"
  /\ synced' = Len(file)
  /\ mem' = [mem EXCEPT ![Home[t]] = Extended(@, t)]
  /\ Goto(t, "anchor")
  /\ UNCHANGED <<file, torn, glue, anchor, anchorOld, locks, boot, gen, draft,
                 watch, cfgGen, minted, acked>>

\* _kotwica_moze_isc_w_gore.
AnchorMayRise(m) == Len(m.entries) >= anchor.n

NewAnchor(m) == [n |-> Len(m.entries), h |-> m.last]

\* _zapisz_kotwice and the return of record().  The number in the anchor never
\* goes down; an OSError while it is written is ignored.
WriteAnchor(t) ==
  LET p == Home[t] IN
  /\ pc[t] = "anchor"
  /\ \/ /\ AnchorMayRise(mem[p])
        /\ anchor' = NewAnchor(mem[p])
        /\ anchorOld' = anchor
     \/ UNCHANGED <<anchor, anchorOld>>
  /\ acked' = acked \cup {draft[t].hash}
  /\ boot' = [boot EXCEPT ![p] = "up"]
  /\ Release(t)
  /\ UNCHANGED <<file, torn, glue, synced, gen, mem, watch, cfgGen, minted>>

----------------------------------------------------------------------------
(* AuditLog.verify on a live log, by a verifier v: no lock is taken.       *)

Report(v, r) ==
  /\ report' = [report EXCEPT ![v] = r]
  /\ view' = [view EXCEPT ![v] = NoView]
  /\ Goto(v, "idle")

quietV == <<disk, locks, boot, gen, draft, cfgGen, minted, acked>>

\* _odswiez_z_pliku: the size of the file against the size last seen.
VerifyStat(v) ==
  LET m == mem[Home[v]] IN
  /\ pc[v] = "idle" /\ boot[Home[v]] = "up"
  /\ \/ FileSize = m.size /\ Goto(v, "anchor") /\ UNCHANGED watch
     \/ FileSize < m.size /\ Report(v, "plik")
     \/ /\ FileSize > m.size
        /\ view' = [view EXCEPT ![v].head = m.last]
        /\ Goto(v, "read")
        /\ UNCHANGED report
  /\ UNCHANGED <<quietV, mem>>

\* _wczytaj reads the file ...
VerifyRead(v) ==
  /\ pc[v] = "read"
  /\ \/ ~Readable /\ Report(v, "plik")
     \/ /\ Readable
        /\ view' = [view EXCEPT ![v].read = file]
        /\ Goto(v, "assign")
        /\ UNCHANGED report
  /\ UNCHANGED <<quietV, mem>>

\* ... replaces the log in memory with what it read, whatever a recorder has
\* done to it since ...
VerifyAssign(v) ==
  /\ pc[v] = "assign"
  /\ mem' = [mem EXCEPT
       ![Home[v]] = [Loaded(view[v].read) EXCEPT !.size = mem[Home[v]].size]]
  /\ Goto(v, "resize")
  /\ UNCHANGED <<quietV, watch>>

\* ... then the size, another call later, and looks for the old head in the log
\* in memory.
VerifyResize(v) ==
  LET p == Home[v] IN
  /\ pc[v] = "resize"
  /\ mem' = [mem EXCEPT ![p].size = Len(view[v].read)]
  /\ IF KeepsHead(view[v].head, mem[p].entries)
     THEN Goto(v, "anchor") /\ UNCHANGED watch
     ELSE Report(v, "plik")
  /\ UNCHANGED quietV

VerifyAnchor(v) ==
  /\ pc[v] = "anchor"
  /\ view' = [view EXCEPT ![v].anchor = anchor]
  /\ Goto(v, "check")
  /\ UNCHANGED <<quietV, mem, report>>

VerifyCheck(v) ==
  /\ pc[v] = "check"
  /\ Report(v, Finding(mem[Home[v]].entries, view[v].anchor, gen[Home[v]]))
  /\ UNCHANGED <<quietV, mem>>

\* "husarz audit verify": otworz_do_wgladu reads the file without the lock,
\* then the anchor is read and the two are compared.
InspectLoad(v) ==
  /\ pc[v] = "idle"
  /\ \/ ~Readable /\ Report(v, "plik")
     \/ /\ Readable
        /\ view' = [view EXCEPT ![v].read = file]
        /\ Goto(v, "inspect")
        /\ UNCHANGED report
  /\ UNCHANGED <<quietV, mem>>

InspectVerify(v) ==
  /\ pc[v] = "inspect"
  /\ Report(v, Finding(view[v].read, anchor, cfgGen))
  /\ UNCHANGED <<quietV, mem>>

----------------------------------------------------------------------------
\* The critical section of record(), and the part of it from the refresh on, in
\* which an entry is on its way.
Placed == {"build", "write", "commit", "anchor"}
Critical == {"refresh"} \cup Placed

IsPrefixOf(s, f) == Len(s) <= Len(f) /\ \A i \in 1..Len(s) : s[i] = f[i]

RecordStep(t) ==
  \/ TakeFileLock(t) \/ LockTimeout(t) \/ Refresh(t) \/ Build(t)
  \/ BuildFails(t) \/ Write(t) \/ WriteFails(t) \/ Commit(t) \/ WriteAnchor(t)

VerifyStep(v) ==
  \/ VerifyStat(v) \/ VerifyRead(v) \/ VerifyAssign(v) \/ VerifyResize(v)
  \/ VerifyAnchor(v) \/ VerifyCheck(v)

\* Everything but the loss of power.
Step ==
  \/ \E p \in Proc : Load(p) \/ Check(p) \/ BootTimeout(p) \/ Crash(p)
  \/ RotateKey
  \/ \E t \in Recorder : Begin(t) \/ RecordStep(t)
  \/ \E v \in Verifier : VerifyStep(v)
  \/ \E v \in Inspector : InspectLoad(v) \/ InspectVerify(v)

Next == Step \/ PowerLoss

Spec == Init /\ [][Next]_vars

\* A scheduled process goes on with a record it has begun; nothing obliges a
\* caller to begin one, and a process that is not Responsive may hang with the
\* file lock in its hands.
Fairness ==
  \A t \in Recorder : Home[t] \in Responsive => WF_vars(RecordStep(t))

FairSpec == Spec /\ Fairness
----------------------------------------------------------------------------
(* Properties.                                                             *)

MemType == [entries : Seq(Entry), last : Hash, size : Nat]
ViewType == [head : Hash, read : Seq(Entry), anchor : Anchor]
Label == {"idle", "flock", "refresh", "build", "write", "commit", "anchor",
          "read", "assign", "resize", "check", "inspect"}

\* Every variable holds a value of its kind.
TypeOK ==
  /\ file \in Seq(Entry) /\ torn \in BOOLEAN /\ glue \in 0..Len(file)
  /\ synced \in Nat
  /\ anchor \in Anchor /\ anchorOld \in Anchor
  /\ flock \in Recorder \cup {None}
  /\ lock \in [Proc -> Recorder \cup {None}]
  /\ boot \in [Proc -> {"down", "loaded", "refused", "marking", "up"}]
  /\ gen \in [Proc -> Gen] /\ cfgGen \in Gen
  /\ mem \in [Proc -> MemType]
  /\ pc \in [Thread -> Label]
  /\ draft \in [Recorder -> Entry]
  /\ view \in [Verifier \cup Inspector -> ViewType]
  /\ report \in [Verifier \cup Inspector -> {"ok", "plik", "kotwica", "lancuch"}]
  /\ minted \in Hash /\ acked \subseteq Hash

\* However the processes that share the file interleave, die and lose power,
\* every entry of the file points at the one before it (record: "ciaglosc
\* lancucha pod wspolbieznoscia"; the fork of entry 261 is its violation).
ChainUnbroken == Linked(file)

\* A key generation never goes back along the file, rotations included: verify
\* would take such an entry for one written with a retired key.
GenerationsRise == RisingGenerations(file)

\* The anchor is never ahead of what a power failure spares of the log, nor
\* does it name another entry than the log has in that place: otherwise an
\* ordinary power failure looks like tampering (record: "Kotwica PO wpisie").
AnchorCovered ==
  \A a \in {anchor, anchorOld} :
    /\ a.n <= synced
    /\ a.n > 0 => file[a.n].hash = a.h

\* An entry that record() has returned survives every later failure.
ReceiptsDurable == acked \subseteq {file[i].hash : i \in 1..synced}

\* build_audit_log refuses no log but an unreadable one: no crash, power
\* failure, failed write or key rotation makes an installation that blocks on
\* integrity refuse its own honest log.
HonestStart == \A p \in Proc : boot[p] = "refused" => ~Readable

\* A process that serves requests with a rotated key has an entry of that key
\* at the end of the log: the window _zapisz_znacznik_rotacji is there to shut.
MarkerInPlace ==
  \A p \in Proc :
    boot[p] = "up" /\ gen[p] > 0 =>
      file # <<>> /\ file[Len(file)].gen = gen[p]

\* Persist first: the log in the memory of a process is at all times a prefix
\* of the file, and its head is the head of that prefix.
MemoryIsPrefix ==
  \A p \in Proc :
    LET m == mem[p] IN
    /\ Len(m.entries) <= Len(file)
    /\ m.entries = SubSeq(file, 1, Len(m.entries))
    /\ m.last = HeadHash(m.entries)

\* No verification ever reports a forked chain or a generation gone back.
NoForkReported ==
  \A v \in Verifier \cup Inspector : report[v] # "lancuch"

\* The log keeps the promise of AuditTrail: it only grows, but for what a power
\* failure takes from its end, and that is nothing that was acknowledged.
Trail == INSTANCE AuditTrail WITH
  Event <- 1..MaxEntries,
  trail <- [i \in 1..Len(file) |-> file[i].hash],
  receipts <- acked

ImplementsTrail == Trail!Spec

\* A record begun in a process that is scheduled ends, even when another
\* process hangs with the file lock in its hands (blokada_pliku: the limit
\* "zamienia awarie JEDNEGO procesu w zawieszenie wszystkich" without it).
RecordEnds ==
  \A t \in Recorder : Home[t] \in Responsive =>
    (pc[t] # "idle" ~> pc[t] = "idle")
============================================================================
