------------------------- MODULE AuditLogDisturbed -------------------------
(***************************************************************************)
(* The audit log of AuditLog when its file is changed from outside between *)
(* two records: its tail is lost (LoseTail), the whole file is moved away  *)
(* by a log rotation (RotateAway), or a file with another history takes    *)
(* its place (Rewrite, say a backup that another installation has gone on  *)
(* with).  The power stays on.                                             *)
(*                                                                         *)
(* The program's own races blur what such a change leaves behind; "slips"  *)
(* tells which of them have happened, so that each property names those it *)
(* does not stand.                                                         *)
(***************************************************************************)
EXTENDS AuditLogInv

VARIABLES
  own,        \* own[p]: the hashes record() has returned in p since its start
  lost,       \* the entries lost from the file that the anchor covered
  disturbed,  \* the kinds of outside change there have been
  slips       \* the races of the program's own there have been

dvars == <<vars, own, lost, disturbed, slips>>

DInit ==
  /\ Init
  /\ own = [p \in Proc |-> {}]
  /\ lost = {}
  /\ disturbed = {}
  /\ slips = {}

\* The processes that record.
Writers == {Home[r] : r \in Recorder}

\* A log and the file are beginnings of one history, the log the longer one only
\* where the file ends with a whole line.
OneHistory(es) == IsPrefixOf(es, file) \/ (~torn /\ IsPrefixOf(file, es))

\* A verify() replaces the log of a process that records, and something has gone
\* by since it read the file: a record or another verify() of that process, or
\* another writer that filled up a file that had been cut.
Stale(v) ==
  /\ Home[v] \in Writers
  /\ pc[v] = "assign" /\ pc'[v] = "resize"
  /\ ~(IsPrefixOf(mem[Home[v]].entries, view[v].read) /\ OneHistory(view[v].read))

Overtaken == ~Apart' \/ \E v \in Verifier : Stale(v)

\* A writer adds to a file that lacks what another writer remembers.
Refilled ==
  /\ <<file, torn>>' # <<file, torn>>
  /\ \E p \in Writers : ~IsPrefixOf(mem[p].entries, file)

\* A step of the program: own follows the receipts, and the end of a process.
DStep ==
  /\ Step
  /\ slips' = slips \cup (IF Overtaken THEN {"overtaken"} ELSE {})
                   \cup (IF Refilled THEN {"refilled"} ELSE {})
  /\ own' = [p \in Proc |->
       IF boot'[p] \in {"down", "refused"} THEN {}
       ELSE own[p] \cup {draft[t].hash :
              t \in {r \in Recorder : Home[r] = p /\ pc[r] = "anchor" /\ pc'[r] = "idle"}}]
  /\ UNCHANGED <<lost, disturbed>>

\* The places of the entries that an outside change of the file to es takes away
\* of what was anchored.
Taken(es) == {j \in 1..Len(file) : j <= anchor.n /\ ~(j <= Len(es) /\ es[j] = file[j])}

\* A writer is running that has not seen one of them.
Behind(es) ==
  \E j \in Taken(es), p \in Writers :
    boot[p] \in {"loaded", "marking", "up"} /\ Len(mem[p].entries) < j

\* A change of this kind is made from outside while no record is under way.
Disturb(kind, es) ==
  /\ flock = None
  /\ disturbed' = disturbed \cup {kind}
  /\ file' = es
  /\ torn' = FALSE
  /\ glue' = IF kind = "tail" /\ glue <= Len(es) THEN glue ELSE 0
  /\ synced' = Len(es)
  /\ lost' = lost \cup {file[j].hash : j \in Taken(es)}
  /\ slips' = slips \cup (IF Behind(es) THEN {"behind"} ELSE {})
  /\ UNCHANGED <<anchor, anchorOld, locks, procs, pc, draft, watch,
                 cfgGen, acked, own>>

\* The end of the file goes, its incomplete line first, but not all of it.
LoseTail ==
  /\ \E n \in 1..Len(file) : Disturb("tail", SubSeq(file, 1, n))
  /\ UNCHANGED minted

\* The whole file is moved away; the anchor stays.
RotateAway ==
  /\ Disturb("rotate", <<>>)
  /\ UNCHANGED minted

\* From some place on, other entries, correctly chained, and more of them: a
\* change that leaves the size of the file as it was is not modelled.
Rewrite ==
  /\ file # <<>>
  /\ \E n \in 0..Len(file) - 1, k \in 1..MaxEntries - minted :
       LET head == HeadHash(SubSeq(file, 1, n))
           other == [i \in 1..k |-> [hash |-> minted + i,
                                     prev |-> IF i = 1 THEN head ELSE minted + i - 1,
                                     gen  |-> file[Len(file)].gen]]
       IN /\ n + k > FileSize
          /\ Disturb("rewrite", SubSeq(file, 1, n) \o other)
          /\ minted' = minted + k

DNext == DStep \/ LoseTail \/ RotateAway \/ Rewrite

DSpec == DInit /\ [][DNext]_dvars

----------------------------------------------------------------------------
(* Properties.                                                             *)

\* record() appends to no file that lacks an entry which the same process has
\* recorded and returned (_odswiez_z_pliku: a file that has shrunk, or grown
\* without the old head, is refused).
OwnEntriesKept ==
  \A t \in Recorder :
    pc[t] \in {"write", "commit", "anchor"} => own[Home[t]] \subseteq Hashes(file)

\* Without such a race a process never appends to what is left of a file that has
\* lost entries of its own, be it the tail or all of it, though other processes
\* record and its own threads verify.
LossRefused ==
  "rewrite" \notin disturbed /\ slips \subseteq {"behind"} => OwnEntriesKept

\* Once a tail that the anchor covered is lost in blocking mode, and every running
\* writer had seen it, the log and its anchor disagree for good: no later record,
\* restart or verification makes the two agree again.
EvidenceKept ==
  Blocking /\ disturbed \subseteq {"tail"} /\ slips = {} /\ lost # {} =>
    ~Complete(file, anchor)

\* Without such a race no verification reports a broken chain for any change but
\* one that put another history into the file (verify and the anchor: a tail that
\* was lost is reported as a loss, never as a fork).
ForkMeansRewrite ==
  "rewrite" \notin disturbed /\ slips \subseteq {"behind"} => NoForkReported

============================================================================
