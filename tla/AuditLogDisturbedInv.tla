----------------------- MODULE AuditLogDisturbedInv -----------------------
(***************************************************************************)
(* The inductive invariants behind AuditLogDisturbed.                      *)
(***************************************************************************)
EXTENDS AuditLogDisturbed

Running == {"loaded", "marking", "up"}

\* What verify() asks of a chain, anchor aside.
Sound(es, g) == Linked(es) /\ KnownGenerations(es, g) /\ RisingGenerations(es)

\* A process that is down remembers nothing, one that runs has the current key,
\* and only a process that serves requests verifies.
ProcessInv ==
  /\ \A p \in Proc :
       /\ boot[p] = "down" => mem[p] = EmptyLog
       /\ boot[p] \in {"down", "refused"} => own[p] = {}
       /\ boot[p] \in Running => gen[p] = cfgGen
  /\ \A v \in Verifier : pc[v] # "idle" => boot[Home[v]] = "up"

\* The memory of a writer and the file are beginnings of one history, and the
\* memory holds what the writer returned; an incomplete line is never the place
\* of a line that the writer knows.
KeptOf(p) ==
  LET es == mem[p].entries IN
  /\ own[p] \subseteq Hashes(es)
  /\ OneHistory(es)
  /\ mem[p].last = HeadHash(es)

KeptInv == \A p \in Writers : KeptOf(p)

\* In the critical section the writer knows the file, up to its own entry.
WriterOf(t) ==
  LET es == mem[Home[t]].entries IN
  /\ pc[t] \in {"build", "write", "anchor"} => ~torn /\ es = file
  /\ pc[t] = "write" => draft[t].prev = HeadHash(es) /\ draft[t].gen = cfgGen
  /\ pc[t] = "commit" => ~torn /\ file = Append(es, draft[t])
  /\ pc[t] = "anchor" => draft[t].hash \in Hashes(es)

WriterInv == \A t \in Recorder : WriterOf(t)

\* Every copy of the log there is was a sound chain when it was taken.
SoundInv ==
  /\ Sound(file, cfgGen)
  /\ \A p \in Proc : Sound(mem[p].entries, cfgGen)
  /\ \A v \in Verifier \cup Inspector :
       pc[v] \in {"assign", "resize", "inspect"} => Sound(view[v].read, cfgGen)
  /\ NoForkReported

\* Without a foreign history.
HistoryInv == KeptInv /\ SizeInv /\ WriterInv /\ SoundInv

\* In blocking mode.  Once a tail is lost, every writer that serves requests knows
\* of more than the file has, so that no record gets past its refresh, and one
\* that starts has read enough of the file to be refused.
EvidenceInv ==
  /\ anchor.n > 0 => file # <<>>
  /\ lost # {} =>
       /\ Len(file) < anchor.n /\ ~torn
       /\ \A t \in Recorder : pc[t] \notin Placed
       /\ \A p \in Writers :
            /\ boot[p] \in {"marking", "up"} => Len(file) < Len(mem[p].entries)
            /\ boot[p] = "loaded" => mem[p].entries # <<>>

DisturbedInv ==
  /\ TypeOK
  /\ LockInv
  /\ ProcessInv
  /\ "overtaken" \notin slips => Apart
  /\ "rewrite" \notin disturbed /\ slips \subseteq {"behind"} => HistoryInv
  /\ Blocking /\ disturbed \subseteq {"tail"} /\ slips = {} => EvidenceInv
============================================================================
