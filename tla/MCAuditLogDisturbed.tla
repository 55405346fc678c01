------------------------ MODULE MCAuditLogDisturbed ------------------------
(* Small instances of AuditLogDisturbed. *)
EXTENDS AuditLogDisturbedInv, TLC

CONSTANTS p1, p2, r1, r2, v1, i1

\* Two writers; the first also verifies.
HomePair == r1 :> p1 @@ r2 :> p2 @@ v1 :> p1

\* Who shares the file with the recorder of p1 in this behaviour: the second
\* writer or a verify() of p1 itself; both of them, or a run of "husarz audit
\* verify", with an entry less.  Both of them meet without a crash.  The others never
\* begin, nor does the process of a second writer, which keeps the instance small.
VARIABLE beside

LookInit == DInit /\ beside \in {{r2}, {v1}, {i1}, {r2, v1}}

\* Beyond what every property excepts there is nothing to check: a slip other than
\* "behind" is not followed, and a history in which the file was rewritten ends
\* there, at a file of one entry.  Beside a second writer the file is cut once.
LookNext ==
  /\ "rewrite" \notin disturbed
  /\ DNext
  /\ slips' \subseteq {"behind"}
  /\ "rewrite" \in disturbed' => minted = 1
  /\ UNCHANGED beside
  /\ \A t \in {r2, v1, i1} \ beside : pc'[t] = pc[t]
  /\ \A v \in {v1, i1} \ beside : report'[v] = report[v]
  /\ r2 \notin beside => boot'[p2] = boot[p2]
  /\ r2 \in beside /\ disturbed # {} => Len(file') >= Len(file)
  /\ beside \notin {{r2}, {v1}} => minted' < MaxEntries
  /\ beside = {r2, v1} => \A p \in Proc : boot'[p] = "down" => boot[p] = "down"

LookSpec == LookInit /\ [][LookNext]_<<dvars, beside>>
============================================================================
