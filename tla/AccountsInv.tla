---------------------------- MODULE AccountsInv ----------------------------
(***************************************************************************)
(* The inductive invariant behind the safety of Accounts.                  *)
(***************************************************************************)
EXTENDS Accounts

\* What a thread at a place in the code has in hand.
JobInv(w) ==
  /\ pc[w] # "idle" => up /\ job[w].user \in User
  /\ pc[w] = "add" => job[w].kind = "register"
  /\ pc[w] \in {"admit", "call"} => job[w].kind \in {"stream", "orchestrate"}
  /\ pc[w] \in {"charge", "update"} => job[w].kind = "orchestrate"
  /\ pc[w] = "save" => job[w].kind \in {"register", "orchestrate"}
  \* a new account is in the file before it is logged in
  /\ /\ pc[w] \in {"ask", "check", "verify", "stamp", "issue"}
     /\ job[w].kind = "register"
     => job[w].user \in file.known
  /\ pc[w] = "save" /\ job[w].kind = "register" => job[w].user \in mem.known
  \* nobody else touches the use of any account between reading and update
  /\ pc[w] = "update" => job[w].base = mem.used[job[w].user]

\* While a charge is in memory only, the file and the reports are behind it.
SaveInv(w) ==
  pc[w] = "save" /\ job[w].kind = "orchestrate" =>
    answered[job[w].user] + job[w].spent <= mem.used[job[w].user]

LedgerInv ==
  /\ ReportedKept
  /\ up => /\ file.known \subseteq mem.known
           /\ \A u \in User : file.used[u] <= mem.used[u]

\* The requests of a user between their admission and their charge.
Pending(u) ==
  {w \in Worker : pc[w] \in {"call", "charge", "update"} /\ job[w].user = u}

Limit == Quota - 1 + MaxUse * Cardinality(Worker)

QuotaInv ==
  \A u \in Limited :
    /\ file.used[u] <= Limit
    /\ mem.used[u] + MaxUse * Cardinality(Pending(u)) <= Limit

\* The tokens that models have reported to requests of a user and that are to be
\* charged yet: of each request, the first, the second and so on.
Owing(w, u) == pc[w] \in {"charge", "update"} /\ job[w].user = u
Owed(u) ==
  {t \in Worker \X (1..MaxUse) : Owing(t[1], u) /\ t[2] <= job[t[1]].spent}

\* What has been charged and what is owed is no more than what was reported.
ChargeInv ==
  \A u \in User :
    /\ file.used[u] <= total[u]
    /\ mem.used[u] + Cardinality(Owed(u)) <= total[u]

\* The clock does not go back, so what it said to a thread is past; and a token
\* that is drawn is a new one.
SessionInv ==
  /\ \A w \in Worker : job[w].now <= now
  /\ IsFiniteSet(sessions)
  /\ \A s \in sessions : s.token <= drawn

AttemptInv == \A u \in User : IsFiniteSet(failed[u])

\* A thread stands before a with statement whose lock is taken.
Waits(w) ==
  \/ pc[w] \in {"check", "verify", "issue", "admit", "charge"} /\ lock # None
  \/ pc[w] \in {"add", "update"} /\ flock # None

AccountsInv ==
  /\ \A w \in Worker : JobInv(w) /\ SaveInv(w)
  /\ LedgerInv
  /\ QuotaInv
  /\ ChargeInv
  /\ SessionInv
  /\ AttemptInv /\ LockoutBounded
============================================================================
