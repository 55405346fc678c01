------------------------------ MODULE Accounts ------------------------------
(***************************************************************************)
(* Accounts, sessions and token quotas: accounts/service.py over the file  *)
(* store of accounts/store.py, as the handlers of api/app.py use them from *)
(* the threads of one process.  The service's lock is held in one step,    *)
(* but for record_usage, which holds it across the write of the file; the  *)
(* store has a lock of its own for a change and its write.                 *)
(*                                                                         *)
(* A user stands for a normalised name, and for the account under it: no   *)
(* account is ever removed, and a process knows one account per name.      *)
(* Passwords are left out: a check succeeds only for an account that       *)
(* exists.  os.replace makes a write of the file one step.                 *)
(***************************************************************************)
EXTENDS Naturals, FiniteSets

CONSTANTS
  Worker,             \* threads of the server
  User,               \* names of accounts
  Limited,            \* users with a token_quota
  Admin,              \* seed_admin_username, or None
  AllowRegistration,  \* allow_registration
  Quota,              \* their token_quota
  MaxAttempts,        \* login_max_attempts
  Lockout,            \* login_lockout_seconds
  TTL,                \* session_ttl_seconds
  MaxSessions,        \* max_sessions_per_user
  MaxUse,             \* bound on the tokens one request uses
  MaxTime,            \* bound on the clock
  MaxJobs,            \* bound on the requests to the API
  None

ASSUME NameAssumption ==
  /\ Limited \subseteq User /\ Admin \in User \cup {None}
  /\ None \notin Worker /\ None \notin User
  /\ IsFiniteSet(Worker)
ASSUME NumberAssumption ==
  /\ AllowRegistration \in BOOLEAN
  /\ Quota \in Nat \ {0} /\ MaxAttempts \in Nat \ {0} /\ Lockout \in Nat
  /\ TTL \in Nat \ {0} /\ MaxSessions \in Nat \ {0}
  /\ MaxUse \in Nat /\ MaxTime \in Nat /\ MaxJobs \in Nat

VARIABLES
  now,       \* the clock
  up,        \* whether the server runs
  file,      \* accounts.json
  mem,       \* FileAccountStore: _by_id, _id_by_name
  flock,     \* FileAccountStore._file_lock: who holds it
  lock,      \* AccountService._lock: who holds it across steps
  failed,    \* _failed: the failed attempts of each user, numbered where two
             \* were at the same time
  sessions,  \* _sessions
  pc,        \* where the thread is
  job,       \* its request
  \* history
  jobs,      \* requests so far
  drawn,     \* how many tokens secrets.token_urlsafe has drawn, no two alike
  created,   \* accounts whose creation was reported
  answered,  \* tokens of the requests that were answered, and are to be charged
  total      \* tokens that models have reported at all

locks == <<flock, lock>>
threads == <<pc, job>>
history == <<jobs, drawn, created, answered, total>>
vars == <<now, up, file, mem, locks, failed, sessions, threads, history>>

Accounts == [known : SUBSET User, used : [User -> Nat]]
NoAccounts == [known |-> {}, used |-> [u \in User |-> 0]]

NoJob == [kind |-> "none", user |-> None, now |-> 0, base |-> 0, spent |-> 0]
Job(kind, u) == [NoJob EXCEPT !.kind = kind, !.user = u]

\* InMemoryAccountStore.add, update.
With(accounts, u) == [accounts EXCEPT !.known = @ \cup {u}]
WithUsed(accounts, u, n) == [accounts EXCEPT !.used[u] = n]

\* build_account_service: what is loaded, and the administrator's account.
Loaded == IF Admin = None THEN file ELSE With(file, Admin)

Init ==
  /\ now = 0
  /\ up = FALSE
  /\ file = NoAccounts /\ mem = NoAccounts
  /\ flock = None /\ lock = None
  /\ failed = [u \in User |-> {}]
  /\ sessions = {}
  /\ pc = [w \in Worker |-> "idle"]
  /\ job = [w \in Worker |-> NoJob]
  /\ jobs = 0 /\ drawn = 0 /\ created = {}
  /\ answered = [u \in User |-> 0] /\ total = [u \in User |-> 0]

Goto(w, l) == pc' = [pc EXCEPT ![w] = l]

\* The handler returns, or raises an HTTPException.
End(w) == Goto(w, "idle") /\ job' = [job EXCEPT ![w] = NoJob]

Tick ==
  /\ now < MaxTime
  /\ now' = now + 1
  /\ UNCHANGED <<up, file, mem, locks, failed, sessions, threads, history>>

----------------------------------------------------------------------------
(* The process, and the file between processes.                            *)

\* FileAccountStore._load, _seed_admin.
Boot ==
  /\ ~up
  /\ up' = TRUE
  /\ file' = Loaded /\ mem' = Loaded
  /\ UNCHANGED <<now, locks, failed, sessions, threads, history>>

\* Everything but the file is in memory only.
Crash ==
  /\ up
  /\ up' = FALSE
  /\ mem' = NoAccounts
  /\ flock' = None /\ lock' = None
  /\ failed' = [u \in User |-> {}]
  /\ sessions' = {}
  /\ pc' = [w \in Worker |-> "idle"]
  /\ job' = [w \in Worker |-> NoJob]
  /\ UNCHANGED <<now, file, history>>

\* husarz useradd, in a process of its own; the store is for one process at a
\* time, so the server is down.  The administrator's account comes first; a name
\* that is taken is refused.
UserAdd(u) ==
  /\ ~up
  /\ file' = With(Loaded, u)
  /\ created' = IF u \in Loaded.known THEN created ELSE created \cup {u}
  /\ UNCHANGED <<now, up, mem, locks, failed, sessions, threads, jobs, drawn,
                 answered, total>>

----------------------------------------------------------------------------
(* The store: a change in memory, then the file, under one lock.           *)

quietS == <<now, up, failed, sessions, drawn, total>>

\* A thread begins a request.
Begin(w, j, l) ==
  /\ up /\ pc[w] = "idle" /\ jobs < MaxJobs
  /\ jobs' = jobs + 1
  /\ job' = [job EXCEPT ![w] = j]
  /\ Goto(w, l)

\* auth_register
Register(w, u) ==
  /\ AllowRegistration
  /\ Begin(w, Job("register", u), "add")
  /\ UNCHANGED <<quietS, file, mem, locks, created, answered>>

\* FileAccountStore.add: the name is taken, or the account is in memory.
Add(w) ==
  LET u == job[w].user IN
  /\ pc[w] = "add" /\ flock = None
  /\ \/ /\ u \in mem.known
        /\ End(w)
        /\ UNCHANGED <<mem, flock>>
     \/ /\ u \notin mem.known
        /\ mem' = With(mem, u)
        /\ flock' = w
        /\ Goto(w, "save") /\ UNCHANGED job
  /\ UNCHANGED <<quietS, file, lock, jobs, created, answered>>

Payload(w) == mem

\* Bug: the lock of the service stays taken.
UnlockedNever(w) == lock

\* The end of the with statements.
Unlocked(w) == IF lock = w THEN None ELSE lock

\* Bug: an error of the disk passes for a write.
SaveIgnored(w) ==
  /\ pc[w] = "save"
  /\ flock' = None /\ lock' = Unlocked(w)
  /\ \/ /\ job[w].kind = "register"
        /\ Goto(w, "ask")
        /\ UNCHANGED <<job, answered>>
     \/ /\ job[w].kind # "register"
        /\ answered' = [answered EXCEPT ![job[w].user] = @ + job[w].spent]
        /\ End(w)
  /\ UNCHANGED <<quietS, file, mem, jobs, created>>

\* _persist.  A new account is then logged in, a charge is the request's end.
Save(w) ==
  /\ pc[w] = "save"
  /\ file' = Payload(w)
  /\ flock' = None /\ lock' = Unlocked(w)
  /\ \/ /\ job[w].kind = "register"
        /\ Goto(w, "ask")
        /\ UNCHANGED <<job, answered>>
     \/ /\ job[w].kind # "register"
        /\ answered' = [answered EXCEPT ![job[w].user] = @ + job[w].spent]
        /\ End(w)
  /\ UNCHANGED <<quietS, mem, jobs, created>>

\* ... an OSError: the memory keeps the change.
SaveFails(w) ==
  /\ pc[w] = "save"
  /\ flock' = None /\ lock' = Unlocked(w)
  /\ End(w)
  /\ UNCHANGED <<quietS, file, mem, jobs, created, answered>>

----------------------------------------------------------------------------
(* AccountService.login.                                                   *)

quietL == <<now, up, file, mem, locks, answered, total>>

\* auth_login
Login(w, u) ==
  /\ Begin(w, Job("login", u), "ask")
  /\ UNCHANGED <<quietL, failed, sessions, drawn, created>>

\* authenticate: now = self._clock().timestamp()
Ask(w) ==
  /\ pc[w] = "ask"
  /\ job' = [job EXCEPT ![w].now = now]
  /\ Goto(w, "check")
  /\ UNCHANGED <<quietL, failed, sessions, jobs, drawn, created>>

\* _prune_failures
Recent(u, t) == {f \in failed[u] : f.at + Lockout >= t}

\* Bug: one attempt too many.
LockedLate(attempts) == Cardinality(attempts) > MaxAttempts

Locked(attempts) == Cardinality(attempts) >= MaxAttempts

\* Refused before the password is looked at, or not.
Check(w) ==
  LET u == job[w].user
      recent == Recent(u, job[w].now)
  IN /\ pc[w] = "check" /\ lock = None
     /\ failed' = [failed EXCEPT ![u] = recent]
     /\ \/ Locked(recent) /\ End(w)
        \/ ~Locked(recent) /\ Goto(w, "verify") /\ UNCHANGED job
     /\ UNCHANGED <<quietL, sessions, jobs, drawn, created>>

\* A wrong password, or no such account.
Mistake(w) ==
  LET u == job[w].user
      attempt(n) == [at |-> job[w].now, n |-> n]
  IN
  /\ pc[w] = "verify" /\ job[w].kind = "login" /\ lock = None
  /\ \E n \in 1..MaxJobs :
       /\ attempt(n) \notin failed[u]
       /\ \A m \in 1..n - 1 : attempt(m) \in failed[u]
       /\ failed' = [failed EXCEPT ![u] = @ \cup {attempt(n)}]
  /\ End(w)
  /\ UNCHANGED <<quietL, sessions, jobs, drawn, created>>

\* The right one; then login reads the clock again.
Verified(w) ==
  LET u == job[w].user IN
  /\ pc[w] = "verify" /\ u \in mem.known /\ lock = None
  /\ failed' = [failed EXCEPT ![u] = {}]
  /\ Goto(w, "stamp")
  /\ UNCHANGED <<quietL, sessions, job, jobs, drawn, created>>

Stamp(w) ==
  /\ pc[w] = "stamp"
  /\ job' = [job EXCEPT ![w].now = now]
  /\ Goto(w, "issue")
  /\ UNCHANGED <<quietL, failed, sessions, jobs, drawn, created>>

\* _sweep_sessions
Live(t) == {s \in sessions : t < s.exp}

Of(S, u) == {s \in S : s.user = u}

\* Bug: the newest sessions go.
CutNewest(S, out) == \A s \in out, r \in S \ out : s.exp >= r.exp

\* The order in which _cap_user_sessions removes.
Cut(S, out) == \A s \in out, r \in S \ out : s.exp <= r.exp

\* The sessions of the user that leave to make room for one.
Evicted(S) ==
  {out \in SUBSET S :
     /\ IF Cardinality(S) < MaxSessions THEN out = {}
        ELSE Cardinality(S \ out) = MaxSessions - 1
     /\ Cut(S, out)}

\* Expired sessions and those above the limit go, the new one comes.
Issue(w) ==
  LET u == job[w].user
      live == Live(job[w].now)
  IN /\ pc[w] = "issue" /\ lock = None
     /\ drawn' = drawn + 1
     /\ \E out \in Evicted(Of(live, u)) :
          sessions' = (live \ out) \cup
            {[token |-> drawn', user |-> u, exp |-> job[w].now + TTL]}
     /\ created' = IF job[w].kind = "register" THEN created \cup {u} ELSE created
     /\ End(w)
     /\ UNCHANGED <<quietL, failed, jobs>>

\* resolve_session drops an expired session.
Expire(s) ==
  /\ up /\ lock = None /\ s.exp <= now
  /\ sessions' = sessions \ {s}
  /\ UNCHANGED <<quietL, failed, threads, jobs, drawn, created>>

\* auth_logout
Logout(s) ==
  /\ up /\ lock = None
  /\ sessions' = sessions \ {s}
  /\ UNCHANGED <<quietL, failed, threads, jobs, drawn, created>>

----------------------------------------------------------------------------
(* Requests to models: chat/stream, and chat or orchestrate (a chat is an  *)
(* orchestration that makes one call).                                     *)

quietR == <<now, up, failed, sessions, drawn, created>>

\* _authenticate with a live session.
Present(w, s, kind) ==
  /\ lock = None /\ now < s.exp
  /\ Begin(w, Job(kind, s.user), "admit")
  /\ UNCHANGED <<quietR, file, mem, locks, answered, total>>

\* Bug: the request that reaches the quota is not the last.
SpentLate(u) == u \in Limited /\ mem.used[u] > Quota

Spent(u) == u \in Limited /\ mem.used[u] >= Quota

\* check_quota
Admit(w) ==
  /\ pc[w] = "admit" /\ lock = None
  /\ \/ Spent(job[w].user) /\ End(w)
     \/ ~Spent(job[w].user) /\ Goto(w, "call") /\ UNCHANGED job
  /\ UNCHANGED <<quietR, file, mem, locks, jobs, answered, total>>

\* The answer, with the tokens that its models reported (n = 0 where they do
\* not); a stream's are not recorded, nor is a use of no tokens.
Reply(w) ==
  \E n \in 0..MaxUse :
    LET u == job[w].user IN
    /\ pc[w] = "call"
    /\ total' = [total EXCEPT ![u] = @ + n]
    /\ \/ /\ job[w].kind # "stream" /\ n > 0
          /\ job' = [job EXCEPT ![w].spent = n]
          /\ Goto(w, "charge")
       \/ (job[w].kind = "stream" \/ n = 0) /\ End(w)
    /\ UNCHANGED <<quietR, file, mem, locks, jobs, answered>>

\* An error of the router; models may have been called before it, and what they
\* reported is charged to no one.
CallFails(w) ==
  \E n \in 0..MaxUse :
    /\ pc[w] = "call"
    /\ total' = [total EXCEPT ![job[w].user] = @ + n]
    /\ End(w)
    /\ UNCHANGED <<quietR, file, mem, locks, jobs, answered>>

\* Bug: record_usage without the lock.
ChargeUnlocked(w) ==
  /\ pc[w] = "charge"
  /\ job' = [job EXCEPT ![w].base = mem.used[job[w].user]]
  /\ Goto(w, "update")
  /\ UNCHANGED <<quietR, file, mem, locks, jobs, answered, total>>

\* record_usage: the account is read ...
Charge(w) ==
  /\ pc[w] = "charge" /\ lock = None
  /\ lock' = w
  /\ job' = [job EXCEPT ![w].base = mem.used[job[w].user]]
  /\ Goto(w, "update")
  /\ UNCHANGED <<quietR, file, mem, flock, jobs, answered, total>>

\* ... and, with the tokens added, put back.
Update(w) ==
  /\ pc[w] = "update" /\ flock = None
  /\ flock' = w
  /\ mem' = WithUsed(mem, job[w].user, job[w].base + job[w].spent)
  /\ Goto(w, "save")
  /\ UNCHANGED <<quietR, file, lock, job, jobs, answered, total>>

----------------------------------------------------------------------------
\* A thread goes on with its request.
Work(w) ==
  \/ Add(w) \/ Save(w) \/ SaveFails(w)
  \/ Ask(w) \/ Check(w) \/ Mistake(w) \/ Verified(w) \/ Stamp(w) \/ Issue(w)
  \/ Admit(w) \/ Reply(w) \/ CallFails(w) \/ Charge(w) \/ Update(w)

Request(w) ==
  \/ \E u \in User : Register(w, u) \/ Login(w, u)
  \/ \E s \in sessions, kind \in {"stream", "orchestrate"} :
       Present(w, s, kind)

Next ==
  \/ Tick \/ Boot \/ Crash \/ \E u \in User : UserAdd(u)
  \/ \E w \in Worker : Request(w) \/ Work(w)
  \/ \E s \in sessions : Expire(s) \/ Logout(s)

Spec == Init /\ [][Next]_vars

----------------------------------------------------------------------------
(* Properties.                                                             *)

Label == {"idle", "add", "save", "ask", "check", "verify", "stamp", "issue",
          "admit", "call", "charge", "update"}
Kind == {"none", "register", "login", "stream", "orchestrate"}
JobType == [kind : Kind, user : User \cup {None}, now : Nat, base : Nat,
            spent : 0..MaxUse]

\* The thread in record_usage, and the one that changes the store.
Recording(w) == pc[w] = "update" \/ (pc[w] = "save" /\ job[w].kind # "register")
Storing(w) == pc[w] = "save"

\* Every variable holds a value of its kind, and each lock is held by the thread
\* that stands in its with statement, also after an error.
TypeOK ==
  /\ now \in Nat /\ up \in BOOLEAN
  /\ file \in Accounts /\ mem \in Accounts
  /\ failed \in [User -> SUBSET [at : Nat, n : Nat]]
  /\ sessions \subseteq [token : Nat, user : User, exp : Nat]
  /\ pc \in [Worker -> Label]
  /\ job \in [Worker -> JobType]
  /\ jobs \in Nat /\ drawn \in Nat /\ created \subseteq User
  /\ answered \in [User -> Nat] /\ total \in [User -> Nat]
  /\ flock \in Worker \cup {None} /\ lock \in Worker \cup {None}
  /\ \A w \in Worker : (flock = w <=> Storing(w)) /\ (lock = w <=> Recording(w))

\* The failed attempts that are remembered and the attempts under way are never
\* more than the limit allows plus the attempts the threads had begun before it
\* was reached.
Trying(u) == {w \in Worker : pc[w] = "verify" /\ job[w].user = u}
LockoutBounded ==
  \A u \in User :
    Cardinality(failed[u]) + Cardinality(Trying(u)) <= MaxAttempts - 1 + Cardinality(Worker)

\* A login leaves no user with more sessions than the limit, and takes none from
\* another user, nor one that would outlive a session that stays.
SessionsCapped ==
  [][\A w \in Worker : pc[w] = "issue" /\ up' /\ pc'[w] = "idle" =>
       /\ Cardinality(Of(sessions', job[w].user)) <= MaxSessions
       /\ \A s \in sessions \ sessions' :
            \/ s.exp <= now
            \/ /\ s.user = job[w].user
               /\ \A r \in Of(sessions \cap sessions', s.user) : s.exp <= r.exp]_vars

\* The quota is soft, and this is how soft: what has been charged passes it by no
\* more than the requests that were under way when it was reached.
QuotaSoft ==
  \A u \in Limited :
    mem.used[u] <= Quota - 1 + MaxUse * Cardinality(Worker)

\* What was reported as done is in the file: the accounts that were created and
\* the use of the requests that were answered.  No crash takes them.
ReportedKept ==
  /\ created \subseteq file.known
  /\ \A u \in User : answered[u] <= file.used[u]

\* Nobody is charged for more than models reported, and no charge is made twice;
\* the file never says more than the memory of the process that wrote it.
ChargedOnce ==
  /\ \A u \in User : file.used[u] <= total[u] /\ mem.used[u] <= total[u]
  /\ up => /\ file.known \subseteq mem.known
           /\ \A u \in User : file.used[u] <= mem.used[u]

\* The threads never all wait for each other: as long as a request is under way,
\* one of them can go on.  The two locks are taken in one order, and an error of
\* the disk leaves neither behind.
NoDeadlock ==
  (\E w \in Worker : pc[w] # "idle") => \E w \in Worker : ENABLED Work(w)

============================================================================
