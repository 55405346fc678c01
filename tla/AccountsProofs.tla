--------------------------- MODULE AccountsProofs ---------------------------
(***************************************************************************)
(* Proofs about Accounts, for any number of users, threads and requests.   *)
(***************************************************************************)
EXTENDS AccountsInv, FiniteSetTheorems, TLAPS

LEMMA WithType ==
  ASSUME NEW a \in Accounts, NEW u \in User
  PROVE  /\ With(a, u) \in Accounts
         /\ With(a, u).known = a.known \cup {u} /\ With(a, u).used = a.used
BY DEF With, Accounts

LEMMA WithUsedType ==
  ASSUME NEW a \in Accounts, NEW u \in User, NEW n \in Nat
  PROVE  /\ WithUsed(a, u, n) \in Accounts
         /\ WithUsed(a, u, n).known = a.known
         /\ WithUsed(a, u, n).used = [a.used EXCEPT ![u] = n]
BY DEF WithUsed, Accounts

LEMMA LoadedType ==
  ASSUME file \in Accounts
  PROVE  /\ Loaded \in Accounts
         /\ file.known \subseteq Loaded.known /\ Loaded.used = file.used
BY WithType, NameAssumption DEF Loaded

LEMMA JobTypes ==
  ASSUME NEW u \in User, NEW kind \in Kind
  PROVE  NoJob \in JobType /\ Job(kind, u) \in JobType
<1>1. NoJob \in JobType
  BY NumberAssumption DEF NoJob, JobType, Kind
<1>2. [NoJob EXCEPT !.kind = kind, !.user = u] \in JobType
  BY <1>1 DEF JobType
<1> QED
  BY <1>1, <1>2 DEF Job

\* A thread at work goes to another place with the request j in hand.
LEMMA MoveType ==
  ASSUME TypeOK, NEW w \in Worker, NEW l \in Label, NEW j \in JobType,
         Goto(w, l), job' = [job EXCEPT ![w] = j]
  PROVE  /\ pc' \in [Worker -> Label] /\ job' \in [Worker -> JobType]
         /\ pc'[w] = l /\ job'[w] = j
         /\ \A v \in Worker : v # w => pc'[v] = pc[v] /\ job'[v] = job[v]
BY DEF TypeOK, Goto

LEMMA EndType ==
  ASSUME TypeOK, NEW w \in Worker, End(w)
  PROVE  /\ pc' \in [Worker -> Label] /\ job' \in [Worker -> JobType]
         /\ pc'[w] = "idle" /\ job'[w] = NoJob
         /\ \A v \in Worker : v # w => pc'[v] = pc[v] /\ job'[v] = job[v]
<1>1. NoJob \in JobType
  BY NumberAssumption DEF NoJob, JobType, Kind
<1> QED
  BY <1>1 DEF TypeOK, End, Goto, Label

LEMMA StayType ==
  ASSUME TypeOK, NEW w \in Worker, NEW l \in Label, Goto(w, l), UNCHANGED job
  PROVE  /\ pc' \in [Worker -> Label] /\ job' \in [Worker -> JobType]
         /\ pc'[w] = l
         /\ \A v \in Worker : v # w => pc'[v] = pc[v]
BY DEF TypeOK, Goto

LEMMA InitType == Init => TypeOK
<1> SUFFICES ASSUME Init PROVE TypeOK
  OBVIOUS
<1>1. NoJob \in JobType
  BY NumberAssumption DEF NoJob, JobType, Kind
<1>2. NoAccounts \in Accounts
  BY DEF NoAccounts, Accounts
<1> QED
  BY <1>1, <1>2, NameAssumption
     DEF Init, TypeOK, Label, Storing, Recording

\* A step of the service keeps types, and the locks with their holders.
LEMMA TypeStep ==
  ASSUME TypeOK, \A w \in Worker : JobInv(w), [Next]_vars
  PROVE  TypeOK'
<1> USE NameAssumption, NumberAssumption
<1>1. CASE Tick
  BY <1>1 DEF Tick, TypeOK, locks, threads, history, Storing, Recording
<1>2. CASE Boot
  <2>1. Loaded \in Accounts
    BY LoadedType DEF TypeOK
  <2> QED
    BY <1>2, <2>1 DEF Boot, TypeOK, locks, threads, history, Storing, Recording
<1>3. CASE Crash
  <2>1. NoJob \in JobType /\ NoAccounts \in Accounts
    BY DEF NoJob, JobType, Kind, NoAccounts, Accounts
  <2> QED
    BY <1>3, <2>1 DEF Crash, TypeOK, history, Storing, Recording, Label
<1>4. ASSUME NEW u \in User, UserAdd(u) PROVE TypeOK'
  <2>1. With(Loaded, u) \in Accounts
    BY LoadedType, WithType DEF TypeOK
  <2> QED
    BY <1>4, <2>1 DEF UserAdd, TypeOK, locks, threads, Storing, Recording
<1>5. ASSUME NEW w \in Worker, NEW u \in User, Register(w, u) PROVE TypeOK'
  <2>1. Job("register", u) \in JobType
    BY JobTypes DEF Kind
  <2>2. /\ pc' \in [Worker -> Label] /\ job' \in [Worker -> JobType]
        /\ pc'[w] = "add"
        /\ \A v \in Worker : v # w => pc'[v] = pc[v] /\ job'[v] = job[v]
    BY <1>5, <2>1, MoveType DEF Register, Begin, Label
  <2> QED
    BY <1>5, <2>2
       DEF Register, Begin, TypeOK, quietS, locks, Storing, Recording
<1>6. ASSUME NEW w \in Worker, NEW u \in User, Login(w, u) PROVE TypeOK'
  <2>1. Job("login", u) \in JobType
    BY JobTypes DEF Kind
  <2>2. /\ pc' \in [Worker -> Label] /\ job' \in [Worker -> JobType]
        /\ pc'[w] = "ask"
        /\ \A v \in Worker : v # w => pc'[v] = pc[v] /\ job'[v] = job[v]
    BY <1>6, <2>1, MoveType DEF Login, Begin, Label
  <2> QED
    BY <1>6, <2>2
       DEF Login, Begin, TypeOK, quietL, locks, Storing, Recording
<1>7. ASSUME NEW w \in Worker, NEW s \in sessions,
             NEW kind \in {"stream", "orchestrate"}, Present(w, s, kind)
      PROVE  TypeOK'
  <2>1. Job(kind, s.user) \in JobType
    BY JobTypes DEF Kind, TypeOK
  <2>2. /\ pc' \in [Worker -> Label] /\ job' \in [Worker -> JobType]
        /\ pc'[w] = "admit"
        /\ \A v \in Worker : v # w => pc'[v] = pc[v] /\ job'[v] = job[v]
    BY <1>7, <2>1, MoveType DEF Present, Begin, Label
  <2> QED
    BY <1>7, <2>2
       DEF Present, Begin, TypeOK, quietR, locks, Storing, Recording
<1>8. ASSUME NEW w \in Worker, Add(w) PROVE TypeOK'
  <2>1. job[w].user \in User /\ job[w].kind = "register"
    BY <1>8 DEF Add, JobInv
  <2>2. With(mem, job[w].user) \in Accounts
    BY <2>1, WithType DEF TypeOK
  <2>3. CASE End(w) /\ UNCHANGED <<mem, flock>>
    BY <1>8, <2>3, EndType DEF Add, TypeOK, quietS, Storing, Recording
  <2>4. CASE /\ mem' = With(mem, job[w].user) /\ flock' = w
             /\ Goto(w, "save") /\ UNCHANGED job
    <3>1. /\ pc' \in [Worker -> Label] /\ job' \in [Worker -> JobType]
          /\ pc'[w] = "save" /\ \A v \in Worker : v # w => pc'[v] = pc[v]
      BY <2>4, StayType DEF Label
    <3> QED
      BY <1>8, <2>1, <2>2, <2>4, <3>1 DEF Add, TypeOK, quietS, Storing, Recording
  <2> QED
    BY <1>8, <2>3, <2>4 DEF Add
<1>9. ASSUME NEW w \in Worker, Save(w) PROVE TypeOK'
  <2>1. job[w].user \in User /\ job[w].spent \in Nat
    BY <1>9 DEF Save, JobInv, TypeOK, JobType
  <2>2. Unlocked(w) \in Worker \cup {None} /\ Unlocked(w) # w
    BY DEF Unlocked, TypeOK
  <2>3. CASE job[w].kind = "register" /\ Goto(w, "ask") /\ UNCHANGED <<job, answered>>
    <3>1. /\ pc' \in [Worker -> Label] /\ job' \in [Worker -> JobType]
          /\ pc'[w] = "ask" /\ \A v \in Worker : v # w => pc'[v] = pc[v]
      BY <2>3, StayType DEF Label
    <3> QED
      BY <1>9, <2>2, <2>3, <3>1
         DEF Save, Payload, TypeOK, quietS, Storing, Recording, Unlocked
  <2>4. CASE /\ answered' = [answered EXCEPT ![job[w].user] = @ + job[w].spent]
             /\ End(w)
    BY <1>9, <2>1, <2>2, <2>4, EndType
       DEF Save, Payload, TypeOK, quietS, Storing, Recording, Unlocked
  <2> QED
    BY <1>9, <2>3, <2>4 DEF Save
<1>10. ASSUME NEW w \in Worker, SaveFails(w) PROVE TypeOK'
  BY <1>10, EndType
     DEF SaveFails, TypeOK, quietS, Storing, Recording, Unlocked
<1>11. ASSUME NEW w \in Worker, Ask(w) \/ Stamp(w) PROVE TypeOK'
  <2>1. [job[w] EXCEPT !.now = now] \in JobType
    BY DEF TypeOK, JobType
  <2>2. PICK l \in {"check", "issue"} : Goto(w, l)
    BY <1>11 DEF Ask, Stamp
  <2>3. /\ pc' \in [Worker -> Label] /\ job' \in [Worker -> JobType]
        /\ pc'[w] = l
        /\ \A v \in Worker : v # w => pc'[v] = pc[v] /\ job'[v] = job[v]
    BY <1>11, <2>1, <2>2, MoveType DEF Ask, Stamp, Label
  <2> QED
    BY <1>11, <2>3 DEF Ask, Stamp, TypeOK, quietL, locks, Storing, Recording
<1>12. ASSUME NEW w \in Worker, Check(w) PROVE TypeOK'
  <2>1. job[w].user \in User
    BY <1>12 DEF Check, JobInv
  <2>2. failed' \in [User -> SUBSET [at : Nat, n : Nat]]
    BY <1>12, <2>1 DEF Check, Recent, TypeOK
  <2>3. CASE End(w)
    BY <1>12, <2>2, <2>3, EndType
       DEF Check, TypeOK, quietL, locks, Storing, Recording
  <2>4. CASE Goto(w, "verify") /\ UNCHANGED job
    <3>1. /\ pc' \in [Worker -> Label] /\ job' \in [Worker -> JobType]
          /\ pc'[w] = "verify" /\ \A v \in Worker : v # w => pc'[v] = pc[v]
      BY <2>4, StayType DEF Label
    <3> QED
      BY <1>12, <2>2, <2>4, <3>1
         DEF Check, TypeOK, quietL, locks, Storing, Recording
  <2> QED
    BY <1>12, <2>3, <2>4 DEF Check
<1>13. ASSUME NEW w \in Worker, Mistake(w) PROVE TypeOK'
  <2>1. job[w].user \in User /\ job[w].now \in Nat
    BY <1>13 DEF Mistake, JobInv, TypeOK, JobType
  <2>2. failed' \in [User -> SUBSET [at : Nat, n : Nat]]
    BY <1>13, <2>1 DEF Mistake, TypeOK
  <2> QED
    BY <1>13, <2>2, EndType DEF Mistake, TypeOK, quietL, locks, Storing, Recording
<1>14. ASSUME NEW w \in Worker, Verified(w) PROVE TypeOK'
  <2>1. job[w].user \in User
    BY <1>14 DEF Verified, JobInv
  <2>2. /\ pc' \in [Worker -> Label] /\ job' \in [Worker -> JobType]
        /\ pc'[w] = "stamp" /\ \A v \in Worker : v # w => pc'[v] = pc[v]
    BY <1>14, StayType DEF Verified, Label
  <2> QED
    BY <1>14, <2>1, <2>2 DEF Verified, TypeOK, quietL, locks, Storing, Recording
<1>15. ASSUME NEW w \in Worker, Issue(w) PROVE TypeOK'
  <2>1. job[w].user \in User /\ job[w].now \in Nat
    BY <1>15 DEF Issue, JobInv, TypeOK, JobType
  <2>2. sessions' \subseteq [token : Nat, user : User, exp : Nat]
    BY <1>15, <2>1 DEF Issue, Live, TypeOK
  <2>3. created' \subseteq User /\ drawn' \in Nat
    BY <1>15, <2>1 DEF Issue, TypeOK
  <2> QED
    BY <1>15, <2>2, <2>3, EndType
       DEF Issue, TypeOK, quietL, locks, Storing, Recording
<1>16. ASSUME NEW s \in sessions, Expire(s) \/ Logout(s) PROVE TypeOK'
  BY <1>16
     DEF Expire, Logout, TypeOK, quietL, locks, threads, Storing, Recording
<1>17. ASSUME NEW w \in Worker, Admit(w) PROVE TypeOK'
  <2>1. CASE End(w)
    BY <1>17, <2>1, EndType DEF Admit, TypeOK, quietR, locks, Storing, Recording
  <2>2. CASE Goto(w, "call") /\ UNCHANGED job
    <3>1. /\ pc' \in [Worker -> Label] /\ job' \in [Worker -> JobType]
          /\ pc'[w] = "call" /\ \A v \in Worker : v # w => pc'[v] = pc[v]
      BY <2>2, StayType DEF Label
    <3> QED
      BY <1>17, <2>2, <3>1 DEF Admit, TypeOK, quietR, locks, Storing, Recording
  <2> QED
    BY <1>17, <2>1, <2>2 DEF Admit
<1>18. ASSUME NEW w \in Worker, Reply(w) PROVE TypeOK'
  <2>1. job[w].user \in User
    BY <1>18 DEF Reply, JobInv
  <2>2. PICK n \in 0..MaxUse :
          /\ pc[w] = "call"
          /\ total' = [total EXCEPT ![job[w].user] = @ + n]
          /\ \/ /\ job' = [job EXCEPT ![w].spent = n]
                /\ Goto(w, "charge")
             \/ End(w)
          /\ UNCHANGED <<quietR, file, mem, locks, jobs, answered>>
    BY <1>18 DEF Reply
  <2>3. total' \in [User -> Nat]
    BY <2>1, <2>2 DEF TypeOK
  <2>4. CASE job' = [job EXCEPT ![w].spent = n] /\ Goto(w, "charge")
    <3>1. [job[w] EXCEPT !.spent = n] \in JobType
      BY DEF TypeOK, JobType
    <3>2. /\ pc' \in [Worker -> Label] /\ job' \in [Worker -> JobType]
          /\ pc'[w] = "charge"
          /\ \A v \in Worker : v # w => pc'[v] = pc[v] /\ job'[v] = job[v]
      BY <2>4, <3>1, MoveType DEF Label
    <3> QED
      BY <2>2, <2>3, <3>2 DEF TypeOK, quietR, locks, Storing, Recording
  <2>5. CASE End(w)
    BY <2>2, <2>3, <2>5, EndType DEF TypeOK, quietR, locks, Storing, Recording
  <2> QED
    BY <2>2, <2>4, <2>5
<1>19. ASSUME NEW w \in Worker, CallFails(w) PROVE TypeOK'
  <2>1. job[w].user \in User
    BY <1>19 DEF CallFails, JobInv
  <2>2. total' \in [User -> Nat]
    BY <1>19, <2>1 DEF CallFails, TypeOK
  <2> QED
    BY <1>19, <2>2, EndType DEF CallFails, TypeOK, quietR, locks, Storing, Recording
<1>20. ASSUME NEW w \in Worker, Charge(w) PROVE TypeOK'
  <2>1. job[w].user \in User /\ job[w].kind = "orchestrate"
    BY <1>20 DEF Charge, JobInv
  <2>2. [job[w] EXCEPT !.base = mem.used[job[w].user]] \in JobType
    BY <2>1 DEF TypeOK, JobType, Accounts
  <2>3. /\ pc' \in [Worker -> Label] /\ job' \in [Worker -> JobType]
        /\ pc'[w] = "update"
        /\ \A v \in Worker : v # w => pc'[v] = pc[v] /\ job'[v] = job[v]
    BY <1>20, <2>2, MoveType DEF Charge, Label
  <2> QED
    BY <1>20, <2>3 DEF Charge, TypeOK, quietR, Storing, Recording
<1>21. ASSUME NEW w \in Worker, Update(w) PROVE TypeOK'
  <2>1. /\ job[w].user \in User /\ job[w].kind = "orchestrate"
        /\ job[w].base + job[w].spent \in Nat
    BY <1>21 DEF Update, JobInv, TypeOK, JobType
  <2>2. mem' \in Accounts
    BY <1>21, <2>1, WithUsedType DEF Update, TypeOK
  <2>3. /\ pc' \in [Worker -> Label] /\ job' \in [Worker -> JobType]
        /\ pc'[w] = "save" /\ \A v \in Worker : v # w => pc'[v] = pc[v]
    BY <1>21, StayType DEF Update, Label
  <2> QED
    BY <1>21, <2>1, <2>2, <2>3 DEF Update, TypeOK, quietR, Storing, Recording
<1>22. CASE UNCHANGED vars
  BY <1>22 DEF vars, TypeOK, locks, threads, history, Storing, Recording
<1> QED
  BY <1>1, <1>2, <1>3, <1>4, <1>5, <1>6, <1>7, <1>8, <1>9, <1>10, <1>11, <1>12,
     <1>13, <1>14, <1>15, <1>16, <1>17, <1>18, <1>19, <1>20, <1>21, <1>22
     DEF Next, Request, Work

----------------------------------------------------------------------------
(* What a thread has in hand.                                              *)

\* Only a new account and a charge change the store in memory; only a save
\* changes the file of a running server.
LEMMA Untouched ==
  ASSUME TypeOK, \A w \in Worker : JobInv(w), NEW w \in Worker,
         Work(w) \/ Request(w)
  PROVE  /\ up /\ up' = up
         /\ \A v \in Worker : v # w => pc'[v] = pc[v] /\ job'[v] = job[v]
         /\ file' = file \/ (Save(w) /\ file' = mem)
<1>1. CASE Request(w)
  BY <1>1 DEF Request, Register, Login, Present, Begin, Goto, TypeOK, quietS,
              quietL, quietR
<1>2. CASE Work(w)
  <2>1. up /\ up' = up
    BY <1>2 DEF Work, JobInv, Add, Save, SaveFails, Ask, Check, Mistake, Verified,
       Stamp, Issue, Admit, Reply, CallFails, Charge, Update, quietS, quietL, quietR
  <2>2. \A v \in Worker : v # w => pc'[v] = pc[v] /\ job'[v] = job[v]
    BY <1>2 DEF Work, Add, Save, SaveFails, Ask, Check, Mistake, Verified,
       Stamp, Issue, Admit, Reply, CallFails, Charge, Update, End, Goto, TypeOK
  <2>3. file' = file \/ (Save(w) /\ file' = mem)
    BY <1>2 DEF Work, Add, Save, SaveFails, Ask, Check, Mistake, Verified,
       Stamp, Issue, Admit, Reply, CallFails, Charge, Update, Payload, quietS,
       quietL, quietR
  <2> QED
    BY <2>1, <2>2, <2>3
<1> QED
  BY <1>1, <1>2

\* Nobody else updates the use of an account while a thread is between reading
\* it and putting it back.
LEMMA UseKept ==
  ASSUME TypeOK, \A w \in Worker : JobInv(w), NEW w \in Worker,
         Work(w) \/ Request(w), NEW v \in Worker, v # w, pc[v] = "update"
  PROVE  mem'.used = mem.used
<1>1. lock = v
  BY DEF TypeOK, Recording
<1>2. ~Update(w)
  BY <1>1 DEF Update, TypeOK, Recording
<1>3. CASE Add(w)
  <2>1. job[w].user \in User
    BY <1>3 DEF Add, JobInv
  <2> QED
    BY <1>3, <2>1, WithType DEF Add, TypeOK
<1>4. CASE ~Add(w)
  BY <1>2, <1>4 DEF Work, Request, Register, Login, Present, Save, SaveFails, Ask,
     Check, Mistake, Verified, Stamp, Issue, Admit, Reply, CallFails, Charge,
     quietS, quietL, quietR
<1> QED
  BY <1>3, <1>4

\* Updates are the only steps that change a use in memory.
LEMMA Updated ==
  ASSUME TypeOK, \A w \in Worker : JobInv(w), NEW w \in Worker, Update(w)
  PROVE  /\ job[w].user \in User /\ job[w].spent \in 0..MaxUse
         /\ job[w].kind = "orchestrate"
         /\ mem'.known = mem.known
         /\ mem'.used = [mem.used EXCEPT ![job[w].user] = @ + job[w].spent]
         /\ pc[w] = "update" /\ pc'[w] = "save" /\ job' = job
         /\ UNCHANGED <<up, file, created, answered, failed>>
<1>1. /\ job[w].user \in User /\ job[w].spent \in 0..MaxUse
      /\ job[w].kind = "orchestrate" /\ job[w].base = mem.used[job[w].user]
  BY DEF Update, JobInv, TypeOK, JobType
<1>2. mem.used[job[w].user] + job[w].spent \in Nat
  BY <1>1, NumberAssumption DEF TypeOK, Accounts
<1>3. /\ mem'.known = mem.known
      /\ mem'.used = [mem.used EXCEPT ![job[w].user] = @ + job[w].spent]
  BY <1>1, <1>2, WithUsedType DEF Update, TypeOK
<1> QED
  BY <1>1, <1>3 DEF Update, quietR, Goto, TypeOK

\* No account is ever removed.
LEMMA KnownGrows ==
  ASSUME TypeOK, \A w \in Worker : JobInv(w), LedgerInv, NEW w \in Worker,
         Work(w) \/ Request(w)
  PROVE  /\ file.known \subseteq file'.known
         /\ mem.known \subseteq mem'.known
<1>1. file.known \subseteq file'.known
  BY Untouched DEF LedgerInv
<1>2. CASE Add(w)
  <2>1. job[w].user \in User
    BY <1>2 DEF Add, JobInv
  <2> QED
    BY <1>1, <1>2, <2>1, WithType DEF Add, TypeOK
<1>4. CASE Update(w)
  BY <1>1, <1>4, Updated
<1>3. CASE ~Add(w) /\ ~Update(w)
  BY <1>1, <1>3 DEF Work, Request, Register, Login, Present, Save, SaveFails, Ask,
     Check, Mistake, Verified, Stamp, Issue, Admit, Reply, CallFails, Charge,
     quietS, quietL, quietR
<1> QED
  BY <1>2, <1>3, <1>4

LEMMA JobStep ==
  ASSUME TypeOK, TypeOK', \A w \in Worker : JobInv(w), LedgerInv, [Next]_vars
  PROVE  \A w \in Worker : JobInv(w)'
<1>1. CASE Tick \/ UNCHANGED vars
  BY <1>1 DEF Tick, vars, locks, threads, JobInv
<1>2. ASSUME NEW s \in sessions, Expire(s) \/ Logout(s)
      PROVE  \A w \in Worker : JobInv(w)'
  BY <1>2 DEF Expire, Logout, quietL, threads, JobInv
<1>3. CASE Boot \/ \E u \in User : UserAdd(u)
  <2>1. \A w \in Worker : pc[w] = "idle" /\ pc'[w] = "idle"
    BY <1>3 DEF Boot, UserAdd, threads, JobInv
  <2> QED
    BY <2>1 DEF JobInv
<1>4. CASE Crash
  BY <1>4 DEF Crash, JobInv
<1>5. ASSUME NEW w \in Worker, Work(w) \/ Request(w)
      PROVE  \A v \in Worker : JobInv(v)'
  <2>1. ASSUME NEW v \in Worker, v # w PROVE JobInv(v)'
    <3>1. up /\ up' /\ pc'[v] = pc[v] /\ job'[v] = job[v]
      BY <1>5, <2>1, Untouched
    <3>2. file.known \subseteq file'.known /\ mem.known \subseteq mem'.known
      BY <1>5, KnownGrows
    <3>3. pc[v] = "update" => mem'.used = mem.used
      BY <1>5, <2>1, UseKept
    <3>4. JobInv(v)
      OBVIOUS
    <3> QED
      BY <3>1, <3>2, <3>3, <3>4 DEF JobInv
  <2>2. JobInv(w)'
    <3>1. up /\ up'
      BY <1>5, Untouched
    <3>2. file.known \subseteq file'.known /\ mem.known \subseteq mem'.known
      BY <1>5, KnownGrows
    <3>3. ASSUME End(w) PROVE JobInv(w)'
      BY <3>3, EndType DEF JobInv
    <3>4. CASE Request(w)
      <4>1. PICK u \in User, kind \in Kind, l \in {"add", "ask", "admit"} :
              /\ Begin(w, Job(kind, u), l)
              /\ l = "add" => kind = "register"
              /\ l = "ask" => kind = "login"
              /\ l = "admit" => kind \in {"stream", "orchestrate"}
        <5>1. ASSUME NEW s \in sessions, NEW kind \in {"stream", "orchestrate"},
                     Present(w, s, kind)
              PROVE  s.user \in User /\ Begin(w, Job(kind, s.user), "admit")
          BY <5>1 DEF Present, TypeOK
        <5> QED
          BY <3>4, <5>1 DEF Request, Register, Login, Kind
      <4>2. job'[w] = Job(kind, u) /\ pc'[w] = l
        BY <4>1 DEF Begin, Goto, TypeOK
      <4>3. job'[w].user = u /\ job'[w].kind = kind
        BY <4>2 DEF Job, NoJob
      <4> QED
        BY <3>1, <4>1, <4>2, <4>3 DEF JobInv
    <3>5. CASE Add(w)
      <4>1. job[w].user \in User /\ job[w].kind = "register" /\ pc[w] = "add"
        BY <3>5 DEF Add, JobInv
      <4>2. CASE /\ mem' = With(mem, job[w].user)
                 /\ Goto(w, "save") /\ UNCHANGED job
        <5>1. job[w].user \in mem'.known
          BY <4>1, <4>2, WithType DEF TypeOK
        <5>2. pc'[w] = "save" /\ job'[w] = job[w]
          BY <4>2 DEF Goto, TypeOK
        <5> QED
          BY <3>1, <4>1, <5>1, <5>2 DEF JobInv
      <4> QED
        BY <3>3, <3>5, <4>2 DEF Add
    <3>6. CASE Save(w)
      <4>1. CASE /\ job[w].kind = "register" /\ Goto(w, "ask")
                 /\ UNCHANGED job
        <5>1. /\ pc'[w] = "ask" /\ pc[w] = "save" /\ job'[w] = job[w]
              /\ file' = mem
          BY <3>6, <4>1 DEF Save, Payload, Goto, TypeOK
        <5>2. JobInv(w)
          OBVIOUS
        <5> QED
          BY <3>1, <4>1, <5>1, <5>2 DEF JobInv
      <4> QED
        BY <3>3, <3>6, <4>1 DEF Save
    <3>7. CASE SaveFails(w) \/ Mistake(w) \/ Issue(w) \/ CallFails(w)
      BY <3>3, <3>7 DEF SaveFails, Mistake, Issue, CallFails
    <3>8. CASE Ask(w) \/ Stamp(w)
      <4>1. /\ job'[w].user = job[w].user /\ job'[w].kind = job[w].kind
            /\ pc[w] \in {"ask", "stamp"} /\ pc'[w] \in {"check", "issue"}
        BY <3>8 DEF Ask, Stamp, Goto, TypeOK, JobType
      <4>2. JobInv(w)
        OBVIOUS
      <4> QED
        BY <3>1, <3>2, <4>1, <4>2 DEF JobInv
    <3>9. CASE Check(w) \/ Verified(w) \/ Admit(w)
      <4>1. CASE UNCHANGED job
        <5>1. /\ pc[w] = "admit" => pc'[w] \in {"call", "idle"}
              /\ pc[w] \in {"check", "verify"} => pc'[w] \in {"verify", "stamp", "idle"}
              /\ pc[w] \in {"admit", "check", "verify"}
          BY <3>9 DEF Check, Verified, Admit, Goto, TypeOK, End
        <5>2. JobInv(w)
          OBVIOUS
        <5> QED
          BY <3>1, <3>2, <4>1, <5>1, <5>2 DEF JobInv
      <4> QED
        BY <3>3, <3>9, <4>1 DEF Check, Verified, Admit
    <3>10. CASE Reply(w)
      <4>1. PICK n \in 0..MaxUse :
              /\ pc[w] = "call"
              /\ \/ /\ job[w].kind # "stream"
                    /\ job' = [job EXCEPT ![w].spent = n] /\ Goto(w, "charge")
                 \/ End(w)
        BY <3>10 DEF Reply
      <4>2. CASE /\ job[w].kind # "stream"
                 /\ job' = [job EXCEPT ![w].spent = n] /\ Goto(w, "charge")
        <5>1. /\ pc'[w] = "charge" /\ job'[w].kind = job[w].kind
              /\ job'[w].user = job[w].user
          BY <4>2 DEF Goto, TypeOK, JobType
        <5>2. job[w].kind = "orchestrate" /\ job[w].user \in User
          BY <4>1, <4>2 DEF JobInv
        <5> QED
          BY <3>1, <5>1, <5>2 DEF JobInv
      <4> QED
        BY <3>3, <4>1, <4>2
    <3>11. CASE Charge(w)
      <4>1. /\ pc'[w] = "update" /\ job'[w].kind = job[w].kind
            /\ job'[w].user = job[w].user
            /\ job'[w].base = mem.used[job[w].user] /\ mem' = mem
        BY <3>11 DEF Charge, quietR, Goto, TypeOK, JobType
      <4>2. job[w].kind = "orchestrate" /\ job[w].user \in User
        BY <3>11 DEF Charge, JobInv
      <4> QED
        BY <3>1, <4>1, <4>2 DEF JobInv
    <3>12. CASE Update(w)
      <4>1. pc[w] = "update" /\ pc'[w] = "save" /\ job'[w] = job[w]
        BY <3>12 DEF Update, Goto, TypeOK
      <4>2. JobInv(w)
        OBVIOUS
      <4> QED
        BY <3>1, <4>1, <4>2 DEF JobInv
    <3> QED
      BY <1>5, <3>4, <3>5, <3>6, <3>7, <3>8, <3>9, <3>10, <3>11, <3>12 DEF Work
  <2> QED
    BY <2>1, <2>2
<1> QED
  BY <1>1, <1>2, <1>3, <1>4, <1>5 DEF Next

----------------------------------------------------------------------------
(* The file, the memory and what was reported.                             *)

\* A step that is none of the store's leaves it alone.
LEMMA StoreKept ==
  ASSUME TypeOK, \A w \in Worker : JobInv(w), NEW w \in Worker,
         Work(w) \/ Request(w), ~Add(w), ~Save(w), ~Update(w)
  PROVE  /\ UNCHANGED <<up, file, mem, answered>>
         /\ pc'[w] # "save"
         /\ \A v \in Worker : v # w => pc'[v] = pc[v] /\ job'[v] = job[v]
         /\ created' \subseteq created \cup file.known
<1>1. UNCHANGED <<file, mem, answered>>
  BY DEF Work, Request, Register, Login, Present, SaveFails, Ask,
     Check, Mistake, Verified, Stamp, Issue, Admit, Reply, CallFails, Charge,
     quietS, quietL, quietR
<1>2. pc'[w] # "save"
  BY DEF Work, Request, Register, Login, Present, Begin, SaveFails, Ask,
     Check, Mistake, Verified, Stamp, Issue, Admit, Reply, CallFails, Charge,
     End, Goto, TypeOK
<1>3. created' \subseteq created \cup file.known
  <2>1. CASE Issue(w)
    BY <2>1 DEF Issue, JobInv
  <2>2. CASE ~Issue(w)
    BY <2>2 DEF Work, Request, Register, Login, Present, SaveFails, Ask,
       Check, Mistake, Verified, Stamp, Admit, Reply, CallFails, Charge,
       quietS, quietR
  <2> QED
    BY <2>1, <2>2
<1> QED
  BY <1>1, <1>2, <1>3, Untouched

LEMMA LedgerStep ==
  ASSUME TypeOK, TypeOK', \A w \in Worker : JobInv(w) /\ SaveInv(w), LedgerInv,
         [Next]_vars
  PROVE  LedgerInv' /\ \A w \in Worker : SaveInv(w)'
<1>1. CASE Tick \/ UNCHANGED vars
  BY <1>1 DEF Tick, vars, locks, threads, history, SaveInv, LedgerInv, ReportedKept
<1>2. ASSUME NEW s \in sessions, Expire(s) \/ Logout(s)
      PROVE  LedgerInv' /\ \A w \in Worker : SaveInv(w)'
  BY <1>2 DEF Expire, Logout, quietL, threads, SaveInv, LedgerInv, ReportedKept
<1>3. CASE Boot
  <2>1. \A w \in Worker : pc[w] = "idle" /\ pc'[w] = "idle"
    BY <1>3 DEF Boot, threads, JobInv
  <2>2. file.known \subseteq Loaded.known /\ Loaded.used = file.used
    BY LoadedType DEF TypeOK
  <2>3. \A u \in User : file.used[u] \in Nat
    BY DEF TypeOK, Accounts
  <2> QED
    BY <1>3, <2>1, <2>2, <2>3 DEF Boot, history, SaveInv, LedgerInv, ReportedKept
<1>4. ASSUME NEW u \in User, UserAdd(u)
      PROVE  LedgerInv' /\ \A w \in Worker : SaveInv(w)'
  <2>1. \A w \in Worker : pc[w] = "idle" /\ pc'[w] = "idle"
    BY <1>4 DEF UserAdd, threads, JobInv
  <2>2. /\ file.known \cup {u} \subseteq With(Loaded, u).known
        /\ With(Loaded, u).used = file.used
    BY LoadedType, WithType DEF TypeOK
  <2> QED
    BY <1>4, <2>1, <2>2 DEF UserAdd, SaveInv, LedgerInv, ReportedKept
<1>5. CASE Crash
  BY <1>5 DEF Crash, history, SaveInv, LedgerInv, ReportedKept
<1>6. ASSUME NEW w \in Worker, Work(w) \/ Request(w)
      PROVE  LedgerInv' /\ \A v \in Worker : SaveInv(v)'
  <2> DEFINE u == job[w].user
  <2>0. /\ up /\ up'
        /\ \A v \in Worker : v # w => pc'[v] = pc[v] /\ job'[v] = job[v]
    BY <1>6, Untouched
  <2>n. /\ \A x \in User : /\ file.used[x] \in Nat /\ mem.used[x] \in Nat
                             /\ answered[x] \in Nat
        /\ \A v \in Worker : /\ job[v].spent \in Nat
                             /\ pc[v] # "idle" => job[v].user \in User
    BY DEF TypeOK, Accounts, JobType, JobInv
  <2>l. /\ \A x \in User : answered[x] <= file.used[x] /\ file.used[x] <= mem.used[x]
        /\ created \subseteq file.known /\ file.known \subseteq mem.known
    BY <2>0 DEF LedgerInv, ReportedKept
  <2>1. CASE Add(w)
    <3>1. /\ u \in User /\ job[w].kind = "register"
          /\ UNCHANGED <<file, created, answered>>
      BY <2>1 DEF Add, JobInv, quietS
    <3>2. mem'.used = mem.used /\ mem.known \subseteq mem'.known
      BY <2>1, <3>1, WithType DEF Add, TypeOK
    <3>3. pc'[w] = "save" => job'[w].kind = "register"
      BY <2>1, <3>1, EndType DEF Add
    <3> QED
      BY <2>0, <2>n, <2>l, <3>1, <3>2, <3>3 DEF LedgerInv, SaveInv, ReportedKept
  <2>2. CASE Update(w)
    <3>1. /\ u \in User /\ job[w].spent \in Nat
          /\ mem'.known = mem.known
          /\ mem'.used = [mem.used EXCEPT ![u] = @ + job[w].spent]
          /\ job' = job
          /\ UNCHANGED <<file, created, answered>>
      BY <2>2, <2>n, Updated
    <3>2. /\ mem'.used[u] = mem.used[u] + job[w].spent
          /\ \A x \in User : mem.used[x] <= mem'.used[x]
      BY <2>n, <3>1 DEF TypeOK, Accounts
    <3>3. LedgerInv'
      BY <2>n, <2>l, <3>1, <3>2 DEF LedgerInv, ReportedKept, TypeOK, Accounts
    <3>4. SaveInv(w)'
      BY <2>n, <2>l, <3>1, <3>2 DEF SaveInv
    <3>5. ASSUME NEW v \in Worker, v # w PROVE SaveInv(v)'
      <4>1. pc[v] # "save"
        BY <2>2, NameAssumption DEF Update, TypeOK, Storing
      <4> QED
        BY <2>0, <3>5, <4>1 DEF SaveInv
    <3> QED
      BY <3>3, <3>4, <3>5
  <2>3. CASE Save(w)
    <3>1. file' = mem /\ mem' = mem /\ created' = created /\ u \in User
      BY <2>3, <2>n DEF Save, Payload, quietS
    <3>2. \A x \in User : answered'[x] <= mem.used[x]
      <4>1. CASE answered' = answered
        BY <2>n, <2>l, <4>1
      <4>2. CASE /\ job[w].kind # "register"
                 /\ answered' = [answered EXCEPT ![u] = @ + job[w].spent]
        <5>1. answered[u] + job[w].spent <= mem.used[u]
          BY <2>3, <4>2 DEF Save, SaveInv, JobInv
        <5> QED
          BY <2>n, <2>l, <3>1, <4>2, <5>1 DEF TypeOK
      <4> QED
        BY <2>3, <4>1, <4>2 DEF Save
    <3>3. \A v \in Worker : pc'[v] # "save"
      <4>1. pc'[w] # "save"
        BY <2>3, EndType DEF Save, Goto, TypeOK
      <4>2. \A v \in Worker : v # w => pc[v] # "save"
        BY <2>3 DEF Save, TypeOK, Storing
      <4> QED
        BY <2>0, <4>1, <4>2
    <3> QED
      BY <2>n, <2>l, <3>1, <3>2, <3>3 DEF LedgerInv, ReportedKept, SaveInv
  <2>4. CASE ~Add(w) /\ ~Update(w) /\ ~Save(w)
    <3>1. /\ UNCHANGED <<up, file, mem, answered>>
          /\ pc'[w] # "save"
          /\ created' \subseteq created \cup file.known
      BY <1>6, <2>4, StoreKept
    <3> QED
      BY <2>0, <2>l, <3>1 DEF LedgerInv, ReportedKept, SaveInv
  <2> QED
    BY <2>1, <2>2, <2>3, <2>4
<1> QED
  BY <1>1, <1>2, <1>3, <1>4, <1>5, <1>6 DEF Next

----------------------------------------------------------------------------
(* The quota.                                                              *)

LEMMA Scale ==
  ASSUME NEW m \in Nat, NEW a \in Nat, NEW b \in Nat, a <= b
  PROVE  m * a \in Nat /\ m * a <= m * b
<1>1. PICK d \in Nat : b = a + d
  <2>1. b - a \in Nat /\ b = a + (b - a)
    OBVIOUS
  <2> QED
    BY <2>1
<1>2. m * b = m * a + m * d
  BY <1>1
<1>3. m * a \in Nat /\ m * d \in Nat
  BY <1>1
<1> QED
  BY <1>2, <1>3

LEMMA PendingSize ==
  ASSUME NEW u
  PROVE  /\ IsFiniteSet(Pending(u)) /\ Cardinality(Pending(u)) \in Nat
         /\ Cardinality(Worker) \in Nat
         /\ Cardinality(Pending(u)) <= Cardinality(Worker)
BY NameAssumption, FS_Subset, FS_CardinalityType DEF Pending

\* An account whose pending requests become fewer, or stay, keeps its bound as
\* long as it is charged no more.
LEMMA FewerPending ==
  ASSUME NEW u, NEW n \in Nat, n + MaxUse * Cardinality(Pending(u)) <= Limit,
         NEW S \in SUBSET Pending(u)
  PROVE  n + MaxUse * Cardinality(S) <= Limit
<1>1. /\ Cardinality(S) \in Nat /\ Cardinality(Pending(u)) \in Nat
      /\ Cardinality(S) <= Cardinality(Pending(u)) /\ Cardinality(Worker) \in Nat
  BY PendingSize, FS_Subset, FS_CardinalityType
<1>2. /\ MaxUse * Cardinality(S) <= MaxUse * Cardinality(Pending(u))
      /\ MaxUse * Cardinality(S) \in Nat
      /\ MaxUse * Cardinality(Pending(u)) \in Nat
      /\ MaxUse * Cardinality(Worker) \in Nat
  BY <1>1, Scale, NumberAssumption
<1>3. Limit \in Int
  BY <1>2, NumberAssumption DEF Limit
<1> QED
  BY <1>2, <1>3

LEMMA QuotaStep ==
  ASSUME TypeOK, TypeOK', \A w \in Worker : JobInv(w), LedgerInv, QuotaInv,
         [Next]_vars
  PROVE  QuotaInv'
<1> DEFINE Keeps(u) ==
      /\ file'.used[u] <= Limit
      /\ mem'.used[u] + MaxUse * Cardinality(Pending(u)') <= Limit
<1> SUFFICES ASSUME NEW u \in Limited PROVE Keeps(u)
  BY DEF QuotaInv, Limit
<1>u. u \in User
  BY NameAssumption
<1>n. file.used[u] \in Nat /\ mem.used[u] \in Nat
  BY <1>u DEF TypeOK, Accounts
<1>l. /\ Limit \in Nat /\ Cardinality(Worker) \in Nat
      /\ MaxUse * Cardinality(Worker) \in Nat
      /\ Limit = Quota - 1 + MaxUse * Cardinality(Worker)
  <2>1. Cardinality(Worker) \in Nat
    BY NameAssumption, FS_CardinalityType
  <2>2. MaxUse * Cardinality(Worker) \in Nat
    BY <2>1, Scale, NumberAssumption
  <2> QED
    BY <2>1, <2>2, NumberAssumption DEF Limit
<1>i. /\ file.used[u] <= Limit
      /\ mem.used[u] + MaxUse * Cardinality(Pending(u)) <= Limit
  BY DEF QuotaInv
<1>m. mem.used[u] <= Limit
  <2>1. MaxUse * Cardinality({}) = 0
    BY FS_EmptySet, NumberAssumption
  <2>2. mem.used[u] + MaxUse * Cardinality({}) <= Limit
    BY <1>n, <1>i, FewerPending
  <2> QED
    BY <1>n, <2>1, <2>2
<1>0. ASSUME \A w \in Worker : pc'[w] = "idle", mem'.used[u] \in Nat,
             mem'.used[u] <= Limit, file'.used[u] <= Limit
      PROVE  Keeps(u)
  <2>1. Pending(u)' = {}
    BY <1>0 DEF Pending
  <2>2. MaxUse * Cardinality(Pending(u)') = 0
    BY <2>1, FS_EmptySet, NumberAssumption
  <2> QED
    BY <1>0, <2>2
<1>1. CASE Tick \/ UNCHANGED vars
  <2>1. UNCHANGED <<file, mem, pc, job>>
    BY <1>1 DEF Tick, vars, threads
  <2> QED
    BY <2>1, <1>i DEF Pending
<1>2. ASSUME NEW s \in sessions, Expire(s) \/ Logout(s) PROVE Keeps(u)
  <2>1. UNCHANGED <<file, mem, pc, job>>
    BY <1>2 DEF Expire, Logout, quietL, threads
  <2> QED
    BY <2>1, <1>i DEF Pending
<1>3. CASE Boot \/ \E x \in User : UserAdd(x)
  <2>1. \A w \in Worker : pc'[w] = "idle"
    BY <1>3 DEF Boot, UserAdd, threads, JobInv
  <2>2. CASE Boot
    BY <1>0, <1>i, <1>n, <2>1, <2>2, LoadedType DEF Boot, TypeOK
  <2>3. ASSUME NEW x \in User, UserAdd(x) PROVE Keeps(u)
    <3>1. file'.used[u] = file.used[u] /\ mem' = mem
      BY <2>3, LoadedType, WithType DEF UserAdd, TypeOK
    <3> QED
      BY <1>0, <1>i, <1>n, <1>m, <2>1, <3>1
  <2> QED
    BY <1>3, <2>2, <2>3
<1>4. CASE Crash
  BY <1>0, <1>4, <1>i, <1>u, <1>l DEF Crash, NoAccounts
<1>5. ASSUME NEW w \in Worker, Work(w) \/ Request(w) PROVE Keeps(u)
  <2>0. \A v \in Worker : v # w => pc'[v] = pc[v] /\ job'[v] = job[v]
    BY <1>5, Untouched
  <2>f. file'.used[u] <= Limit
    <3>1. file' = file \/ file' = mem
      BY <1>5, Untouched
    <3> QED
      BY <1>i, <1>m, <3>1
  <2>1. CASE Update(w)
    <3>1. /\ job[w].user \in User /\ job[w].spent \in 0..MaxUse
          /\ mem'.used = [mem.used EXCEPT ![job[w].user] = @ + job[w].spent]
          /\ pc[w] = "update" /\ pc'[w] = "save" /\ job' = job
      BY <2>1, Updated
    <3>2. Pending(u)' = Pending(u) \ {w}
      BY <2>0, <3>1 DEF Pending
    <3>3. CASE job[w].user # u
      <4>1. mem'.used[u] = mem.used[u]
        BY <1>u, <3>1, <3>3 DEF TypeOK, Accounts
      <4> QED
        BY <1>i, <1>n, <2>f, <3>2, <4>1, FewerPending
    <3>4. CASE job[w].user = u
      <4> DEFINE c == Cardinality(Pending(u))
                 d == Cardinality(Pending(u)')
      <4>1. w \in Pending(u)
        BY <3>1, <3>4 DEF Pending
      <4>2. c \in Nat /\ d \in Nat /\ c = d + 1
        <5>1. IsFiniteSet(Pending(u)) /\ c \in Nat
          BY PendingSize
        <5>2. /\ IsFiniteSet(Pending(u) \ {w})
              /\ Cardinality(Pending(u) \ {w}) = c - 1
          BY <4>1, <5>1, FS_RemoveElement
        <5>3. d \in Nat /\ d = c - 1
          BY <3>2, <5>2, FS_CardinalityType
        <5> HIDE DEF c, d
        <5> QED
          BY <5>1, <5>3
      <4>3. MaxUse * c = MaxUse * d + MaxUse
        <5> HIDE DEF c, d
        <5> QED
          BY <4>2, NumberAssumption
      <4>4. MaxUse * c \in Nat /\ MaxUse * d \in Nat
        BY <4>2, Scale, NumberAssumption
      <4>5. mem'.used[u] = mem.used[u] + job[w].spent
        BY <1>u, <3>1, <3>4 DEF TypeOK, Accounts
      <4>6. mem.used[u] + MaxUse * c <= Limit
        BY <1>i
      <4>7. mem'.used[u] + MaxUse * d <= Limit
        <5> HIDE DEF c, d
        <5> QED
          BY <1>n, <1>l, <3>1, <4>3, <4>4, <4>5, <4>6, NumberAssumption
      <4> QED
        BY <2>f, <4>7
    <3> QED
      BY <3>3, <3>4
  <2>2. CASE Admit(w)
    <3>1. mem' = mem /\ job[w].user \in User
      BY <2>2 DEF Admit, JobInv
    <3>2. CASE u # job[w].user \/ End(w)
      <4>1. Pending(u)' \subseteq Pending(u)
        BY <2>0, <2>2, <3>2, EndType DEF Admit, Pending
      <4> QED
        BY <1>i, <1>n, <2>f, <3>1, <4>1, FewerPending
    <3>3. CASE u = job[w].user /\ ~Spent(u)
      <4>1. mem.used[u] <= Quota - 1
        BY <1>n, <3>3, NumberAssumption DEF Spent
      <4>2. /\ Cardinality(Pending(u)') \in Nat
            /\ Cardinality(Pending(u)') <= Cardinality(Worker)
        BY NameAssumption, FS_Subset, FS_CardinalityType DEF Pending
      <4>3. /\ MaxUse * Cardinality(Pending(u)') <= MaxUse * Cardinality(Worker)
            /\ MaxUse * Cardinality(Pending(u)') \in Nat
        BY <1>l, <4>2, Scale, NumberAssumption
      <4> QED
        BY <1>n, <1>l, <2>f, <3>1, <4>1, <4>3, NumberAssumption
    <3> QED
      BY <2>2, <3>2, <3>3 DEF Admit
  <2>3. CASE ~Update(w) /\ ~Admit(w)
    <3>1. mem'.used[u] = mem.used[u]
      <4>1. CASE Add(w)
        <5>1. job[w].user \in User
          BY <4>1 DEF Add, JobInv
        <5> QED
          BY <4>1, <5>1, WithType DEF Add, TypeOK
      <4>2. CASE Save(w)
        BY <4>2 DEF Save
      <4>3. CASE ~Add(w) /\ ~Save(w)
        BY <1>5, <2>3, <4>3, StoreKept
      <4> QED
        BY <4>1, <4>2, <4>3
    <3>2. \/ pc'[w] \notin {"call", "charge", "update"}
          \/ /\ pc[w] \in {"call", "charge"} /\ job'[w].user = job[w].user
      BY <1>5, <2>3 DEF Work, Request, Register, Login, Present, Begin, Add, Save,
         SaveFails, Ask, Check, Mistake, Verified, Stamp, Issue, Reply, CallFails,
         Charge, End, Goto, TypeOK, JobType
    <3>3. Pending(u)' \subseteq Pending(u)
      BY <2>0, <3>2 DEF Pending
    <3> QED
      BY <1>i, <1>n, <2>f, <3>1, <3>3, FewerPending
  <2> QED
    BY <2>1, <2>2, <2>3
<1> QED
  BY <1>1, <1>2, <1>3, <1>4, <1>5 DEF Next

----------------------------------------------------------------------------
(* Charges.                                                                *)

\* The tokens of one request are as many as they say.
LEMMA RowSize ==
  ASSUME NEW w, NEW n \in Nat
  PROVE  /\ IsFiniteSet({w} \X (1..n))
         /\ Cardinality({w} \X (1..n)) = n
<1>1. IsFiniteSet(1..n) /\ Cardinality(1..n) = n
  BY FS_Interval
<1>2. IsFiniteSet({w}) /\ Cardinality({w}) = 1
  BY FS_Singleton
<1>3. /\ IsFiniteSet({w} \X (1..n))
      /\ Cardinality({w} \X (1..n)) = Cardinality({w}) * Cardinality(1..n)
  BY <1>1, <1>2, FS_Product
<1> QED
  BY <1>1, <1>2, <1>3

LEMMA OwedFinite ==
  ASSUME NEW u
  PROVE  /\ IsFiniteSet(Owed(u)) /\ Cardinality(Owed(u)) \in Nat
         /\ IsFiniteSet(Owed(u)') /\ Cardinality(Owed(u)') \in Nat
<1>1. IsFiniteSet(1..MaxUse)
  BY FS_Interval, NumberAssumption
<1>2. IsFiniteSet(Worker \X (1..MaxUse))
  BY <1>1, FS_Product, NameAssumption
<1>3. Owed(u) \subseteq Worker \X (1..MaxUse) /\ Owed(u)' \subseteq Worker \X (1..MaxUse)
  BY DEF Owed
<1> QED
  BY <1>2, <1>3, FS_Subset, FS_CardinalityType

\* A step that charges nothing and after which no more is owed.
LEMMA ChargeKept ==
  ASSUME NEW u, NEW m \in Nat, NEW n \in Nat, NEW t \in Nat, NEW r \in Nat,
         m + Cardinality(Owed(u)) <= t, n <= m, t <= r,
         Owed(u)' \subseteq Owed(u)
  PROVE  n + Cardinality(Owed(u)') <= r
<1>1. /\ Cardinality(Owed(u)) \in Nat /\ Cardinality(Owed(u)') \in Nat
      /\ Cardinality(Owed(u)') <= Cardinality(Owed(u))
  BY OwedFinite, FS_Subset
<1> DEFINE c == Cardinality(Owed(u))
           d == Cardinality(Owed(u)')
<1> HIDE DEF c, d
<1>2. c \in Nat /\ d \in Nat /\ d <= c /\ m + c <= t
  BY <1>1 DEF c, d
<1>3. n + d <= r
  BY <1>2
<1> QED
  BY <1>3 DEF d

LEMMA ChargeStep ==
  ASSUME TypeOK, TypeOK', \A w \in Worker : JobInv(w), ChargeInv, [Next]_vars
  PROVE  ChargeInv'
<1> DEFINE Keeps(u) == /\ file'.used[u] <= total'[u]
                       /\ mem'.used[u] + Cardinality(Owed(u)') <= total'[u]
<1> SUFFICES ASSUME NEW u \in User PROVE Keeps(u)
  BY DEF ChargeInv
<1>n. /\ file.used[u] \in Nat /\ mem.used[u] \in Nat /\ total[u] \in Nat
      /\ file'.used[u] \in Nat /\ mem'.used[u] \in Nat /\ total'[u] \in Nat
  BY DEF TypeOK, Accounts
<1>i. /\ file.used[u] <= total[u]
      /\ mem.used[u] + Cardinality(Owed(u)) <= total[u]
      /\ Cardinality(Owed(u)) \in Nat
  BY OwedFinite DEF ChargeInv
<1>m. mem.used[u] <= total[u]
  BY <1>n, <1>i
<1>0. ASSUME \A w \in Worker : pc'[w] = "idle", mem'.used[u] <= total'[u],
             file'.used[u] <= total'[u]
      PROVE  Keeps(u)
  <2>1. Owed(u)' = {}
    BY <1>0 DEF Owed, Owing
  <2>2. Cardinality(Owed(u)') = 0
    BY <2>1, FS_EmptySet
  <2> QED
    BY <1>0, <1>n, <2>2
<1>1. CASE Tick \/ UNCHANGED vars
  <2>1. UNCHANGED <<file, mem, pc, job, total>>
    BY <1>1 DEF Tick, vars, threads, history
  <2> QED
    BY <2>1, <1>i DEF Owed, Owing
<1>2. ASSUME NEW s \in sessions, Expire(s) \/ Logout(s) PROVE Keeps(u)
  <2>1. UNCHANGED <<file, mem, pc, job, total>>
    BY <1>2 DEF Expire, Logout, quietL, threads
  <2> QED
    BY <2>1, <1>i DEF Owed, Owing
<1>3. CASE Boot \/ \E x \in User : UserAdd(x)
  <2>1. (\A w \in Worker : pc'[w] = "idle") /\ total' = total
    BY <1>3 DEF Boot, UserAdd, threads, history, JobInv
  <2>2. CASE Boot
    BY <1>0, <1>i, <2>1, <2>2, LoadedType DEF Boot, TypeOK
  <2>3. ASSUME NEW x \in User, UserAdd(x) PROVE Keeps(u)
    <3>1. file'.used[u] = file.used[u] /\ mem' = mem
      BY <2>3, LoadedType, WithType DEF UserAdd, TypeOK
    <3> QED
      BY <1>0, <1>i, <1>m, <2>1, <3>1
  <2> QED
    BY <1>3, <2>2, <2>3
<1>4. CASE Crash
  <2>1. (\A w \in Worker : pc'[w] = "idle") /\ total' = total /\ file' = file
    BY <1>4 DEF Crash, history
  <2>2. mem'.used[u] = 0
    BY <1>4 DEF Crash, NoAccounts
  <2> QED
    BY <1>0, <1>i, <1>n, <2>1, <2>2
<1>5. ASSUME NEW w \in Worker, Work(w) \/ Request(w) PROVE Keeps(u)
  <2>0. \A v \in Worker : v # w => pc'[v] = pc[v] /\ job'[v] = job[v]
    BY <1>5, Untouched
  <2>t. total[u] <= total'[u]
    <3>1. CASE Reply(w)
      <4>1. PICK n \in 0..MaxUse : total' = [total EXCEPT ![job[w].user] = @ + n]
        BY <3>1 DEF Reply
      <4> QED
        BY <1>n, <4>1, NumberAssumption DEF TypeOK
    <3>2. CASE CallFails(w)
      <4>1. PICK n \in 0..MaxUse : total' = [total EXCEPT ![job[w].user] = @ + n]
        BY <3>2 DEF CallFails
      <4> QED
        BY <1>n, <4>1, NumberAssumption DEF TypeOK
    <3>3. CASE ~Reply(w) /\ ~CallFails(w)
      <4>1. total' = total
        BY <1>5, <3>3 DEF Work, Request, Register, Login, Present, Add, Save,
           SaveFails, Ask, Check, Mistake, Verified, Stamp, Issue, Admit, Charge,
           Update, quietS, quietL, quietR
      <4> QED
        BY <1>n, <4>1
    <3> QED
      BY <3>1, <3>2, <3>3
  <2>f. file'.used[u] <= total'[u]
    <3>1. file' = file \/ file' = mem
      BY <1>5, Untouched
    <3> QED
      BY <1>i, <1>m, <1>n, <2>t, <3>1
  <2>r. ASSUME Owed(u)' \subseteq Owed(u), mem'.used[u] <= mem.used[u]
        PROVE  Keeps(u)
    BY <1>i, <1>n, <2>t, <2>f, <2>r, ChargeKept
  <2>1. CASE Update(w)
    <3>1. /\ job[w].user \in User /\ job[w].spent \in 0..MaxUse
          /\ mem'.used = [mem.used EXCEPT ![job[w].user] = @ + job[w].spent]
          /\ pc[w] = "update" /\ pc'[w] = "save" /\ job' = job
      BY <2>1, Updated
    <3>2. CASE job[w].user # u
      <4>1. mem'.used[u] = mem.used[u]
        BY <3>1, <3>2 DEF TypeOK, Accounts
      <4>2. Owed(u)' \subseteq Owed(u)
        BY <2>0, <3>1 DEF Owed, Owing
      <4> QED
        BY <1>n, <2>r, <4>1, <4>2
    <3>3. CASE job[w].user = u
      <4> DEFINE n == job[w].spent
                 row == {w} \X (1..n)
                 c == Cardinality(Owed(u))
                 d == Cardinality(Owed(u)')
      <4>n. n \in Nat /\ n <= MaxUse /\ 1..n \subseteq 1..MaxUse
        BY <3>1, NumberAssumption
      <4>1. mem'.used[u] = mem.used[u] + n
        BY <3>1, <3>3 DEF TypeOK, Accounts
      <4>2. Owed(u)' = Owed(u) \ row
        BY <2>0, <3>1 DEF Owed, Owing
      <4>3. Owed(u) \cap row = row
        <5>1. Owing(w, u)
          BY <3>1, <3>3 DEF Owing
        <5> QED
          BY <4>n, <5>1 DEF Owed
      <4>4. d = c - n
        <5>1. Cardinality(row) = n
          BY <4>n, RowSize
        <5>2. Cardinality(Owed(u) \ row) = c - Cardinality(Owed(u) \cap row)
          BY OwedFinite, FS_Difference
        <5> QED
          BY <4>2, <4>3, <5>1, <5>2
      <4>5. c \in Nat /\ d \in Nat /\ mem.used[u] + c <= total[u]
        BY <1>i, OwedFinite
      <4> HIDE DEF n, c, d, row
      <4>6. mem'.used[u] + d <= total'[u]
        BY <1>n, <2>t, <4>n, <4>1, <4>4, <4>5
      <4> QED
        BY <2>f, <4>6 DEF d
    <3> QED
      BY <3>2, <3>3
  <2>m. CASE ~Update(w)
    <3>1. mem'.used[u] = mem.used[u]
      <4>1. CASE Add(w)
        <5>1. job[w].user \in User
          BY <4>1 DEF Add, JobInv
        <5> QED
          BY <4>1, <5>1, WithType DEF Add, TypeOK
      <4>2. CASE Save(w)
        BY <4>2 DEF Save
      <4>3. CASE ~Add(w) /\ ~Save(w)
        BY <1>5, <2>m, <4>3, StoreKept
      <4> QED
        BY <4>1, <4>2, <4>3
    <3>2. CASE Reply(w) /\ pc'[w] = "charge" /\ job[w].user = u
      <4>1. PICK n \in 0..MaxUse :
              /\ total' = [total EXCEPT ![job[w].user] = @ + n]
              /\ \/ /\ job[w].kind # "stream" /\ n > 0
                    /\ job' = [job EXCEPT ![w].spent = n]
                    /\ Goto(w, "charge")
                 \/ (job[w].kind = "stream" \/ n = 0) /\ End(w)
        BY <3>2 DEF Reply
      <4> DEFINE row == {w} \X (1..n)
                 c == Cardinality(Owed(u))
                 d == Cardinality(Owed(u)')
      <4>2. job' = [job EXCEPT ![w].spent = n] /\ pc[w] = "call"
        BY <3>2, <4>1, EndType DEF Reply
      <4>3. job'[w].spent = n /\ job'[w].user = u
        BY <3>2, <4>2 DEF TypeOK, JobType
      <4>4. Owed(u)' = Owed(u) \cup row
        <5>1. n <= MaxUse /\ 1..n \subseteq 1..MaxUse
          BY NumberAssumption
        <5>2. ~Owing(w, u) /\ Owing(w, u)'
          BY <3>2, <4>2, <4>3 DEF Owing
        <5>3. \A v \in Worker : v # w => Owing(v, u)' = Owing(v, u)
          BY <2>0 DEF Owing
        <5>4. ASSUME NEW v \in Worker, NEW k \in 1..MaxUse
              PROVE  <<v, k>> \in Owed(u)' <=> <<v, k>> \in Owed(u) \cup row
          <6>1. <<v, k>> \in Owed(u)' <=> Owing(v, u)' /\ k <= job'[v].spent
            BY DEF Owed
          <6>2. <<v, k>> \in Owed(u) <=> Owing(v, u) /\ k <= job[v].spent
            BY DEF Owed
          <6>3. <<v, k>> \in row <=> v = w /\ k <= n
            BY <5>4
          <6> QED
            BY <2>0, <4>3, <5>2, <5>3, <6>1, <6>2, <6>3
        <5>5. /\ Owed(u)' \subseteq Worker \X (1..MaxUse)
              /\ Owed(u) \cup row \subseteq Worker \X (1..MaxUse)
          BY <5>1 DEF Owed
        <5> QED
          BY <5>4, <5>5
      <4>5. Owed(u) \cap row = {}
        BY <4>2 DEF Owed, Owing
      <4>6. n \in Nat /\ d = c + n
        <5>1. n \in Nat
          BY NumberAssumption
        <5>2. IsFiniteSet(row) /\ Cardinality(row) = n
          BY <5>1, RowSize
        <5>3. Cardinality(Owed(u) \cup row)
                = c + Cardinality(row) - Cardinality(Owed(u) \cap row)
          BY <5>2, OwedFinite, FS_Union
        <5>4. Cardinality(Owed(u) \cap row) = 0
          BY <4>5, FS_EmptySet
        <5>5. c \in Nat
          BY OwedFinite
        <5> QED
          BY <4>4, <5>1, <5>2, <5>3, <5>4, <5>5
      <4>7. total'[u] = total[u] + n
        BY <3>2, <4>1 DEF TypeOK
      <4>8. c \in Nat /\ mem.used[u] + c <= total[u]
        BY <1>i
      <4> HIDE DEF row, c, d
      <4>9. mem'.used[u] + d <= total'[u]
        BY <1>n, <3>1, <4>6, <4>7, <4>8
      <4> QED
        BY <2>f, <4>9 DEF d
    <3>3. CASE ~(Reply(w) /\ pc'[w] = "charge" /\ job[w].user = u)
      <4>1. \/ ~Owing(w, u)'
            \/ Owing(w, u) /\ job'[w].spent = job[w].spent
        <5>1. CASE Reply(w)
          <6>1. \/ pc'[w] = "charge" /\ job'[w].user = job[w].user
                \/ pc'[w] = "idle"
            BY <5>1, EndType DEF Reply, Goto, TypeOK, JobType
          <6> QED
            BY <3>3, <5>1, <6>1 DEF Owing
        <5>2. CASE Charge(w)
          BY <5>2 DEF Charge, Owing, TypeOK, JobType
        <5>3. CASE ~Reply(w) /\ ~Charge(w)
          <6>1. pc'[w] \notin {"charge", "update"}
            BY <1>5, <2>m, <5>3 DEF Work, Request, Register, Login, Present, Begin,
               Add, Save, SaveFails, Ask, Check, Mistake, Verified, Stamp, Issue,
               Admit, CallFails, End, Goto, TypeOK
          <6> QED
            BY <6>1 DEF Owing
        <5> QED
          BY <5>1, <5>2, <5>3
      <4>2. \A v \in Worker : v # w => Owing(v, u)' = Owing(v, u)
        BY <2>0 DEF Owing
      <4>3. Owed(u)' \subseteq Owed(u)
        BY <2>0, <4>1, <4>2 DEF Owed
      <4> QED
        BY <1>n, <2>r, <3>1, <4>3
    <3> QED
      BY <3>2, <3>3
  <2> QED
    BY <2>1, <2>m
<1> QED
  BY <1>1, <1>2, <1>3, <1>4, <1>5 DEF Next

----------------------------------------------------------------------------
(* The lockout.                                                            *)

LEMMA TryingSize ==
  ASSUME NEW u
  PROVE  /\ IsFiniteSet(Trying(u)) /\ Cardinality(Trying(u)) \in Nat
         /\ Cardinality(Worker) \in Nat
         /\ Cardinality(Trying(u)) <= Cardinality(Worker)
BY NameAssumption, FS_Subset, FS_CardinalityType DEF Trying

LEMMA TryingSizeNext ==
  ASSUME NEW u
  PROVE  /\ IsFiniteSet(Trying(u)') /\ Cardinality(Trying(u)') \in Nat
         /\ Cardinality(Trying(u)') <= Cardinality(Worker)
BY NameAssumption, FS_Subset, FS_CardinalityType DEF Trying

\* Attempts that are forgotten or end leave the others within the bound.
LEMMA FewerAttempts ==
  ASSUME NEW F, IsFiniteSet(F), NEW T, IsFiniteSet(T),
         NEW G \in SUBSET F, NEW S \in SUBSET T, NEW n \in Nat,
         Cardinality(F) + Cardinality(T) <= n
  PROVE  IsFiniteSet(G) /\ Cardinality(G) + Cardinality(S) <= n
<1>1. /\ IsFiniteSet(G) /\ Cardinality(G) \in Nat /\ Cardinality(F) \in Nat
      /\ Cardinality(G) <= Cardinality(F)
  BY FS_Subset, FS_CardinalityType
<1>2. /\ Cardinality(S) \in Nat /\ Cardinality(T) \in Nat
      /\ Cardinality(S) <= Cardinality(T)
  BY FS_Subset, FS_CardinalityType
<1> QED
  BY <1>1, <1>2

LEMMA AttemptStep ==
  ASSUME TypeOK, TypeOK', \A w \in Worker : JobInv(w), AttemptInv, LockoutBounded,
         [Next]_vars
  PROVE  AttemptInv' /\ LockoutBounded'
<1> DEFINE Bound == MaxAttempts - 1 + Cardinality(Worker)
           Keeps(u) == /\ IsFiniteSet(failed'[u])
                       /\ Cardinality(failed'[u]) + Cardinality(Trying(u)') <= Bound
<1> SUFFICES ASSUME NEW u \in User PROVE Keeps(u)
  BY DEF AttemptInv, LockoutBounded
<1>b. Bound \in Nat /\ Cardinality(Worker) \in Nat
  BY TryingSize, NumberAssumption
<1>i. /\ IsFiniteSet(failed[u]) /\ IsFiniteSet(Trying(u))
      /\ Cardinality(failed[u]) + Cardinality(Trying(u)) <= Bound
  BY TryingSize DEF AttemptInv, LockoutBounded
<1> HIDE DEF Bound
<1>0. ASSUME failed'[u] \subseteq failed[u], Trying(u)' \subseteq Trying(u)
      PROVE  Keeps(u)
  BY <1>0, <1>b, <1>i, FewerAttempts
<1>1. CASE Tick \/ UNCHANGED vars
  <2>1. UNCHANGED <<failed, pc, job>>
    BY <1>1 DEF Tick, vars, threads
  <2> QED
    BY <2>1, <1>0 DEF Trying
<1>2. ASSUME NEW s \in sessions, Expire(s) \/ Logout(s) PROVE Keeps(u)
  <2>1. UNCHANGED <<failed, pc, job>>
    BY <1>2 DEF Expire, Logout, threads
  <2> QED
    BY <2>1, <1>0 DEF Trying
<1>3. CASE Boot \/ \E x \in User : UserAdd(x)
  <2>1. UNCHANGED <<failed, pc, job>>
    BY <1>3 DEF Boot, UserAdd, threads
  <2> QED
    BY <2>1, <1>0 DEF Trying
<1>4. CASE Crash
  <2>1. failed'[u] = {} /\ Trying(u)' = {}
    BY <1>4 DEF Crash, Trying
  <2> QED
    BY <2>1, <1>0
<1>5. ASSUME NEW w \in Worker, Work(w) \/ Request(w) PROVE Keeps(u)
  <2>0. \A v \in Worker : v # w => pc'[v] = pc[v] /\ job'[v] = job[v]
    BY <1>5, Untouched
  <2>1. CASE Check(w)
    <3> DEFINE recent == Recent(job[w].user, job[w].now)
    <3>1. /\ failed' = [failed EXCEPT ![job[w].user] = recent]
          /\ recent \subseteq failed[job[w].user] /\ job[w].user \in User
      BY <2>1 DEF Check, Recent, JobInv
    <3>2. failed'[u] \subseteq failed[u]
      BY <3>1 DEF TypeOK
    <3>3. CASE End(w)
      <4>1. Trying(u)' \subseteq Trying(u)
        BY <2>0, <3>3, EndType DEF Trying
      <4> QED
        BY <1>0, <3>2, <4>1
    <3>4. CASE UNCHANGED job /\ u # job[w].user
      <4>1. Trying(u)' \subseteq Trying(u)
        BY <2>0, <3>4 DEF Trying
      <4> QED
        BY <1>0, <3>2, <4>1
    <3>5. CASE ~Locked(recent) /\ u = job[w].user
      <4>1. failed'[u] = recent
        BY <3>1, <3>5 DEF TypeOK
      <4>2. IsFiniteSet(recent) /\ Cardinality(recent) \in Nat
        BY <1>i, <3>1, <3>5, FS_Subset, FS_CardinalityType
      <4>3. Cardinality(recent) <= MaxAttempts - 1
        BY <3>5, <4>2, NumberAssumption DEF Locked
      <4>4. /\ Cardinality(Trying(u)') \in Nat
            /\ Cardinality(Trying(u)') <= Cardinality(Worker)
        BY TryingSizeNext
      <4> HIDE DEF recent
      <4> QED
        BY <1>b, <4>1, <4>2, <4>3, <4>4, NumberAssumption DEF Bound
    <3> QED
      BY <2>1, <3>3, <3>4, <3>5 DEF Check
  <2>2. CASE Mistake(w)
    <3>1. PICK x : failed' = [failed EXCEPT ![job[w].user] = @ \cup {x}]
      BY <2>2 DEF Mistake
    <3>2. job[w].user \in User /\ pc[w] = "verify" /\ End(w)
      BY <2>2 DEF Mistake, JobInv
    <3>3. Trying(u)' = Trying(u) \ {w}
      BY <2>0, <3>2, EndType DEF Trying
    <3>4. CASE u # job[w].user
      <4>1. failed'[u] \subseteq failed[u]
        BY <3>1, <3>2, <3>4 DEF TypeOK
      <4> QED
        BY <1>0, <3>3, <4>1
    <3>5. CASE u = job[w].user
      <4> DEFINE F == failed[u]
                 T == Trying(u)
      <4>1. w \in T /\ failed'[u] = F \cup {x}
        BY <3>1, <3>2, <3>5 DEF Trying, TypeOK
      <4>2. Cardinality(F) \in Nat /\ Cardinality(T) \in Nat
        BY <1>i, FS_CardinalityType
      <4> HIDE DEF F, T
      <4>3. IsFiniteSet(F \cup {x}) /\ Cardinality(F \cup {x}) <= Cardinality(F) + 1
        <5>1. IsFiniteSet(F)
          BY <1>i DEF F
        <5>2. /\ IsFiniteSet(F \cup {x})
              /\ Cardinality(F \cup {x}) =
                   IF x \in F THEN Cardinality(F) ELSE Cardinality(F) + 1
          BY <5>1, FS_AddElement
        <5> QED
          BY <4>2, <5>2
      <4>4. Cardinality(T \ {w}) = Cardinality(T) - 1
        BY <1>i, <4>1, FS_RemoveElement DEF T
      <4>5. Cardinality(F \cup {x}) \in Nat
        BY <4>3, FS_CardinalityType
      <4>6. Cardinality(F \cup {x}) + Cardinality(T \ {w}) <= Bound
        BY <1>b, <1>i, <4>2, <4>3, <4>4, <4>5 DEF F, T
      <4> QED
        BY <3>3, <4>1, <4>3, <4>6 DEF T
    <3> QED
      BY <3>4, <3>5
  <2>3. CASE Verified(w)
    <3>1. /\ failed' = [failed EXCEPT ![job[w].user] = {}] /\ job[w].user \in User
          /\ pc'[w] = "stamp"
      BY <2>3 DEF Verified, JobInv, Goto, TypeOK
    <3>2. failed'[u] \subseteq failed[u] /\ Trying(u)' \subseteq Trying(u)
      BY <2>0, <3>1 DEF TypeOK, Trying
    <3> QED
      BY <1>0, <3>2
  <2>4. CASE ~Check(w) /\ ~Mistake(w) /\ ~Verified(w)
    <3>1. failed' = failed
      BY <1>5, <2>4 DEF Work, Request, Register, Login, Present, Add,
         Save, SaveFails, Ask, Stamp, Issue, Admit, Reply, CallFails, Charge,
         Update, quietS, quietL, quietR
    <3>2. pc'[w] # "verify"
      BY <1>5, <2>4 DEF Work, Request, Register, Login, Present, Begin, Add, Save,
         SaveFails, Ask, Stamp, Issue, Admit, Reply, CallFails, Charge, Update,
         End, Goto, TypeOK
    <3>3. Trying(u)' \subseteq Trying(u)
      BY <2>0, <3>2 DEF Trying
    <3> QED
      BY <1>0, <3>1, <3>3
  <2> QED
    BY <2>1, <2>2, <2>3, <2>4
<1> QED
  BY <1>1, <1>2, <1>3, <1>4, <1>5 DEF Next

----------------------------------------------------------------------------
(* Sessions.                                                               *)

\* A thread that leaves the issuing of a session while the server runs has
\* issued it.
LEMMA IssueOnly ==
  ASSUME TypeOK, \A v \in Worker : JobInv(v), NEW w \in Worker, pc[w] = "issue",
         [Next]_vars, pc'[w] = "idle", up'
  PROVE  Issue(w)
<1>1. pc'[w] # pc[w]
  OBVIOUS
<1>2. PICK v \in Worker : Work(v) \/ Request(v)
  BY <1>1 DEF Next, Tick, Boot, Crash, UserAdd, Expire, Logout, vars, threads
<1>3. v = w
  BY <1>1, <1>2, Untouched
<1> QED
  BY <1>2, <1>3 DEF Work, Request, Register, Login, Present, Begin, Add, Save,
     SaveFails, Ask, Check, Mistake, Verified, Stamp, Admit, Reply, CallFails,
     Charge, Update

LEMMA SessionStep ==
  ASSUME TypeOK, TypeOK', \A w \in Worker : JobInv(w), SessionInv, [Next]_vars
  PROVE  SessionInv'
<1>n. /\ now \in Nat /\ drawn \in Nat /\ now' \in Nat /\ drawn' \in Nat
      /\ \A w \in Worker : job[w].now \in Nat /\ job'[w].now \in Nat
      /\ \A s \in sessions : s.token \in Nat
  BY DEF TypeOK, JobType
<1>i. /\ \A w \in Worker : job[w].now <= now
      /\ IsFiniteSet(sessions)
      /\ \A s \in sessions : s.token <= drawn
  BY DEF SessionInv
<1>0. ASSUME now <= now', drawn <= drawn', sessions' \subseteq sessions,
             \A w \in Worker : \/ job'[w].now = job[w].now
                               \/ job'[w].now = now
                               \/ job'[w].now = 0
      PROVE  SessionInv'
  <2>1. IsFiniteSet(sessions')
    BY <1>0, <1>i, FS_Subset
  <2>2. \A w \in Worker : job'[w].now <= now'
    BY <1>0, <1>i, <1>n
  <2>3. \A s \in sessions' : s.token <= drawn'
    BY <1>0, <1>i, <1>n
  <2> QED
    BY <2>1, <2>2, <2>3 DEF SessionInv
<1>1. CASE Tick \/ Boot \/ UNCHANGED vars \/ \E x \in User : UserAdd(x)
  <2>1. sessions' = sessions /\ job' = job /\ drawn' = drawn /\ now <= now'
    BY <1>1, <1>n DEF Tick, Boot, UserAdd, vars, threads, history
  <2> QED
    BY <1>0, <1>n, <2>1
<1>2. CASE \E s \in sessions : Expire(s) \/ Logout(s)
  <2>1. sessions' \subseteq sessions /\ job' = job /\ drawn' = drawn /\ now' = now
    BY <1>2 DEF Expire, Logout, quietL, threads
  <2> QED
    BY <1>0, <1>n, <2>1
<1>3. CASE Crash
  <2>1. /\ sessions' = {} /\ drawn' = drawn /\ now' = now
        /\ \A w \in Worker : job'[w].now = 0
    BY <1>3 DEF Crash, history, NoJob
  <2> QED
    BY <1>0, <1>n, <2>1
<1>4. ASSUME NEW w \in Worker, Work(w) \/ Request(w) PROVE SessionInv'
  <2>0. \A v \in Worker : v # w => job'[v] = job[v]
    BY <1>4, Untouched
  <2>1. now' = now
    BY <1>4 DEF Work, Request, Register, Login, Present, Add, Save, SaveFails, Ask,
       Check, Mistake, Verified, Stamp, Issue, Admit, Reply, CallFails, Charge,
       Update, quietS, quietL, quietR
  <2>2. \/ job'[w].now = job[w].now
        \/ job'[w].now = now
        \/ job'[w].now = 0
    <3>1. CASE End(w)
      <4>1. job'[w] = NoJob
        BY <3>1, EndType
      <4> QED
        BY <4>1 DEF NoJob
    <3>2. CASE Request(w)
      <4>1. \E u, kind : job' = [job EXCEPT ![w] = Job(kind, u)]
        <5>1. ASSUME NEW u \in User, Register(w, u)
              PROVE  job' = [job EXCEPT ![w] = Job("register", u)]
          BY <5>1 DEF Register, Begin
        <5>2. ASSUME NEW u \in User, Login(w, u)
              PROVE  job' = [job EXCEPT ![w] = Job("login", u)]
          BY <5>2 DEF Login, Begin
        <5>3. ASSUME NEW s \in sessions, NEW kind, Present(w, s, kind)
              PROVE  job' = [job EXCEPT ![w] = Job(kind, s.user)]
          BY <5>3 DEF Present, Begin
        <5> QED
          BY <3>2, <5>1, <5>2, <5>3 DEF Request
      <4>2. PICK u, kind : job'[w] = Job(kind, u)
        BY <4>1 DEF TypeOK
      <4> QED
        BY <4>2 DEF Job, NoJob
    <3>3. CASE Ask(w) \/ Stamp(w)
      BY <3>3 DEF Ask, Stamp, TypeOK, JobType
    <3>4. CASE Reply(w) \/ Charge(w)
      <4>1. job[w] \in JobType
        BY DEF TypeOK
      <4>2. \/ End(w)
            \/ \E n : job' = [job EXCEPT ![w].spent = n]
            \/ \E n : job' = [job EXCEPT ![w].base = n]
        BY <3>4 DEF Reply, Charge
      <4> QED
        BY <3>1, <4>1, <4>2 DEF TypeOK, JobType
    <3>5. CASE ~End(w) /\ ~Request(w) /\ ~Ask(w) /\ ~Stamp(w) /\ ~Reply(w) /\ ~Charge(w)
      BY <1>4, <3>5 DEF Work, Add, Save, SaveFails, Check, Mistake, Verified, Issue,
         Admit, CallFails, Update
    <3> QED
      BY <3>1, <3>2, <3>3, <3>4, <3>5
  <2>3. CASE ~Issue(w)
    <3>1. sessions' = sessions /\ drawn' = drawn
      BY <1>4, <2>3 DEF Work, Request, Register, Login, Present, Add, Save,
         SaveFails, Ask, Check, Mistake, Verified, Stamp, Admit, Reply, CallFails,
         Charge, Update, quietS, quietL, quietR
    <3> QED
      BY <1>0, <1>n, <2>0, <2>1, <2>2, <3>1
  <2>4. CASE Issue(w)
    <3>1. PICK s : /\ sessions' \subseteq sessions \cup {s}
                   /\ s.token = drawn' /\ drawn' = drawn + 1
      <4> DEFINE new == [token |-> drawn', user |-> job[w].user,
                         exp |-> job[w].now + TTL]
      <4>1. new.token = drawn' /\ drawn' = drawn + 1
        BY <2>4 DEF Issue
      <4>2. sessions' \subseteq sessions \cup {new}
        BY <2>4 DEF Issue, Live
      <4> HIDE DEF new
      <4> QED
        BY <4>1, <4>2
    <3>2. IsFiniteSet(sessions')
      <4>1. IsFiniteSet(sessions \cup {s})
        BY <1>i, FS_AddElement
      <4> QED
        BY <3>1, <4>1, FS_Subset
    <3>3. \A r \in sessions' : r.token <= drawn'
      BY <1>i, <1>n, <3>1
    <3>4. \A v \in Worker : job'[v].now <= now'
      BY <1>i, <1>n, <2>0, <2>1, <2>2
    <3> QED
      BY <3>2, <3>3, <3>4 DEF SessionInv
  <2> QED
    BY <2>3, <2>4
<1> QED
  BY <1>1, <1>2, <1>3, <1>4 DEF Next

\* What is left of a user's sessions has room for one more.
LEMMA RoomForOne ==
  ASSUME NEW S, IsFiniteSet(S), NEW out \in Evicted(S)
  PROVE  Cardinality(S \ out) \in Nat /\ Cardinality(S \ out) <= MaxSessions - 1
<1>1. Cardinality(S) \in Nat /\ IsFiniteSet(S \ out) /\ Cardinality(S \ out) \in Nat
  BY FS_Difference, FS_CardinalityType
<1>2. CASE Cardinality(S) < MaxSessions
  <2>1. S \ out = S
    BY <1>2 DEF Evicted
  <2> QED
    BY <1>1, <1>2, <2>1, NumberAssumption
<1>3. CASE ~(Cardinality(S) < MaxSessions)
  BY <1>1, <1>3, NumberAssumption DEF Evicted
<1> QED
  BY <1>2, <1>3

\* A login caps the sessions of its user, and only of this one.
LEMMA IssueCaps ==
  ASSUME TypeOK, TypeOK', SessionInv, NEW w \in Worker, Issue(w)
  PROVE  /\ Cardinality(Of(sessions', job[w].user)) <= MaxSessions
         /\ \A s \in sessions \ sessions' :
              \/ s.exp <= now
              \/ /\ s.user = job[w].user
                 /\ \A r \in Of(sessions \cap sessions', s.user) : s.exp <= r.exp
<1> DEFINE u == job[w].user
           live == Live(job[w].now)
           fresh == [token |-> drawn', user |-> u, exp |-> job[w].now + TTL]
<1>1. PICK out \in Evicted(Of(live, u)) : sessions' = (live \ out) \cup {fresh}
  BY DEF Issue
<1>n. /\ job[w].now \in Nat /\ now \in Nat /\ drawn \in Nat /\ job[w].now <= now
      /\ drawn' = drawn + 1
      /\ \A s \in sessions : s.exp \in Nat /\ s.token \in Nat /\ s.token <= drawn
  BY DEF TypeOK, JobType, SessionInv, Issue
<1>2. fresh \notin sessions /\ fresh.user = u
  <2>1. fresh.token = drawn + 1
    BY <1>n
  <2> QED
    BY <1>n, <2>1
<1>3. live \subseteq sessions /\ out \subseteq Of(live, u)
      /\ Cut(Of(live, u), out)
  BY DEF Live, Evicted
<1> HIDE DEF fresh
<1>4. Cardinality(Of(sessions', u)) <= MaxSessions
  <2> DEFINE S == Of(live, u)
             kept == S \ out
  <2>1. Of(sessions', u) = kept \cup {fresh}
    BY <1>1, <1>2 DEF Of
  <2>2. IsFiniteSet(S)
    BY <1>3, FS_Subset DEF SessionInv, Of
  <2>3. /\ IsFiniteSet(kept) /\ Cardinality(kept) \in Nat
        /\ Cardinality(kept) <= MaxSessions - 1
    BY <2>2, RoomForOne, FS_Difference
  <2>4. fresh \notin kept
    BY <1>2, <1>3 DEF Of
  <2>5. Cardinality(kept \cup {fresh}) = Cardinality(kept) + 1
    BY <2>3, <2>4, FS_AddElement
  <2> HIDE DEF kept
  <2> QED
    BY <2>1, <2>3, <2>5, NumberAssumption
<1>5. ASSUME NEW s \in sessions, s \notin sessions', ~(s.exp <= now)
      PROVE  /\ s.user = u
             /\ \A r \in Of(sessions \cap sessions', s.user) : s.exp <= r.exp
  <2>1. s \in live
    BY <1>n, <1>5 DEF Live
  <2>2. s \in out /\ s.user = u
    BY <1>1, <1>3, <1>5, <2>1 DEF Of
  <2>3. ASSUME NEW r \in Of(sessions \cap sessions', u) PROVE s.exp <= r.exp
    <3>1. r \in live \ out /\ r \in Of(live, u)
      BY <1>1, <1>2, <2>3 DEF Of
    <3> QED
      BY <1>3, <2>2, <3>1 DEF Cut
  <2> QED
    BY <2>2, <2>3
<1> QED
  BY <1>4, <1>5

----------------------------------------------------------------------------
(* Theorems.                                                               *)

LEMMA InitInv == Init => AccountsInv
<1> SUFFICES ASSUME Init PROVE AccountsInv
  OBVIOUS
<1>1. \A w \in Worker : JobInv(w) /\ SaveInv(w)
  BY DEF Init, JobInv, SaveInv
<1>2. LedgerInv
  BY DEF Init, NoAccounts, LedgerInv, ReportedKept
<1>3. Cardinality(Worker) \in Nat
  BY NameAssumption, FS_CardinalityType
<1>4. MaxUse * Cardinality(Worker) \in Nat
  BY <1>3, Scale, NumberAssumption
<1>5. QuotaInv
  <2>1. \A u : Pending(u) = {}
    BY DEF Init, Pending
  <2>2. \A u : MaxUse * Cardinality(Pending(u)) = 0
    BY <2>1, FS_EmptySet, NumberAssumption
  <2>3. \A u \in Limited : file.used[u] = 0 /\ mem.used[u] = 0
    BY NameAssumption DEF Init, NoAccounts
  <2>4. 0 <= Limit
    BY <1>4, NumberAssumption DEF Limit
  <2> QED
    BY <2>2, <2>3, <2>4 DEF QuotaInv
<1>7. ChargeInv
  <2>1. \A u \in User : Owed(u) = {}
    BY DEF Init, Owed, Owing
  <2>2. \A u \in User : Cardinality(Owed(u)) = 0
    BY <2>1, FS_EmptySet
  <2>3. \A u \in User : file.used[u] = 0 /\ mem.used[u] = 0 /\ total[u] = 0
    BY DEF Init, NoAccounts
  <2> QED
    BY <2>2, <2>3 DEF ChargeInv
<1>8. SessionInv
  <2>1. \A w \in Worker : job[w].now = 0
    BY DEF Init, NoJob
  <2>2. sessions = {} /\ now = 0
    BY DEF Init
  <2> QED
    BY <2>1, <2>2, FS_EmptySet DEF SessionInv
<1>6. AttemptInv /\ LockoutBounded
  <2>1. \A u \in User : failed[u] = {} /\ Trying(u) = {}
    BY DEF Init, Trying
  <2> QED
    <3>1. \A u \in User : /\ IsFiniteSet(failed[u])
                           /\ Cardinality(failed[u]) = 0
                           /\ Cardinality(Trying(u)) = 0
      BY <2>1, FS_EmptySet
    <3>2. 0 + 0 <= MaxAttempts - 1 + Cardinality(Worker)
      BY <1>3, NumberAssumption
    <3> QED
      BY <3>1, <3>2 DEF AttemptInv, LockoutBounded
<1> QED
  BY <1>1, <1>2, <1>5, <1>6, <1>7, <1>8 DEF AccountsInv

\* What a thread has in hand stays true while others work: an account is in the
\* file before it is logged in, and nobody updates the use of an account between
\* a charge's reading and its writing.
THEOREM Invariance == Spec => [](TypeOK /\ AccountsInv)
<1>1. Init => TypeOK /\ AccountsInv
  BY InitType, InitInv
<1>2. TypeOK /\ AccountsInv /\ [Next]_vars => (TypeOK /\ AccountsInv)'
  <2> SUFFICES ASSUME TypeOK, AccountsInv, [Next]_vars
               PROVE  TypeOK' /\ AccountsInv'
    OBVIOUS
  <2>1. TypeOK'
    BY TypeStep DEF AccountsInv
  <2>2. \A w \in Worker : JobInv(w)'
    BY <2>1, JobStep DEF AccountsInv
  <2>3. LedgerInv' /\ \A w \in Worker : SaveInv(w)'
    BY <2>1, LedgerStep DEF AccountsInv
  <2>4. QuotaInv'
    BY <2>1, QuotaStep DEF AccountsInv
  <2>5. AttemptInv' /\ LockoutBounded'
    BY <2>1, AttemptStep DEF AccountsInv
  <2>6. ChargeInv'
    BY <2>1, ChargeStep DEF AccountsInv
  <2>7. SessionInv'
    BY <2>1, SessionStep DEF AccountsInv
  <2> QED
    BY <2>1, <2>2, <2>3, <2>4, <2>5, <2>6, <2>7 DEF AccountsInv
<1> QED
  BY <1>1, <1>2, PTL DEF Spec

\* Types, and each lock with its holder.
THEOREM TypeCorrect == Spec => []TypeOK
BY Invariance, PTL

\* Failed attempts that are remembered and attempts under way are bounded.
THEOREM LockoutSafe == Spec => []LockoutBounded
<1>1. AccountsInv => LockoutBounded
  BY DEF AccountsInv
<1> QED
  BY <1>1, Invariance, PTL

\* The quota is passed by no more than the requests under way.
THEOREM QuotaSafe == Spec => []QuotaSoft
<1>1. TypeOK /\ AccountsInv => QuotaSoft
  <2> SUFFICES ASSUME TypeOK, AccountsInv, NEW u \in Limited
               PROVE  mem.used[u] <= Limit
    BY DEF QuotaSoft, Limit
  <2>1. mem.used[u] \in Nat
    BY NameAssumption DEF TypeOK, Accounts
  <2>2. mem.used[u] + MaxUse * Cardinality(Pending(u)) <= Limit
    BY DEF AccountsInv, QuotaInv
  <2>3. mem.used[u] + MaxUse * Cardinality({}) <= Limit
    BY <2>1, <2>2, FewerPending
  <2>4. MaxUse * Cardinality({}) = 0
    BY FS_EmptySet, NumberAssumption
  <2> QED
    BY <2>1, <2>3, <2>4
<1> QED
  BY <1>1, Invariance, PTL

\* Accounts and charges that were reported survive every crash.
THEOREM ReportedSafe == Spec => []ReportedKept
<1>1. AccountsInv => ReportedKept
  BY DEF AccountsInv, LedgerInv
<1> QED
  BY <1>1, Invariance, PTL

\* Nobody is charged for more than models reported, no charge is made twice, and
\* the file is never ahead of the memory of the process that wrote it.
THEOREM ChargedSafe == Spec => []ChargedOnce
<1>1. TypeOK /\ AccountsInv => ChargedOnce
  <2> SUFFICES ASSUME TypeOK, AccountsInv PROVE ChargedOnce
    OBVIOUS
  <2>1. ASSUME NEW u \in User
        PROVE  file.used[u] <= total[u] /\ mem.used[u] <= total[u]
    <3>1. /\ file.used[u] <= total[u]
          /\ mem.used[u] + Cardinality(Owed(u)) <= total[u]
      BY DEF AccountsInv, ChargeInv
    <3>2. Cardinality(Owed(u)) \in Nat /\ mem.used[u] \in Nat /\ total[u] \in Nat
      BY OwedFinite DEF TypeOK, Accounts
    <3> QED
      BY <3>1, <3>2
  <2>2. up => /\ file.known \subseteq mem.known
              /\ \A u \in User : file.used[u] <= mem.used[u]
    BY DEF AccountsInv, LedgerInv
  <2> QED
    BY <2>1, <2>2 DEF ChargedOnce
<1> QED
  BY <1>1, Invariance, PTL

\* A login leaves its user at the limit of sessions or below, and takes a session
\* that is not over only from its user, and never one that would outlive another
\* that stays.
THEOREM SessionsSafe == Spec => SessionsCapped
<1> DEFINE A ==
      \A w \in Worker : pc[w] = "issue" /\ up' /\ pc'[w] = "idle" =>
        /\ Cardinality(Of(sessions', job[w].user)) <= MaxSessions
        /\ \A s \in sessions \ sessions' :
             \/ s.exp <= now
             \/ /\ s.user = job[w].user
                /\ \A r \in Of(sessions \cap sessions', s.user) : s.exp <= r.exp
<1>1. TypeOK /\ AccountsInv /\ (TypeOK /\ AccountsInv)' /\ [Next]_vars => A
  <2> SUFFICES ASSUME TypeOK, AccountsInv, TypeOK', [Next]_vars PROVE A
    OBVIOUS
  <2>1. (\A w \in Worker : JobInv(w)) /\ SessionInv
    BY DEF AccountsInv
  <2>2. ASSUME NEW w \in Worker, pc[w] = "issue", up', pc'[w] = "idle"
        PROVE  Issue(w)
    BY <2>1, <2>2, IssueOnly
  <2> QED
    BY <2>1, <2>2, IssueCaps
<1>2. Spec => [][A]_vars
  BY <1>1, Invariance, PTL DEF Spec
<1> QED
  BY <1>2 DEF SessionsCapped

\* The two locks are taken in one order and always given back: while a request is
\* under way, some thread with a request waits for neither of them.  (NoDeadlock
\* says the same of the steps that are enabled, which TLC checks.)
THEOREM NotAllWait ==
  Spec => []((\E w \in Worker : pc[w] # "idle") =>
               \E w \in Worker : pc[w] # "idle" /\ ~Waits(w))
<1>1. TypeOK => ((\E w \in Worker : pc[w] # "idle") =>
                   \E w \in Worker : pc[w] # "idle" /\ ~Waits(w))
  <2> SUFFICES ASSUME TypeOK, NEW v \in Worker, pc[v] # "idle"
               PROVE  \E w \in Worker : pc[w] # "idle" /\ ~Waits(w)
    OBVIOUS
  <2>1. CASE flock # None
    <3>1. PICK w \in Worker : flock = w
      BY <2>1 DEF TypeOK
    <3>2. pc[w] = "save"
      BY <3>1 DEF TypeOK, Storing
    <3> QED
      BY <3>2 DEF Waits
  <2>2. CASE flock = None /\ lock # None
    <3>1. PICK w \in Worker : lock = w
      BY <2>2 DEF TypeOK
    <3>2. pc[w] \in {"update", "save"}
      BY <3>1 DEF TypeOK, Recording
    <3> QED
      BY <2>2, <3>2 DEF Waits
  <2>3. CASE flock = None /\ lock = None
    BY <2>3 DEF Waits
  <2> QED
    BY <2>1, <2>2, <2>3
<1> QED
  BY <1>1, TypeCorrect, PTL
============================================================================
