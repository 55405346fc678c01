------------------------ MODULE GitConnectionsProofs ------------------------
(***************************************************************************)
(* Proofs about GitConnections, for any number of threads, names, requests *)
(* and stores.                                                             *)
(***************************************************************************)
EXTENDS GitConnectionsInv, TLAPS

LEMMA ConstType ==
  /\ NoJob \in JobType
  /\ NoConns \in [Name -> ConnType]
  /\ NoConn \in ConnType
BY BoundAssumption
   DEF NoJob, Job, JobType, NoConns, NoConn, Conn, ConnType, Ref, Kind, Token,
       ConfigType, Config

\* The state of the threads is of its kind.
ThreadsOK ==
  /\ pc \in [Worker -> Label] /\ job \in [Worker -> JobType]
  /\ \A w \in Worker :
       /\ pc[w] \in {"take", "enter", "put", "add", "clean", "drop"} =>
            job[w].name \in Name
       /\ pc[w] \in {"enter", "put", "add", "clean", "drop"} => job[w].store \in Store

\* A job that the label fits.
Fits(j, l) ==
  /\ j \in JobType /\ l \in Label
  /\ l \in {"take", "enter", "put", "add", "clean", "drop"} => j.name \in Name
  /\ l \in {"enter", "put", "add", "clean", "drop"} => j.store \in Store

\* A thread that moves to a label with a job that fits it.
LEMMA MoveType ==
  ASSUME TypeOK, NEW w \in Worker, NEW l, NEW j, Fits(j, l),
         Goto(w, l), job' = [job EXCEPT ![w] = j]
  PROVE  ThreadsOK'
BY DEF TypeOK, Goto, Fits, ThreadsOK, JobType

LEMMA StayType ==
  ASSUME TypeOK, NEW w \in Worker, NEW l, Fits(job[w], l), Goto(w, l), job' = job
  PROVE  ThreadsOK'
BY DEF TypeOK, Goto, Fits, ThreadsOK, JobType

LEMMA EndType ==
  ASSUME TypeOK, NEW w \in Worker, End(w)
  PROVE  ThreadsOK'
BY ConstType, MoveType DEF End, Fits, Label

LEMMA ThreadType ==
  ASSUME TypeOK, NEW w \in Worker
  PROVE  /\ job[w] \in JobType /\ pc[w] \in Label
         /\ job[w].kind \in Kind /\ job[w].ref \in Ref /\ job[w].token \in Token
         /\ job[w].store \in 0..MaxStores /\ job[w].cfg \in ConfigType
         /\ Fits(job[w], pc[w])
BY DEF TypeOK, JobType, Fits

\* A new request.
LEMMA RequestType ==
  ASSUME TypeOK, NEW w \in Worker, NEW l, NEW j, Fits(j, l), Begin(w, j, l)
  PROVE  requests' \in Token /\ ThreadsOK'
<1>1. requests' \in Token
  BY BoundAssumption DEF Begin, TypeOK, Token
<1> QED
  BY <1>1, MoveType DEF Begin

\* A write of the store of a thread.
LEMMA PutType ==
  ASSUME TypeOK, NEW w \in Worker, pc[w] \in {"enter", "put", "add", "clean", "drop"},
         NEW c \in [Name -> ConnType], Put(w, c)
  PROVE  /\ mem' \in [Store -> [Name -> ConnType]] /\ file' \in [Name -> ConnType]
         /\ split' \in BOOLEAN
<1>1. split' \in BOOLEAN
  BY Zenon DEF Put, TypeOK
<1>2. mem' = [mem EXCEPT ![job[w].store] = c] /\ file' = c
  BY DEF Put
<1> QED
  BY <1>1, <1>2 DEF TypeOK

\* What a thread may write.
LEMMA MineType ==
  ASSUME TypeOK, NEW w \in Worker, pc[w] \in {"enter", "put", "add", "clean", "drop"}
  PROVE  /\ job[w].name \in Name /\ job[w].store \in Store
         /\ Mine(w) \in [Name -> ConnType]
         /\ With(w) \in [Name -> ConnType] /\ Without(w) \in [Name -> ConnType]
<1>1. job[w].name \in Name /\ job[w].store \in Store
  BY DEF TypeOK
<1>2. Mine(w) \in [Name -> ConnType]
  BY <1>1 DEF TypeOK, Mine
<1>3. Conn(job[w].ref, job[w].token) \in ConnType
  BY ThreadType DEF Conn, ConnType
<1> QED
  BY <1>1, <1>2, <1>3, ConstType DEF With, Without

LEMMA InitType == Init => TypeOK
<1> SUFFICES ASSUME Init PROVE TypeOK
  OBVIOUS
<1>1. up \in BOOLEAN /\ off \in BOOLEAN /\ split \in BOOLEAN
  BY DEF Init
<1>2. /\ cfg \in ConfigType /\ svc \in 0..MaxStores /\ stores \in 0..MaxStores
      /\ requests \in Token
  BY BoundAssumption DEF Init, ConfigType, Config, Token
<1>3. /\ mem \in [Store -> [Name -> ConnType]] /\ file \in [Name -> ConnType]
      /\ secret \in [Name -> Token]
  BY ConstType, BoundAssumption DEF Init, Token
<1>4. ThreadsOK
  BY ConstType DEF Init, ThreadsOK, Label
<1> QED
  BY <1>1, <1>2, <1>3, <1>4 DEF Init, TypeOK, ThreadsOK

\* The variables besides the threads.
DataOK ==
  /\ up \in BOOLEAN /\ cfg \in ConfigType
  /\ svc \in 0..MaxStores /\ stores \in 0..MaxStores
  /\ mem \in [Store -> [Name -> ConnType]] /\ file \in [Name -> ConnType]
  /\ secret \in [Name -> Token]
  /\ mutex \in Worker \cup {None}
  /\ requests \in Token /\ off \in BOOLEAN /\ split \in BOOLEAN
  /\ left \subseteq Name

LEMMA TypeParts == /\ TypeOK <=> DataOK /\ ThreadsOK
                   /\ TypeOK' <=> DataOK' /\ ThreadsOK'
BY DEF TypeOK, DataOK, ThreadsOK

LEMMA BootType ==
  ASSUME TypeOK, NEW git \in BOOLEAN, Boot(git) PROVE TypeOK'
<1>1. /\ svc' \in 0..MaxStores /\ stores' \in 0..MaxStores
      /\ mem' \in [Store -> [Name -> ConnType]]
  BY BoundAssumption DEF Boot, TypeOK, Store
<1>2. cfg' \in ConfigType
  BY DEF Boot, Config, ConfigType
<1>3. off' \in BOOLEAN
  BY Zenon DEF Boot, TypeOK
<1> QED
  BY <1>1, <1>2, <1>3 DEF Boot, TypeOK, threads

LEMMA CrashType == TypeOK /\ Crash => TypeOK'
<1> SUFFICES ASSUME TypeOK, Crash PROVE TypeOK'
  OBVIOUS
<1>1. ThreadsOK'
  BY ConstType DEF Crash, Label, ThreadsOK
<1>2. left' \subseteq Name
  BY DEF Crash, TypeOK, Halfway
<1>3. DataOK'
  <2>1. /\ cfg' \in ConfigType /\ svc' \in 0..MaxStores /\ stores' \in 0..MaxStores
        /\ mem' \in [Store -> [Name -> ConnType]] /\ mutex' \in Worker \cup {None}
    BY ConstType, BoundAssumption DEF Crash, ConfigType, Config
  <2>2. up' \in BOOLEAN /\ off' \in BOOLEAN /\ split' \in BOOLEAN
    BY Zenon DEF Crash, TypeOK
  <2> QED
    BY <1>2, <2>1, <2>2 DEF Crash, TypeOK, DataOK
<1> QED
  BY <1>1, <1>3, TypeParts

LEMMA RequestStepType ==
  ASSUME TypeOK, NEW w \in Worker, Request(w) PROVE TypeOK'
<1>1. ASSUME NEW git \in BOOLEAN, NEW secrets \in BOOLEAN,
             Build(w, Config(git, secrets))
      PROVE  TypeOK'
  <2> DEFINE c == Config(git, secrets)
  <2>1. c \in ConfigType
    BY DEF Config, ConfigType
  <2>2. ASSUME NEW s \in 0..MaxStores PROVE Fits(ConfigJob(s, c), "swap")
    BY <2>1, <2>2, BoundAssumption
       DEF Fits, ConfigJob, JobType, Kind, Ref, Token, Label
  <2> HIDE DEF c
  <2>3. PICK s \in 0..MaxStores : Begin(w, ConfigJob(s, c), "swap")
    <3>1. 0 \in 0..MaxStores /\ svc \in 0..MaxStores
      BY BoundAssumption DEF TypeOK
    <3>2. stores < MaxStores => stores + 1 \in 0..MaxStores
      BY BoundAssumption DEF TypeOK
    <3> QED
      BY <1>1, <3>1, <3>2, Zenon DEF Build, c
  <2>4. requests' \in Token /\ ThreadsOK'
    BY <2>2, <2>3, RequestType
  <2>5. stores' \in 0..MaxStores /\ mem' \in [Store -> [Name -> ConnType]]
    BY <1>1, BoundAssumption DEF Build, TypeOK, Store
  <2> QED
    BY <1>1, <2>4, <2>5, TypeParts DEF Build, DataOK
<1>2. ASSUME NEW n \in Name, Wizard(w, n) PROVE TypeOK'
  <2>1. Fits(Job("wizard", n, n, 0, requests + 1), "take")
    BY <1>2, BoundAssumption
       DEF Wizard, Begin, TypeOK, Fits, Job, JobType, Kind, Ref, Token, Label,
           ConfigType, Config
  <2>2. requests' \in Token /\ ThreadsOK'
    BY <1>2, <2>1, RequestType DEF Wizard
  <2> QED
    BY <1>2, <2>2, TypeParts DEF Wizard, DataOK, quiet, config
<1>3. ASSUME NEW n \in Name, Remove(w, n) PROVE TypeOK'
  <2>1. Fits(Job("remove", n, None, svc, 0), "enter")
    BY <1>3, BoundAssumption
       DEF Remove, TypeOK, Fits, Job, JobType, Kind, Ref, Token, Label,
           ConfigType, Config, Store
  <2>2. requests' \in Token /\ ThreadsOK'
    BY <1>3, <2>1, RequestType DEF Remove
  <2> QED
    BY <1>3, <2>2, TypeParts DEF Remove, DataOK, quiet, config
<1>4. ASSUME NEW n \in Name, NEW r \in Name \cup {External}, AddRef(w, n, r)
      PROVE  TypeOK'
  <2>1. Fits(Job("add", n, r, svc, 0), "enter")
    BY <1>4, BoundAssumption
       DEF AddRef, TypeOK, Fits, Job, JobType, Kind, Ref, Token, Label,
           ConfigType, Config, Store
  <2>2. requests' \in Token /\ ThreadsOK'
    BY <1>4, <2>1, RequestType DEF AddRef
  <2> QED
    BY <1>4, <2>2, TypeParts DEF AddRef, DataOK, quiet, config
<1> QED
  BY <1>1, <1>2, <1>3, <1>4 DEF Request

LEMMA WorkType ==
  ASSUME TypeOK, NEW w \in Worker, Work(w) PROVE TypeOK'
<1> USE DEF quiet, config, threads
<1>0. ThreadsOK
  BY TypeParts
<1>1. CASE Swap(w)
  <2>1. ThreadsOK' /\ cfg' \in ConfigType /\ svc' \in 0..MaxStores
    BY <1>1, EndType, ThreadType DEF Swap
  <2>2. off' \in BOOLEAN
    BY <1>1, Zenon DEF Swap, TypeOK
  <2> QED
    BY <1>1, <2>1, <2>2, TypeParts DEF Swap, DataOK
<1>2. CASE Refuse(w)
  BY <1>2, EndType, TypeParts DEF Refuse, DataOK
<1>3. CASE Take(w)
  <2>1. ASSUME svc # 0
        PROVE  Fits(Job("wizard", job[w].name, job[w].ref, svc, job[w].token), "enter")
    BY <1>3, <2>1, ThreadType, BoundAssumption
       DEF Take, TypeOK, Fits, Job, JobType, Kind, Label, ConfigType, Config, Store
  <2>2. ThreadsOK'
    BY <1>3, <2>1, EndType, MoveType DEF Take
  <2> QED
    BY <1>3, <2>2, TypeParts DEF Take, DataOK
<1>4. CASE Add(w)
  <2>1. pc[w] = "enter" /\ ThreadsOK'
    BY <1>4, EndType DEF Add, Entering
  <2>2. /\ mem' \in [Store -> [Name -> ConnType]] /\ file' \in [Name -> ConnType]
        /\ split' \in BOOLEAN
    <3>1. CASE UNCHANGED <<mem, file, split>>
      BY <3>1 DEF TypeOK
    <3>2. CASE Put(w, With(w))
      BY <2>1, <3>2, MineType, PutType
    <3> QED
      BY <1>4, <3>1, <3>2 DEF Add
  <2> QED
    BY <1>4, <2>1, <2>2, TypeParts DEF Add, DataOK
<1>5. CASE Admit(w)
  <2>1. ThreadsOK' /\ mutex' \in Worker \cup {None}
    BY <1>5, EndType, StayType, ThreadType DEF Admit, Entering, Fits, Label, TypeOK
  <2> QED
    BY <1>5, <2>1, TypeParts DEF Admit, DataOK
<1>6. CASE PutToken(w)
  <2>1. ThreadsOK' /\ mutex' \in Worker \cup {None}
    BY <1>6, EndType, StayType, ThreadType DEF PutToken, Leave, Fits, Label, TypeOK
  <2>2. secret' \in [Name -> Token] /\ left' \subseteq Name
    BY <1>6, ThreadType DEF PutToken, TypeOK
  <2> QED
    BY <1>6, <2>1, <2>2, TypeParts DEF PutToken, DataOK
<1>7. CASE AddWithToken(w)
  <2>1. ThreadsOK' /\ mutex' \in Worker \cup {None}
    BY <1>7, EndType, StayType, ThreadType DEF AddWithToken, Leave, Fits, Label, TypeOK
  <2>2. /\ mem' \in [Store -> [Name -> ConnType]] /\ file' \in [Name -> ConnType]
        /\ split' \in BOOLEAN
    <3>1. CASE UNCHANGED <<mem, file, split>>
      BY <3>1 DEF TypeOK
    <3>2. CASE Put(w, With(w))
      BY <1>7, <3>2, MineType, PutType DEF AddWithToken
    <3> QED
      BY <1>7, <3>1, <3>2 DEF AddWithToken
  <2> QED
    BY <1>7, <2>1, <2>2, TypeParts DEF AddWithToken, DataOK
<1>8. CASE CleanUp(w) \/ Drop(w)
  <2>1. ThreadsOK' /\ mutex' \in Worker \cup {None}
    BY <1>8, EndType DEF CleanUp, Drop, Leave
  <2>2. pc[w] \in {"clean", "drop"}
    BY <1>8 DEF CleanUp, Drop
  <2>3. job[w].name \in Name /\ 0 \in Token
    BY <2>2, MineType, BoundAssumption DEF Token
  <2>4. secret' \in [Name -> Token] /\ left' \subseteq Name
    BY <1>8, <2>3 DEF CleanUp, Drop, TypeOK
  <2> QED
    BY <1>8, <2>1, <2>4, TypeParts DEF CleanUp, Drop, DataOK
<1>9. CASE Withdraw(w)
  <2> DEFINE found == Mine(w)[job[w].name]
  <2>1. pc[w] = "enter" /\ job[w].name \in Name /\ job[w].store \in Store
    BY <1>9, MineType DEF Withdraw, Entering
  <2>2. found.ref \in Ref
    BY <2>1, MineType DEF ConnType
  <2>3. Fits(Job("remove", job[w].name, found.ref, job[w].store, 0), "drop")
    BY <2>1, <2>2, ThreadType, BoundAssumption
       DEF Fits, Job, JobType, Kind, Label, ConfigType, Config, Token
  <2> HIDE DEF found
  <2>4. ThreadsOK' /\ mutex' \in Worker \cup {None} /\ left' \subseteq Name
    BY <1>9, <2>2, <2>3, EndType, MoveType DEF Withdraw, found, TypeOK, Ref
  <2>5. /\ mem' \in [Store -> [Name -> ConnType]] /\ file' \in [Name -> ConnType]
        /\ split' \in BOOLEAN
    <3>1. CASE UNCHANGED <<mem, file, split>>
      BY <3>1 DEF TypeOK
    <3>2. CASE Put(w, Without(w))
      BY <2>1, <3>2, MineType, PutType
    <3> QED
      BY <1>9, <3>1, <3>2 DEF Withdraw
  <2> QED
    BY <1>9, <2>4, <2>5, TypeParts DEF Withdraw, DataOK
<1> QED
  BY <1>1, <1>2, <1>3, <1>4, <1>5, <1>6, <1>7, <1>8, <1>9 DEF Work

\* Every reachable state is of its type, and threads have the names and the stores
\* that their handlers work with.
THEOREM TypeCorrect == Spec => []TypeOK
<1>1. TypeOK /\ [Next]_vars => TypeOK'
  <2> SUFFICES ASSUME TypeOK, [Next]_vars PROVE TypeOK'
    OBVIOUS
  <2>1. CASE UNCHANGED vars
    BY <2>1 DEF vars, config, threads, TypeOK
  <2>2. CASE Next
    BY <2>2, BootType, CrashType, RequestStepType, WorkType DEF Next
  <2> QED
    BY <2>1, <2>2
<1> QED
  BY <1>1, InitType, PTL DEF Spec

----------------------------------------------------------------------------
(* The inductive invariant.                                                *)

\* A request that begins, for a thread that was idle.
LEMMA RequestForm ==
  ASSUME TypeOK, NEW w \in Worker, Request(w)
  PROVE  /\ up /\ pc[w] = "idle" /\ pc'[w] \in {"swap", "take", "enter"}
         /\ UNCHANGED <<up, file, secret, mutex, left>>
         /\ \A v \in Worker \ {w} : pc'[v] = pc[v] /\ job'[v] = job[v]
         /\ pc'[w] = "take" => job'[w].kind = "wizard"
         /\ job'[w].kind = "wizard" => job'[w].ref = job'[w].name /\ job'[w].token # 0
         /\ job'[w].kind = "add" => job'[w].token = 0
<1> USE DEF Begin, Goto, quiet, config
<1>0. /\ pc \in [Worker -> Label] /\ job \in [Worker -> JobType]
      /\ requests + 1 # 0
  BY BoundAssumption DEF TypeOK, Token
<1>1. ASSUME NEW c, NEW k PROVE ConfigJob(k, c).kind = "config"
  BY DEF ConfigJob
<1>2. CASE \E git, secrets \in BOOLEAN : Build(w, Config(git, secrets))
  BY <1>0, <1>1, <1>2 DEF Build
<1>3. CASE \E n \in Name : Wizard(w, n)
  BY <1>0, <1>3 DEF Wizard, Job
<1>4. CASE \E n \in Name : Remove(w, n)
  BY <1>0, <1>4 DEF Remove, Job
<1>5. CASE \E n \in Name, r \in Name \cup {External} : AddRef(w, n, r)
  BY <1>0, <1>5 DEF AddRef, Job
<1> QED
  BY <1>2, <1>3, <1>4, <1>5 DEF Request

\* A thread at work leaves the others alone, and where it stands it is not idle.
LEMMA WorkForm ==
  ASSUME TypeOK, NEW w \in Worker, Work(w)
  PROVE  /\ pc[w] # "idle" /\ UNCHANGED <<up, stores, requests>>
         /\ \A v \in Worker \ {w} : pc'[v] = pc[v] /\ job'[v] = job[v]
<1> USE DEF Goto, End, Leave, Entering, TypeOK
<1>1. CASE Swap(w) \/ Refuse(w) \/ Take(w) \/ Add(w)
  BY <1>1 DEF Swap, Refuse, Take, Add, quiet, config
<1>2. CASE Admit(w) \/ PutToken(w) \/ AddWithToken(w)
  BY <1>2 DEF Admit, PutToken, AddWithToken, quiet, config
<1>3. CASE CleanUp(w) \/ Withdraw(w) \/ Drop(w)
  BY <1>3 DEF CleanUp, Withdraw, Drop, quiet, config
<1> QED
  BY <1>1, <1>2, <1>3 DEF Work

Locked == {"put", "add", "clean", "drop"}

\* Where a thread at work goes, and what it does to the lock.
LEMMA WorkLock ==
  ASSUME TypeOK, NEW w \in Worker, Work(w)
  PROVE  \/ /\ pc[w] \notin Locked /\ pc'[w] \notin Locked /\ mutex' = mutex
            /\ pc'[w] = "idle" => job'[w] = NoJob
         \/ pc[w] = "enter" /\ mutex = None /\ mutex' = w /\ pc'[w] \in Locked
         \/ pc[w] \in Locked /\ pc'[w] \in Locked /\ mutex' = mutex
         \/ pc[w] \in Locked /\ pc'[w] = "idle" /\ job'[w] = NoJob /\ mutex' = None
<1> USE DEF Goto, End, Leave, Entering, TypeOK, Locked
<1>1. CASE Swap(w) \/ Refuse(w) \/ Take(w) \/ Add(w)
  BY <1>1 DEF Swap, Refuse, Take, Add
<1>2. CASE Admit(w) \/ PutToken(w) \/ AddWithToken(w)
  BY <1>2 DEF Admit, PutToken, AddWithToken
<1>3. CASE CleanUp(w) \/ Withdraw(w) \/ Drop(w)
  BY <1>3 DEF CleanUp, Withdraw, Drop
<1> QED
  BY <1>1, <1>2, <1>3 DEF Work

\* What a thread at work does to the configuration, and the store it works with.
LEMMA WorkStore ==
  ASSUME TypeOK, NEW w \in Worker, Work(w)
  PROVE  /\ pc'[w] # "swap"
         /\ \/ /\ pc[w] = "swap" /\ cfg' = job[w].cfg /\ svc' = job[w].store
               /\ off' = (off \/ svc' = 0)
               /\ job'[w] = NoJob
            \/ UNCHANGED <<cfg, svc, off>> /\ job'[w].store \in {job[w].store, svc, 0}
<1>0. /\ pc \in [Worker -> Label] /\ job \in [Worker -> JobType]
      /\ NoJob.store = 0 /\ \A kind, n, r, k, v : Job(kind, n, r, k, v).store = k
  BY DEF TypeOK, NoJob, Job
<1>1. ASSUME End(w) PROVE pc'[w] = "idle" /\ job'[w] = NoJob /\ job'[w].store = 0
  BY <1>0, <1>1 DEF End, Goto
<1>2. ASSUME NEW l, Goto(w, l) PROVE pc'[w] = l
  BY <1>0, <1>2 DEF Goto
<1>3. CASE Swap(w)
  BY <1>1, <1>3, Zenon DEF Swap
<1>4. CASE Refuse(w) \/ Add(w) \/ CleanUp(w) \/ Drop(w)
  <2>1. UNCHANGED <<cfg, svc, off>> /\ End(w)
    BY <1>4 DEF Refuse, Add, CleanUp, Drop, Leave, quiet, config
  <2> QED
    BY <1>1, <2>1
<1>5. CASE Take(w) \/ Withdraw(w)
  <2>1. /\ UNCHANGED <<cfg, svc, off>>
        /\ \/ End(w)
           \/ /\ Goto(w, "enter") \/ Goto(w, "drop")
              /\ job'[w].store \in {job[w].store, svc}
    BY <1>0, <1>5 DEF Take, Withdraw, quiet, config
  <2> QED
    BY <1>1, <1>2, <2>1
<1>6. CASE Admit(w) \/ PutToken(w) \/ AddWithToken(w)
  <2>1. /\ UNCHANGED <<cfg, svc, off>>
        /\ \/ End(w)
           \/ UNCHANGED job /\ (Goto(w, "put") \/ Goto(w, "add") \/ Goto(w, "clean"))
    BY <1>6 DEF Admit, PutToken, AddWithToken, Leave, quiet, config
  <2> QED
    BY <1>1, <1>2, <2>1
<1> QED
  BY <1>3, <1>4, <1>5, <1>6 DEF Work

\* The store of a job that begins, and the new store of a rebuild.
LEMMA RequestStore ==
  ASSUME TypeOK, NEW w \in Worker, Request(w)
  PROVE  /\ UNCHANGED <<up, cfg, svc, off, split>> /\ stores' \in {stores, stores + 1}
         /\ \A v \in Worker \ {w} : pc'[v] = pc[v] /\ job'[v] = job[v]
         /\ \/ job'[w].store \in {0, svc} /\ UNCHANGED <<mem, stores>>
            \/ /\ svc = 0 /\ stores' = stores + 1 /\ job'[w].store = stores + 1
               /\ stores < MaxStores /\ mem' = [mem EXCEPT ![stores + 1] = file]
         /\ pc'[w] = "swap" => (job'[w].cfg.git <=> job'[w].store # 0)
<1>1. ASSUME NEW j, NEW l, Begin(w, j, l)
      PROVE  /\ pc'[w] = l /\ job'[w] = j
             /\ \A v \in Worker \ {w} : pc'[v] = pc[v] /\ job'[v] = job[v]
  BY <1>1 DEF TypeOK, Begin, Goto
<1>2. ASSUME NEW c, NEW k PROVE ConfigJob(k, c).store = k /\ ConfigJob(k, c).cfg = c
  BY DEF ConfigJob
<1>3. ASSUME NEW kind, NEW n, NEW r, NEW k, NEW v PROVE Job(kind, n, r, k, v).store = k
  BY DEF Job
<1>4. svc \in Nat /\ stores \in Nat
  BY BoundAssumption DEF TypeOK
<1>5. ASSUME NEW git \in BOOLEAN, NEW secrets \in BOOLEAN,
             Build(w, Config(git, secrets))
      PROVE  /\ UNCHANGED <<up, cfg, svc, off, split>>
             /\ stores' \in {stores, stores + 1}
             /\ \/ job'[w].store \in {0, svc} /\ UNCHANGED <<mem, stores>>
                \/ /\ svc = 0 /\ stores' = stores + 1 /\ job'[w].store = stores + 1
                   /\ stores < MaxStores /\ mem' = [mem EXCEPT ![stores + 1] = file]
             /\ job'[w].cfg.git <=> job'[w].store # 0
             /\ \A v \in Worker \ {w} : pc'[v] = pc[v] /\ job'[v] = job[v]
  <2>1. PICK k : /\ Begin(w, ConfigJob(k, Config(git, secrets)), "swap")
                 /\ git <=> k # 0
                 /\ \/ k \in {0, svc} /\ UNCHANGED <<mem, stores>>
                    \/ /\ svc = 0 /\ stores' = stores + 1 /\ k = stores + 1
                       /\ stores < MaxStores /\ mem' = [mem EXCEPT ![stores + 1] = file]
    <3>1. Config(git, secrets).git = git
      BY DEF Config
    <3> QED
      BY <1>4, <1>5, <3>1 DEF Build
  <2>2. job'[w].store = k /\ job'[w].cfg = Config(git, secrets)
    BY <1>1, <1>2, <2>1
  <2>3. Config(git, secrets).git = git
    BY DEF Config
  <2>4. \A v \in Worker \ {w} : pc'[v] = pc[v] /\ job'[v] = job[v]
    BY <1>1, <2>1
  <2>5. job'[w].cfg.git <=> job'[w].store # 0
    BY <2>1, <2>2, <2>3, Zenon
  <2>6. UNCHANGED <<up, cfg, svc, off, split>>
    BY <1>5 DEF Build
  <2> QED
    BY <2>1, <2>2, <2>4, <2>5, <2>6
<1>6. CASE \E n \in Name : Wizard(w, n)
  BY <1>1, <1>3, <1>6 DEF Wizard, quiet, config
<1>7. CASE \E n \in Name : Remove(w, n) \/ \E r \in Name \cup {External} : AddRef(w, n, r)
  BY <1>1, <1>3, <1>7 DEF Remove, AddRef, quiet, config
<1> QED
  BY <1>5, <1>6, <1>7 DEF Request

LEMMA LockStep ==
  ASSUME TypeOK, LockInv, ServiceInv, Next PROVE LockInv'
<1>1. ASSUME NEW git \in BOOLEAN, Boot(git) PROVE LockInv'
  BY <1>1 DEF Boot, LockInv, threads
<1>2. CASE Crash
  BY <1>2, NameAssumption DEF Crash, LockInv
<1>3. ASSUME NEW w \in Worker, Request(w) PROVE LockInv'
  BY <1>3, RequestForm DEF LockInv, TypeOK
<1>4. ASSUME NEW w \in Worker, Work(w) PROVE LockInv'
  BY <1>4, WorkForm, WorkLock, NameAssumption DEF LockInv, Locked
<1> QED
  BY <1>1, <1>2, <1>3, <1>4 DEF Next

LEMMA ServiceStep ==
  ASSUME TypeOK, LockInv, ServiceInv, Next PROVE ServiceInv'
<1>1. ASSUME NEW git \in BOOLEAN, Boot(git) PROVE ServiceInv'
  BY <1>1 DEF Boot, ServiceInv, LockInv, NoJob, Job, Config, TypeOK, threads
<1>2. CASE Crash
  BY <1>2 DEF Crash, ServiceInv, NoJob, Job, Config
<1>3. ASSUME NEW w \in Worker, Request(w) PROVE ServiceInv'
  <2>1. /\ stores \in Nat /\ stores' \in {stores, stores + 1} /\ svc \in Nat
        /\ \A v \in Worker : job[v].store \in Nat
    BY <1>3, RequestStore, ThreadType, BoundAssumption DEF TypeOK
  <2> QED
    BY <1>3, <2>1, RequestStore DEF ServiceInv
<1>4. ASSUME NEW w \in Worker, Work(w) PROVE ServiceInv'
  BY <1>4, WorkForm, WorkStore, BoundAssumption DEF ServiceInv, TypeOK, NoJob, Job
<1> QED
  BY <1>1, <1>2, <1>3, <1>4 DEF Next

\* A thread at work writes no store, or one store with the file.
LEMMA WorkPut ==
  ASSUME TypeOK, NEW w \in Worker, Work(w)
  PROVE  \/ UNCHANGED <<mem, file, split>>
         \/ /\ pc[w] \in {"enter", "add"}
            /\ file' \in [Name -> ConnType]
            /\ mem' = [mem EXCEPT ![job[w].store] = file']
            /\ split' = (split \/ InUse # {job[w].store})
<1>1. CASE Swap(w) \/ Refuse(w) \/ Take(w) \/ Admit(w) \/ PutToken(w) \/ CleanUp(w) \/ Drop(w)
  BY <1>1 DEF Swap, Refuse, Take, Admit, PutToken, CleanUp, Drop
<1>2. CASE Add(w) \/ AddWithToken(w)
  <2>1. pc[w] \in {"enter", "add"}
    BY <1>2 DEF Add, AddWithToken, Entering
  <2>2. With(w) \in [Name -> ConnType]
    BY <2>1, MineType
  <2>3. UNCHANGED <<mem, file, split>> \/ Put(w, With(w))
    BY <1>2 DEF Add, AddWithToken
  <2> QED
    BY <2>1, <2>2, <2>3, Zenon DEF Put
<1>3. CASE Withdraw(w)
  <2>1. pc[w] \in {"enter", "add"}
    BY <1>3 DEF Withdraw, Entering
  <2>2. Without(w) \in [Name -> ConnType]
    BY <2>1, <1>3, MineType DEF Withdraw, Entering
  <2>3. UNCHANGED <<mem, file, split>> \/ Put(w, Without(w))
    BY <1>3 DEF Withdraw
  <2> QED
    BY <2>1, <2>2, <2>3, Zenon DEF Put
<1> QED
  BY <1>1, <1>2, <1>3 DEF Work

LEMMA OneStoreStep ==
  ASSUME TypeOK, LockInv, ServiceInv, OneStoreInv, Next PROVE OneStoreInv'
<1>1. ASSUME NEW git \in BOOLEAN, Boot(git) PROVE OneStoreInv'
  <2>1. \A w \in Worker : job[w].store = 0
    BY <1>1 DEF Boot, LockInv, NoJob, Job
  <2> QED
    <3>1. CASE git
      <4>1. svc' = 1 /\ job' = job /\ split' = split /\ (off <=> off')
        BY <1>1, <3>1, Zenon DEF Boot, threads
      <4> QED
        BY <2>1, <4>1 DEF OneStoreInv
    <3>2. CASE ~git
      BY <1>1, <3>2 DEF Boot, OneStoreInv
    <3> QED
      BY <3>1, <3>2
<1>2. CASE Crash
  BY <1>2 DEF Crash, OneStoreInv
<1>3. ASSUME NEW w \in Worker, Request(w) PROVE OneStoreInv'
  BY <1>3, RequestForm, RequestStore DEF OneStoreInv
<1>4. ASSUME NEW w \in Worker, Work(w), ~off' PROVE ~split' /\ (up' =>
               svc' # 0 /\ \A v \in Worker : job'[v].store \in {0, svc'})
  <2>1. NoJob.store = 0
    BY DEF NoJob, Job
  <2>2. up /\ ~off
    BY <1>4, WorkForm, WorkStore DEF LockInv
  <2>3. ~split /\ svc # 0 /\ \A v \in Worker : job[v].store \in {0, svc}
    BY <2>2 DEF OneStoreInv
  <2>4. svc' = svc /\ job'[w].store \in {0, svc}
    BY <1>4, <2>1, <2>3, WorkStore
  <2>5. \A v \in Worker : job'[v].store \in {0, svc}
    BY <1>4, <2>3, <2>4, WorkForm
  <2>6. ~split'
    <3>1. CASE UNCHANGED split
      BY <2>3, <3>1
    <3>2. CASE /\ pc[w] \in {"enter", "add"}
               /\ split' = (split \/ InUse # {job[w].store})
      <4>1. job[w].store = svc
        BY <2>3, <3>2, MineType DEF Store
      <4>2. InUse = {svc}
        BY <2>3, <4>1 DEF InUse
      <4> QED
        BY <2>3, <3>2, <4>1, <4>2
    <3> QED
      BY <1>4, <3>1, <3>2, WorkPut, Zenon
  <2> QED
    BY <2>3, <2>4, <2>5, <2>6
<1> QED
  BY <1>1, <1>2, <1>3, <1>4 DEF Next, OneStoreInv

\* What a thread has read of its store is what the file holds.
LEMMA MineIsFile ==
  ASSUME TypeOK, CopyInv, ~split, NEW w \in Worker,
         pc[w] \in {"enter", "put", "add", "clean", "drop"}
  PROVE  Mine(w) = file
BY MineType DEF CopyInv, InUse, Mine, Store

LEMMA CopyStep ==
  ASSUME TypeOK, LockInv, ServiceInv, CopyInv, Next PROVE CopyInv'
<1>1. ASSUME NEW git \in BOOLEAN, Boot(git) PROVE CopyInv'
  <2>1. \A w \in Worker : job'[w].store = 0
    BY <1>1 DEF Boot, LockInv, NoJob, Job, threads
  <2>2. 1 \in Store /\ (svc' = 0 \/ (svc' = 1 /\ mem' = [mem EXCEPT ![1] = file]))
    <3>1. CASE git
      BY <1>1, <3>1, BoundAssumption DEF Boot, Store
    <3>2. CASE ~git
      <4>1. svc' = 0
        BY <1>1, <3>2, Zenon DEF Boot, LockInv
      <4>2. 1 \in Store
        BY BoundAssumption DEF Store
      <4> QED
        BY <4>1, <4>2
    <3> QED
      BY <3>1, <3>2
  <2>3. \A s \in InUse' : s = 1 /\ svc' = 1
    BY <2>1, <2>2 DEF InUse
  <2>4. file' = file
    BY <1>1 DEF Boot
  <2> QED
    BY <2>2, <2>3, <2>4 DEF CopyInv, TypeOK
<1>2. CASE Crash
  <2>1. svc' = 0 /\ \A w \in Worker : job'[w].store = 0
    BY <1>2 DEF Crash, NoJob, Job
  <2> QED
    BY <2>1 DEF CopyInv, InUse
<1>3. ASSUME NEW w \in Worker, Request(w), ~split', NEW s \in InUse' PROVE mem'[s] = file'
  <2>1. ~split /\ file' = file /\ svc' = svc
    BY <1>3, RequestForm, RequestStore
  <2>2. CASE job'[w].store \in {0, svc} /\ UNCHANGED <<mem, stores>>
    <3>1. s \in InUse
      BY <1>3, <2>1, <2>2, RequestStore DEF InUse
    <3> QED
      BY <2>1, <2>2, <3>1 DEF CopyInv
  <2>3. CASE /\ job'[w].store = stores + 1 /\ stores < MaxStores
             /\ mem' = [mem EXCEPT ![stores + 1] = file]
    <3>1. stores + 1 \in Store /\ stores \in Nat
      BY <2>3, BoundAssumption DEF TypeOK, Store
    <3>2. CASE s = stores + 1
      BY <2>1, <2>3, <3>1, <3>2 DEF TypeOK
    <3>3. CASE s # stores + 1
      <4>1. s \in InUse
        BY <1>3, <2>1, <2>3, <3>3, RequestStore DEF InUse
      <4>2. mem'[s] = mem[s]
        <5>1. s \in Store
          BY <4>1, ThreadType DEF InUse, TypeOK, Store
        <5> QED
          BY <2>3, <3>3, <5>1 DEF TypeOK
      <4> QED
        BY <2>1, <4>1, <4>2 DEF CopyInv
    <3> QED
      BY <3>2, <3>3
  <2> QED
    BY <1>3, <2>2, <2>3, RequestStore
<1>4. ASSUME NEW w \in Worker, Work(w), ~split', NEW s \in InUse' PROVE mem'[s] = file'
  <2>1. s \in InUse
    <3>1. NoJob.store = 0
      BY DEF NoJob, Job
    <3> QED
      BY <1>4, <3>1, WorkForm, WorkStore DEF InUse
  <2>2. CASE UNCHANGED <<mem, file, split>>
    BY <1>4, <2>1, <2>2 DEF CopyInv
  <2>3. CASE /\ pc[w] \in {"enter", "add"}
             /\ mem' = [mem EXCEPT ![job[w].store] = file']
             /\ split' = (split \/ InUse # {job[w].store})
    <3>1. InUse = {job[w].store}
      BY <1>4, <2>3
    <3>2. s = job[w].store /\ s \in Store
      BY <2>1, <2>3, <3>1, MineType
    <3> QED
      BY <2>3, <3>2 DEF TypeOK
  <2> QED
    BY <1>4, <2>2, <2>3, WorkPut, Zenon
<1> QED
  BY <1>1, <1>2, <1>3, <1>4 DEF Next, CopyInv

\* Only the holder of the lock, or a thread that comes while it is free, changes
\* the two stores; and no step takes a split back.
LEMMA WorkData ==
  ASSUME TypeOK, NEW w \in Worker, Work(w)
  PROVE  /\ pc[w] \in Locked \/ mutex = None \/ UNCHANGED <<file, secret, left>>
         /\ ~split' => ~split
<1>1. ~split' => ~split
  BY WorkPut
<1>2. pc[w] \in Locked \/ mutex = None \/ UNCHANGED <<file, secret, left>>
  BY DEF Work, Swap, Refuse, Take, Add, Admit, PutToken, AddWithToken, CleanUp, Withdraw,
         Drop, Entering, Locked
<1> QED
  BY <1>1, <1>2

\* HalfwayInv of one thread.
HalfwayOf(w) ==
  /\ pc[w] \in {"take", "put", "add", "clean"} => job[w].kind = "wizard"
  /\ pc[w] = "drop" => job[w].kind = "remove"
  /\ job[w].kind = "wizard" => job[w].ref = job[w].name /\ job[w].token # 0
  /\ job[w].kind = "add" => job[w].token = 0
  /\ pc[w] \in {"add", "clean"} => secret[job[w].name] = job[w].token
  /\ ~split /\ pc[w] \in {"put", "add", "clean", "drop"} =>
       file[job[w].name] = NoConn

LEMMA HalfwayParts ==
  /\ HalfwayInv <=> \A w \in Worker : HalfwayOf(w)
  /\ HalfwayInv' <=> \A w \in Worker : HalfwayOf(w)'
BY Zenon DEF HalfwayInv, HalfwayOf

LEMMA IdleHalfway ==
  ASSUME NEW w \in Worker, pc'[w] = "idle", job'[w] = NoJob PROVE HalfwayOf(w)'
BY DEF HalfwayOf, NoJob, Job

LEMMA EndForm ==
  ASSUME TypeOK, NEW w \in Worker, End(w) PROVE pc'[w] = "idle" /\ job'[w] = NoJob
BY DEF TypeOK, End, Goto

LEMMA GotoForm ==
  ASSUME TypeOK, NEW w \in Worker, NEW l, Goto(w, l) PROVE pc'[w] = l
BY DEF TypeOK, Goto

LEMMA WorkHalfway ==
  ASSUME TypeOK, CopyInv, NEW w \in Worker, HalfwayOf(w), Work(w)
  PROVE  HalfwayOf(w)'
<1>1. CASE End(w)
  BY <1>1, EndForm, IdleHalfway
<1>2. CASE Take(w) /\ ~End(w)
  <2>1. /\ pc[w] = "take" /\ pc'[w] = "enter"
        /\ job'[w] = Job("wizard", job[w].name, job[w].ref, svc, job[w].token)
    BY <1>2, GotoForm DEF Take, TypeOK
  <2>2. /\ job'[w].kind = "wizard" /\ job'[w].name = job[w].name
        /\ job'[w].ref = job[w].ref /\ job'[w].token = job[w].token
    BY <2>1 DEF Job
  <2> QED
    BY <2>1, <2>2 DEF HalfwayOf
<1>3. CASE Admit(w) /\ ~End(w)
  <2>1. /\ pc[w] = "enter" /\ job[w].kind = "wizard" /\ pc'[w] = "put"
        /\ Mine(w)[job[w].name] = NoConn
        /\ UNCHANGED <<job, file, split>>
    BY <1>3, GotoForm DEF Admit, Entering
  <2>2. ~split => file[job[w].name] = NoConn
    BY <2>1, MineIsFile
  <2> QED
    BY <2>1, <2>2 DEF HalfwayOf
<1>4. CASE PutToken(w) /\ ~End(w)
  <2>1. /\ pc[w] = "put" /\ pc'[w] = "add"
        /\ UNCHANGED <<job, file, split>>
        /\ secret' = [secret EXCEPT ![job[w].name] = job[w].token]
    BY <1>4, GotoForm DEF PutToken, Leave
  <2>2. secret'[job[w].name] = job[w].token
    BY <2>1, MineType DEF TypeOK
  <2> QED
    BY <2>1, <2>2 DEF HalfwayOf
<1>5. CASE AddWithToken(w) /\ ~End(w)
  <2>1. pc[w] = "add" /\ pc'[w] = "clean" /\ UNCHANGED <<job, file, split, secret>>
    BY <1>5, GotoForm DEF AddWithToken, Leave
  <2> QED
    BY <2>1 DEF HalfwayOf
<1>6. CASE Withdraw(w) /\ ~End(w)
  <2> DEFINE found == Mine(w)[job[w].name]
  <2>1. /\ pc[w] = "enter" /\ pc'[w] = "drop"
        /\ \/ found = NoConn /\ UNCHANGED <<mem, file, split>>
           \/ found # NoConn /\ Put(w, Without(w))
        /\ job'[w] = Job("remove", job[w].name, found.ref, job[w].store, 0)
    BY <1>6, GotoForm DEF Withdraw, Entering, TypeOK
  <2>2. job'[w].kind = "remove" /\ job'[w].name = job[w].name
    BY <2>1 DEF Job
  <2>3. ASSUME ~split' PROVE file'[job[w].name] = NoConn
    <3>1. CASE found = NoConn /\ UNCHANGED <<mem, file, split>>
      BY <2>1, <2>3, <3>1, MineIsFile
    <3>2. CASE Put(w, Without(w))
      BY <2>1, <3>2, MineType DEF Put, Without
    <3> QED
      BY <2>1, <3>1, <3>2
  <2> QED
    BY <2>1, <2>2, <2>3 DEF HalfwayOf
<1> QED
  BY <1>1, <1>2, <1>3, <1>4, <1>5, <1>6
     DEF Work, Swap, Refuse, Add, CleanUp, Drop, Leave

LEMMA HalfwayStep ==
  ASSUME TypeOK, LockInv, CopyInv, HalfwayInv, Next PROVE HalfwayInv'
<1>1. ASSUME NEW git \in BOOLEAN, Boot(git) PROVE HalfwayInv'
  <2>1. UNCHANGED <<pc, job, secret, file, split>>
    BY <1>1 DEF Boot, threads
  <2> QED
    BY <2>1 DEF HalfwayInv
<1>2. CASE Crash
  <2>1. \A w \in Worker : pc'[w] = "idle" /\ job'[w] = NoJob
    BY <1>2 DEF Crash
  <2> QED
    BY <2>1, IdleHalfway, HalfwayParts
<1>3. ASSUME NEW w \in Worker, Request(w), NEW v \in Worker PROVE HalfwayOf(v)'
  <2>1. HalfwayOf(v) /\ UNCHANGED <<secret, file, split>>
    BY <1>3, RequestForm, RequestStore, HalfwayParts
  <2>2. CASE v = w
    BY <1>3, <2>2, RequestForm DEF HalfwayOf
  <2>3. CASE v # w
    BY <1>3, <2>1, <2>3, RequestForm DEF HalfwayOf
  <2> QED
    BY <2>2, <2>3
<1>4. ASSUME NEW w \in Worker, Work(w), NEW v \in Worker PROVE HalfwayOf(v)'
  <2>1. HalfwayOf(v)
    BY HalfwayParts
  <2>2. CASE v = w
    BY <1>4, <2>1, <2>2, WorkHalfway
  <2>3. CASE v # w
    <3>1. pc'[v] = pc[v] /\ job'[v] = job[v]
      BY <1>4, <2>3, WorkForm
    <3>2. pc[v] \in Locked => UNCHANGED <<file, secret>>
      BY <1>4, <2>3, WorkData, NameAssumption DEF LockInv, Locked
    <3>3. ~split' => ~split
      BY <1>4, WorkData
    <3> QED
      BY <2>1, <3>1, <3>2, <3>3 DEF HalfwayOf, Locked
  <2> QED
    BY <2>2, <2>3
<1> QED
  BY <1>1, <1>2, <1>3, <1>4, HalfwayParts DEF Next

\* What a thread at work does to the file, the tokens and the record of what is
\* left behind, while no store was split off: the cases of its handlers.
Unchanged == UNCHANGED <<file, secret>> /\ left \subseteq left'
Added(w) ==
  /\ file[job[w].name] = NoConn /\ pc[w] = "enter"
  /\ file' = [file EXCEPT ![job[w].name] = Conn(job[w].ref, 0)]
  /\ UNCHANGED <<secret, left>>
Stored(w) ==
  /\ file[job[w].name] = NoConn /\ job[w].token # 0
  /\ secret' = [secret EXCEPT ![job[w].name] = job[w].token]
  /\ left' = left \ {job[w].name}
  /\ pc'[w] = "add" /\ UNCHANGED <<file, job>>
AddedWithToken(w) ==
  /\ file[job[w].name] = NoConn
  /\ file' = [file EXCEPT ![job[w].name] = Conn(job[w].name, job[w].token)]
  /\ secret[job[w].name] = job[w].token
  /\ UNCHANGED <<secret, left>>
Withdrawn(w) ==
  /\ file' = [file EXCEPT ![job[w].name] = NoConn]
  /\ left' = left \cup ({file[job[w].name].ref} \ {job[w].name, External, None})
  /\ pc[w] = "enter" /\ pc'[w] = "drop"
  /\ job'[w] = Job("remove", job[w].name, file[job[w].name].ref, job[w].store, 0)
  /\ UNCHANGED secret
CleanedUp(w) ==
  /\ file[job[w].name] = NoConn /\ pc[w] = "clean"
  /\ secret' = [secret EXCEPT ![job[w].name] = 0]
  /\ UNCHANGED <<file, left>>
Dropped(w) ==
  /\ file[job[w].name] = NoConn /\ \A m \in Name : file[m].ref # job[w].name
  /\ secret' = [secret EXCEPT ![job[w].name] = 0]
  /\ left' = left \ {job[w].name}
  /\ UNCHANGED file

LEMMA WorkEffect ==
  ASSUME TypeOK, CopyInv, HalfwayInv, NEW w \in Worker, Work(w), ~split
  PROVE  \/ Unchanged \/ Added(w) \/ Stored(w) \/ AddedWithToken(w)
         \/ Withdrawn(w) \/ CleanedUp(w) \/ Dropped(w)
<1>0. HalfwayOf(w)
  BY HalfwayParts
<1>1. CASE Swap(w) \/ Refuse(w) \/ Take(w) \/ Admit(w)
  BY <1>1 DEF Swap, Refuse, Take, Admit, Unchanged
<1>2. CASE Add(w)
  <2>1. pc[w] = "enter" /\ job[w].kind = "add" /\ Mine(w) = file
    BY <1>2, MineIsFile DEF Add, Entering
  <2>2. job[w].token = 0
    BY <1>0, <2>1 DEF HalfwayOf
  <2> QED
    BY <1>2, <2>1, <2>2 DEF Add, Unchanged, Added, Put, With
<1>3. CASE PutToken(w)
  <2>1. /\ pc[w] = "put" /\ file[job[w].name] = NoConn /\ job[w].token # 0
    BY <1>0, <1>3 DEF PutToken, HalfwayOf
  <2> QED
    BY <1>3, <2>1, GotoForm DEF PutToken, Unchanged, Stored
<1>4. CASE AddWithToken(w)
  <2>1. pc[w] = "add" /\ Mine(w) = file
    BY <1>4, MineIsFile DEF AddWithToken
  <2>2. /\ file[job[w].name] = NoConn /\ secret[job[w].name] = job[w].token
        /\ job[w].ref = job[w].name
    BY <1>0, <2>1 DEF HalfwayOf
  <2> QED
    BY <1>4, <2>1, <2>2 DEF AddWithToken, Unchanged, AddedWithToken, Put, With
<1>5. CASE CleanUp(w)
  <2>1. pc[w] = "clean" /\ file[job[w].name] = NoConn
    BY <1>0, <1>5 DEF CleanUp, HalfwayOf
  <2> QED
    BY <1>5, <2>1 DEF CleanUp, Unchanged, CleanedUp
<1>6. CASE Withdraw(w)
  <2>1. pc[w] = "enter" /\ Mine(w) = file
    BY <1>6, MineIsFile DEF Withdraw, Entering
  <2>2. CASE End(w)
    BY <1>6, <2>1, <2>2, EndForm, GotoForm DEF Withdraw, Unchanged
  <2>3. CASE /\ \/ file[job[w].name] = NoConn /\ UNCHANGED <<mem, file, split>>
                \/ file[job[w].name] # NoConn /\ Put(w, Without(w))
             /\ job' = [job EXCEPT ![w] =
                  Job("remove", @.name, file[job[w].name].ref, @.store, 0)]
             /\ left' = left \cup ({file[job[w].name].ref} \ {job[w].name, External, None})
             /\ Goto(w, "drop")
    <3>1. CASE UNCHANGED file
      BY <1>6, <2>3, <3>1 DEF Withdraw, Unchanged
    <3>2. CASE Put(w, Without(w))
      BY <1>6, <2>1, <2>3, <3>2, GotoForm DEF Withdraw, Withdrawn, Put, Without, TypeOK
    <3> QED
      BY <2>3, <3>1, <3>2
  <2> QED
    BY <1>6, <2>1, <2>2, <2>3 DEF Withdraw
<1>7. CASE Drop(w)
  <2>1. pc[w] = "drop" /\ Mine(w) = file /\ file[job[w].name] = NoConn
    BY <1>0, <1>7, MineIsFile DEF Drop, HalfwayOf
  <2> QED
    BY <1>7, <2>1 DEF Drop, Unused, Unchanged, Dropped
<1> QED
  BY <1>1, <1>2, <1>3, <1>4, <1>5, <1>6, <1>7 DEF Work

LEMMA DropOnly ==
  ASSUME TypeOK, NEW w \in Worker, Work(w), pc[w] = "enter", pc'[w] = "drop"
  PROVE  job[w].kind = "remove"
<1>1. ~(Add(w) \/ End(w))
  BY EndForm DEF Add
<1>2. ~Admit(w)
  BY <1>1, GotoForm DEF Admit
<1>3. Withdraw(w)
  BY <1>1, <1>2
     DEF Work, Swap, Refuse, Take, PutToken, AddWithToken, CleanUp, Drop
<1> QED
  BY <1>3 DEF Withdraw, Entering

LEMMA NoConnForm == NoConn.ref = None /\ NoConn.token = 0
BY DEF NoConn, Conn

LEMMA SecretStep ==
  ASSUME TypeOK, CopyInv, HalfwayInv, HasSecret, Next PROVE HasSecret'
<1>1. CASE UNCHANGED <<file, secret, split>>
  BY <1>1 DEF HasSecret
<1>2. ASSUME NEW w \in Worker, Work(w), ~split', NEW n \in Name, file'[n].token # 0
      PROVE  file'[n].ref = n /\ secret'[n] = file'[n].token
  <2>0. ~split
    BY <1>2, WorkData
  <2>1. file[n].token # 0 => file[n].ref = n /\ secret[n] = file[n].token
    BY <2>0 DEF HasSecret
  <2>2. \A r, k : Conn(r, k).ref = r /\ Conn(r, k).token = k
    BY DEF Conn
  <2>3. file \in [Name -> ConnType] /\ secret \in [Name -> Token]
    BY DEF TypeOK
  <2> QED
    BY <1>2, <2>0, <2>1, <2>2, <2>3, NoConnForm, WorkEffect
       DEF Unchanged, Added, Stored, AddedWithToken, Withdrawn, CleanedUp, Dropped
<1>3. ASSUME NEW w \in Worker, Request(w) PROVE UNCHANGED <<file, secret, split>>
  BY <1>3, RequestForm, RequestStore
<1>4. ASSUME NEW git \in BOOLEAN, Boot(git) PROVE UNCHANGED <<file, secret, split>>
  BY <1>4 DEF Boot
<1>5. CASE Crash
  BY <1>1, <1>5 DEF Crash
<1> QED
  BY <1>1, <1>2, <1>3, <1>4, <1>5 DEF Next, HasSecret

\* A token is explained by a connection, by the record of what is left behind, or
\* by a thread between its two changes.
HeldBy(w, n) ==
  /\ Halfway(w) /\ job[w].name = n
  /\ pc[w] = "drop" => job[w].ref \in {n, None}
Explained(n) ==
  secret[n] # 0 =>
    \/ \E m \in Name : file[m].ref = n
    \/ n \in left
    \/ \E w \in Worker : HeldBy(w, n)

LEMMA OrphanParts ==
  /\ OrphansExplained <=> (~split => \A n \in Name : Explained(n))
  /\ OrphansExplained' <=> (~split' => \A n \in Name : Explained(n)')
BY Zenon DEF OrphansExplained, Explained, HeldBy

\* A thread that leaves the two stores as they are goes on to explain the token, or
\* leaves it behind, or has found a connection that uses it.
LEMMA WorkHeld ==
  ASSUME TypeOK, CopyInv, HalfwayInv, ~split, NEW w \in Worker, NEW n \in Name,
         HeldBy(w, n), Work(w), Unchanged, secret[n] # 0
  PROVE  \/ HeldBy(w, n)' \/ n \in left' \/ \E m \in Name : file[m].ref = n
<1>1. job[w].name = n /\ pc[w] \in {"add", "clean", "drop"}
  BY DEF HeldBy, Halfway
<1>2. CASE AddWithToken(w)
  <2>1. CASE Goto(w, "clean") /\ UNCHANGED job
    <3>1. pc'[w] = "clean" /\ job[w].kind = "wizard"
      BY <1>1, <1>2, <2>1, GotoForm, HalfwayParts DEF AddWithToken, HalfwayOf
    <3> QED
      BY <1>1, <2>1, <3>1 DEF HeldBy, Halfway
  <2>2. CASE Put(w, With(w))
    <3>1. Mine(w) = file /\ job[w].ref = n
      BY <1>1, <1>2, MineIsFile, HalfwayParts DEF AddWithToken, HalfwayOf
    <3>2. file'[n].ref = n
      BY <1>1, <2>2, <3>1 DEF Put, With, Conn, TypeOK
    <3> QED
      BY <3>2 DEF Unchanged
  <2> QED
    BY <1>2, <2>1, <2>2 DEF AddWithToken
<1>3. CASE CleanUp(w)
  <2>1. secret' = [secret EXCEPT ![n] = 0] => secret'[n] = 0
    BY DEF TypeOK
  <2> QED
    BY <1>1, <1>3, <2>1 DEF CleanUp, Unchanged
<1>4. CASE Drop(w)
  <2>1. secret' = [secret EXCEPT ![n] = 0] => secret'[n] = 0
    BY DEF TypeOK
  <2>2. Mine(w) = file /\ job[w].ref \in {n, None}
    BY <1>4, MineIsFile DEF Drop, HeldBy
  <2> QED
    BY <1>1, <1>4, <2>1, <2>2 DEF Drop, Unused, Unchanged
<1> QED
  BY <1>1, <1>2, <1>3, <1>4
     DEF Work, Swap, Refuse, Take, Add, Admit, PutToken, Withdraw, Entering

LEMMA WorkOrphan ==
  ASSUME TypeOK, CopyInv, HalfwayInv, NEW w \in Worker, NEW n \in Name,
         Explained(n), Work(w), ~split, secret'[n] # 0
  PROVE  \/ \E m \in Name : file'[m].ref = n
         \/ n \in left'
         \/ \E v \in Worker : HeldBy(v, n)'
<1>0. /\ file \in [Name -> ConnType] /\ secret \in [Name -> Token]
      /\ n \notin {None, External}
  BY NameAssumption DEF TypeOK
<1>1. ASSUME NEW v \in Worker, v # w, HeldBy(v, n) PROVE HeldBy(v, n)'
  BY <1>1, WorkForm DEF HeldBy, Halfway
<1>2. CASE Unchanged
  <2>1. secret[n] # 0 /\ file' = file /\ left \subseteq left'
    BY <1>2 DEF Unchanged
  <2>2. ASSUME HeldBy(w, n)
        PROVE  HeldBy(w, n)' \/ n \in left' \/ \E m \in Name : file[m].ref = n
    BY <1>2, <2>1, <2>2, WorkHeld
  <2> QED
    BY <1>1, <2>1, <2>2 DEF Explained
<1>3. CASE Added(w) \/ AddedWithToken(w)
  <2>1. \A m \in Name : file[m].ref = n => file'[m] = file[m]
    BY <1>0, <1>3, NoConnForm DEF Added, AddedWithToken
  <2>2. secret[n] # 0 /\ left' = left
    BY <1>3 DEF Added, AddedWithToken
  <2>3. ASSUME HeldBy(w, n) PROVE file'[n].ref = n
    <3>1. job[w].name = n /\ pc[w] # "enter"
      BY <2>3 DEF HeldBy, Halfway
    <3> QED
      BY <1>0, <1>3, <3>1 DEF Added, AddedWithToken, Conn
  <2> QED
    BY <1>1, <2>1, <2>2, <2>3 DEF Explained
<1>4. CASE Stored(w)
  <2>1. CASE job[w].name = n
    <3>1. pc'[w] = "add" /\ job' = job
      BY <1>4 DEF Stored
    <3>2. job[w].kind = "wizard"
      BY <3>1, HalfwayParts, WorkHalfway DEF HalfwayOf
    <3>3. HeldBy(w, n)'
      BY <2>1, <3>1, <3>2 DEF HeldBy, Halfway
    <3> QED
      BY <3>3
  <2>2. CASE job[w].name # n
    <3>1. secret[n] # 0 /\ file' = file /\ (n \in left => n \in left')
      BY <1>0, <1>4, <2>2 DEF Stored
    <3>2. ~HeldBy(w, n)
      BY <2>2 DEF HeldBy
    <3> QED
      BY <1>1, <3>1, <3>2 DEF Explained
  <2> QED
    BY <2>1, <2>2
<1>5. CASE Withdrawn(w)
  <2>1. /\ secret' = secret /\ left \subseteq left' /\ ~HeldBy(w, n)
    BY <1>5 DEF Withdrawn, HeldBy, Halfway
  <2>2. ASSUME NEW m \in Name, file[m].ref = n, file'[m] # file[m]
        PROVE  HeldBy(w, n)' \/ n \in left'
    <3>1. m = job[w].name
      BY <1>0, <1>5, <2>2 DEF Withdrawn
    <3>2. CASE m = n
      <4>1. job'[w] = Job("remove", n, n, job[w].store, 0) /\ pc'[w] = "drop"
        BY <1>5, <2>2, <3>1, <3>2 DEF Withdrawn
      <4> QED
        BY <4>1 DEF HeldBy, Halfway, Job
    <3>3. CASE m # n
      BY <1>0, <1>5, <2>2, <3>1, <3>3 DEF Withdrawn
    <3> QED
      BY <3>2, <3>3
  <2> QED
    BY <1>1, <2>1, <2>2 DEF Explained
<1>6. CASE CleanedUp(w) \/ Dropped(w)
  <2>1. job[w].name # n
    BY <1>0, <1>6 DEF CleanedUp, Dropped
  <2>2. secret[n] # 0 /\ file' = file /\ (n \in left => n \in left') /\ ~HeldBy(w, n)
    BY <1>0, <1>6, <2>1 DEF CleanedUp, Dropped, HeldBy
  <2> QED
    BY <1>1, <2>2 DEF Explained
<1> QED
  BY <1>2, <1>3, <1>4, <1>5, <1>6, WorkEffect

LEMMA OrphanStep ==
  ASSUME TypeOK, LockInv, CopyInv, HalfwayInv, OrphansExplained, Next
  PROVE  OrphansExplained'
<1>1. ASSUME NEW git \in BOOLEAN, Boot(git) PROVE OrphansExplained'
  <2>1. UNCHANGED <<pc, job, secret, file, split, left>>
    BY <1>1 DEF Boot, threads
  <2> QED
    BY <2>1 DEF OrphansExplained, Halfway
<1>2. CASE Crash
  <2>1. \A n \in Name, w \in Worker : HeldBy(w, n) => n \in left'
    BY <1>2 DEF Crash, HeldBy
  <2>2. UNCHANGED <<secret, file, split>> /\ left \subseteq left'
    BY <1>2 DEF Crash
  <2>3. \A n \in Name : Explained(n) => Explained(n)'
    BY <2>1, <2>2 DEF Explained
  <2> QED
    BY <2>2, <2>3, OrphanParts
<1>3. ASSUME NEW w \in Worker, Request(w), NEW n \in Name, Explained(n)
      PROVE  Explained(n)'
  <2>1. UNCHANGED <<secret, file, left>> /\ pc[w] = "idle"
    BY <1>3, RequestForm
  <2>2. \A v \in Worker : HeldBy(v, n) => HeldBy(v, n)'
    BY <1>3, <2>1, RequestForm DEF HeldBy, Halfway
  <2> QED
    BY <1>3, <2>1, <2>2 DEF Explained
<1>4. ASSUME NEW w \in Worker, Work(w), ~split', NEW n \in Name PROVE Explained(n)'
  <2>1. ~split /\ Explained(n)
    BY <1>4, WorkData, OrphanParts
  <2> QED
    BY <1>4, <2>1, WorkOrphan DEF Explained
<1>5. ASSUME NEW w \in Worker, Request(w) PROVE split' = split
  BY <1>5, RequestStore
<1> QED
  BY <1>1, <1>2, <1>3, <1>4, <1>5, OrphanParts DEF Next

\* What no step of the server breaks: the lock, the services, the copies of the
\* file, and what each thread between its two changes relies on.
THEOREM Invariance == Spec => []GitInv
<1>1. Init => GitInv
  <2> SUFFICES ASSUME Init PROVE GitInv
    OBVIOUS
  <2>1. /\ NoJob.kind = "none" /\ NoJob.store = 0 /\ NoConn.token = 0
        /\ Config(FALSE, FALSE).git = FALSE
    BY DEF NoJob, Job, NoConn, Conn, Config
  <2>2. LockInv /\ ServiceInv /\ OneStoreInv
    <3>1. \A w \in Worker : pc[w] = "idle" /\ job[w] = NoJob /\ mutex # w
      BY NameAssumption DEF Init
    <3>2. svc = 0 /\ stores = 0 /\ ~cfg.git /\ ~up /\ ~split
      BY <2>1 DEF Init
    <3>3. LockInv /\ ServiceInv
      BY <2>1, <3>1, <3>2 DEF LockInv, ServiceInv
    <3> QED
      BY <3>2, <3>3 DEF OneStoreInv
  <2>3. CopyInv /\ HalfwayInv
    BY <2>1 DEF Init, CopyInv, HalfwayInv, InUse
  <2>4. HasSecret /\ OrphansExplained
    BY <2>1 DEF Init, HasSecret, OrphansExplained, NoConns
  <2> QED
    BY <2>2, <2>3, <2>4, InitType DEF GitInv
<1>2. GitInv /\ [Next]_vars => GitInv'
  <2> SUFFICES ASSUME GitInv, [Next]_vars PROVE GitInv'
    OBVIOUS
  <2>1. CASE UNCHANGED vars
    BY <2>1 DEF vars, config, threads, GitInv, TypeOK, LockInv, ServiceInv, OneStoreInv,
                CopyInv, InUse, HalfwayInv, HasSecret, OrphansExplained, Halfway
  <2>2. CASE Next
    <3>1. TypeOK'
      BY <2>2, BootType, CrashType, RequestStepType, WorkType DEF Next, GitInv
    <3> QED
      BY <2>2, <3>1, LockStep, ServiceStep, OneStoreStep, CopyStep, HalfwayStep,
         SecretStep, OrphanStep DEF GitInv
  <2> QED
    BY <2>1, <2>2
<1> QED
  BY <1>1, <1>2, PTL DEF Spec

\* A connection of the wizard has the token that was given with it.
THEOREM SecretsSafe == Spec => []HasSecret
<1>1. GitInv => HasSecret
  BY DEF GitInv
<1> QED
  BY <1>1, Invariance, PTL

\* A token without a connection is one whose story is known.
THEOREM OrphansSafe == Spec => []OrphansExplained
<1>1. GitInv => OrphansExplained
  BY DEF GitInv
<1> QED
  BY <1>1, Invariance, PTL

\* A connection goes by its own removal only.
THEOREM ConnectionsSafe == Spec => ConnectionsKept
<1>1. ASSUME GitInv, [Next]_vars, NEW n \in Name,
             ~split, file[n] # NoConn, file'[n] # file[n]
      PROVE  \E w \in Worker :
               job[w].kind = "remove" /\ job[w].name = n /\ pc'[w] = "drop"
  <2>1. PICK w \in Worker : Work(w)
    <3>1. file' # file
      BY <1>1
    <3>2. \A git \in BOOLEAN : ~Boot(git)
      BY <3>1 DEF Boot
    <3>3. ~Crash
      BY <3>1 DEF Crash
    <3>4. \A w \in Worker : TypeOK /\ Request(w) => file' = file
      BY RequestForm
    <3> QED
      BY <1>1, <3>1, <3>2, <3>3, <3>4 DEF Next, vars, GitInv
  <2>2. TypeOK /\ CopyInv /\ HalfwayInv
    BY <1>1 DEF GitInv
  <2>3. file \in [Name -> ConnType]
    BY <2>2 DEF TypeOK
  <2>4. Withdrawn(w)
    BY <1>1, <2>1, <2>2, <2>3, WorkEffect
       DEF Unchanged, Added, Stored, AddedWithToken, CleanedUp, Dropped
  <2>5. pc[w] = "enter" /\ pc'[w] = "drop" /\ job[w].name = n
    BY <1>1, <2>3, <2>4 DEF Withdrawn
  <2>6. job[w].kind = "remove"
    BY <2>1, <2>2, <2>5, DropOnly
  <2> QED
    BY <2>5, <2>6
<1>2. GitInv /\ [Next]_vars =>
        [\A n \in Name :
           ~split /\ file[n] # NoConn /\ file'[n] # file[n] =>
             \E w \in Worker :
               job[w].kind = "remove" /\ job[w].name = n /\ pc'[w] = "drop"]_vars
  BY <1>1
<1> QED
  BY <1>2, Invariance, PTL DEF Spec, ConnectionsKept

\* A removal deletes no token that is in use.
THEOREM InUseSafe == Spec => InUseKept
<1>1. ASSUME GitInv, [Next]_vars, NEW n \in Name,
             ~split, secret[n] # 0, secret'[n] = 0
      PROVE  \/ \A m \in Name : file[m].ref # n
             \/ \E w \in Worker : pc[w] = "clean" /\ job[w].name = n
  <2>1. PICK w \in Worker : Work(w)
    <3>1. secret' # secret
      BY <1>1
    <3>2. \A git \in BOOLEAN : ~Boot(git)
      BY <3>1 DEF Boot
    <3>3. ~Crash
      BY <3>1 DEF Crash
    <3>4. \A w \in Worker : TypeOK /\ Request(w) => secret' = secret
      BY RequestForm
    <3> QED
      BY <1>1, <3>1, <3>2, <3>3, <3>4 DEF Next, vars, GitInv
  <2>2. TypeOK /\ CopyInv /\ HalfwayInv
    BY <1>1 DEF GitInv
  <2>3. secret \in [Name -> Token]
    BY <2>2 DEF TypeOK
  <2>4. CASE CleanedUp(w)
    BY <1>1, <2>3, <2>4 DEF CleanedUp
  <2>5. CASE Dropped(w)
    BY <1>1, <2>3, <2>5 DEF Dropped
  <2> QED
    BY <1>1, <2>1, <2>2, <2>3, <2>4, <2>5, WorkEffect
       DEF Unchanged, Added, Stored, AddedWithToken, Withdrawn
<1>2. GitInv /\ [Next]_vars =>
        [\A n \in Name :
           ~split /\ secret[n] # 0 /\ secret'[n] = 0 =>
             \/ \A m \in Name : file[m].ref # n
             \/ \E w \in Worker : pc[w] = "clean" /\ job[w].name = n]_vars
  BY <1>1
<1> QED
  BY <1>2, Invariance, PTL DEF Spec, InUseKept
============================================================================
