--------------------------- MODULE GitConnections ---------------------------
(***************************************************************************)
(* Git connections and their tokens: the handlers of api/app.py over       *)
(* FileGitConnectionStore (git/connections.py) and the secret store, while *)
(* the configuration is changed at run time, which may rebuild the Git     *)
(* service and switch both stores on and off.                              *)
(*                                                                         *)
(* The secret store is what SecretStore shows of it: put and delete take   *)
(* effect at once or fail and change nothing.  A token is the number of    *)
(* the request that brought it.  The entry of the token of connection n is *)
(* named "git/n" in the code and n here.  os.replace makes a write of the  *)
(* file of connections one step.                                           *)
(***************************************************************************)
EXTENDS Naturals

CONSTANTS
  Worker,       \* threads of the server
  Name,         \* names of connections
  External,     \* a reference to a secret that is not in the store
  MaxRequests,  \* bound on the requests
  MaxStores,    \* bound on the stores that one process builds
  None

ASSUME NameAssumption ==
  /\ None \notin Worker /\ None \notin Name
  /\ External \notin Name /\ External # None
ASSUME BoundAssumption ==
  /\ MaxRequests \in Nat /\ MaxStores \in Nat \ {0}

VARIABLES
  up,        \* whether the server runs
  cfg,       \* state["config"]: git.enabled, security.secret_store.enabled
  svc,       \* state["git_service"]: its store, 0 without a service
  stores,    \* stores built so far in this process
  mem,       \* _by_name of each of them
  file,      \* the file of connections
  secret,    \* the secret store: the token under each name, 0 for none
  mutex,     \* _mutex_polaczen: who holds it
  pc,        \* where the thread is
  job,       \* its request
  \* history
  requests,  \* requests so far
  off,       \* whether Git has been off in a process
  split,     \* whether a store was written while another one was in use
  left       \* names whose token a reported or fatal failure, or a connection
             \* that borrowed it, may have left behind

config == <<cfg, svc, stores, off>>
threads == <<pc, job>>
vars == <<up, config, mem, file, secret, mutex, threads, requests, split, left>>

Store == 1..MaxStores

\* A connection is its token_ref, and, for the record, the token given with it.
Conn(ref, token) == [ref |-> ref, token |-> token]
NoConn == Conn(None, 0)
NoConns == [n \in Name |-> NoConn]

Config(git, secrets) == [git |-> git, secrets |-> secrets]

Job(kind, n, ref, s, token) ==
  [kind |-> kind, name |-> n, ref |-> ref, store |-> s, token |-> token,
   cfg |-> Config(FALSE, FALSE)]
ConfigJob(s, c) == [kind |-> "config", name |-> None, ref |-> None, store |-> s,
                    token |-> 0, cfg |-> c]
NoJob == Job("none", None, None, 0, 0)

Init ==
  /\ up = FALSE
  /\ cfg = Config(FALSE, FALSE) /\ svc = 0 /\ stores = 0
  /\ mem = [s \in Store |-> NoConns]
  /\ file = NoConns
  /\ secret = [n \in Name |-> 0]
  /\ mutex = None
  /\ pc = [w \in Worker |-> "idle"]
  /\ job = [w \in Worker |-> NoJob]
  /\ requests = 0 /\ off = FALSE /\ split = FALSE /\ left = {}

Goto(w, l) == pc' = [pc EXCEPT ![w] = l]
End(w) == Goto(w, "idle") /\ job' = [job EXCEPT ![w] = NoJob]

\* The stores that the server or a request under way can still write to.
InUse == ({svc} \cup {job[w].store : w \in Worker}) \ {0}

----------------------------------------------------------------------------
(* The process.                                                            *)

\* create_app with the configuration of the start, which has a secret store.
Boot(git) ==
  /\ ~up
  /\ up' = TRUE
  /\ cfg' = Config(git, TRUE)
  /\ off' = (off \/ ~git)
  /\ IF git
     THEN /\ svc' = 1 /\ stores' = 1
          /\ mem' = [mem EXCEPT ![1] = file]
     ELSE UNCHANGED <<svc, stores, mem>>
  /\ UNCHANGED <<file, secret, mutex, threads, requests, split, left>>

\* Requests that have changed one of the two stores and not the other.
Halfway(w) ==
  \/ job[w].kind = "wizard" /\ pc[w] \in {"add", "clean"}
  \/ job[w].kind = "remove" /\ pc[w] = "drop"

Crash ==
  /\ up
  /\ up' = FALSE
  /\ cfg' = Config(FALSE, FALSE) /\ svc' = 0 /\ stores' = 0
  /\ mem' = [s \in Store |-> NoConns]
  /\ mutex' = None
  /\ pc' = [w \in Worker |-> "idle"]
  /\ job' = [w \in Worker |-> NoJob]
  /\ left' = left \cup {job[w].name : w \in {v \in Worker : Halfway(v)}}
  /\ UNCHANGED <<file, secret, requests, off, split>>

----------------------------------------------------------------------------
(* POST /api/config/runtime (config_apply).                                *)

Begin(w, j, l) ==
  /\ up /\ pc[w] = "idle" /\ requests < MaxRequests
  /\ requests' = requests + 1
  /\ job' = [job EXCEPT ![w] = j]
  /\ Goto(w, l)

\* _build_stack, outside every lock: _active_git hands the store of the present
\* service on; without one, a store is made from the file (_build_git).
Build(w, c) ==
  /\ \/ /\ ~c.git
        /\ Begin(w, ConfigJob(0, c), "swap")
        /\ UNCHANGED <<stores, mem>>
     \/ /\ c.git /\ svc # 0
        /\ Begin(w, ConfigJob(svc, c), "swap")
        /\ UNCHANGED <<stores, mem>>
     \/ /\ c.git /\ svc = 0 /\ stores < MaxStores
        /\ stores' = stores + 1
        /\ mem' = [mem EXCEPT ![stores + 1] = file]
        /\ Begin(w, ConfigJob(stores + 1, c), "swap")
  /\ UNCHANGED <<up, cfg, svc, off, file, secret, mutex, split, left>>

\* Configuration and service change together, under counter_lock.
Swap(w) ==
  /\ pc[w] = "swap"
  /\ cfg' = job[w].cfg
  /\ svc' = job[w].store
  /\ off' = (off \/ svc' = 0)
  /\ End(w)
  /\ UNCHANGED <<up, stores, mem, file, secret, mutex, requests, split, left>>

\* SecurityError, or another part of the stack that cannot be built.
Refuse(w) ==
  /\ pc[w] = "swap"
  /\ End(w)
  /\ UNCHANGED <<up, config, mem, file, secret, mutex, requests, split, left>>

----------------------------------------------------------------------------
(* The handlers of connections.                                            *)

quiet == <<up, config>>

\* The wizard asks for the secret store and for the service ...
Wizard(w, n) ==
  /\ cfg.secrets /\ svc # 0
  /\ Begin(w, Job("wizard", n, n, 0, requests + 1), "take")
  /\ UNCHANGED <<quiet, mem, file, secret, mutex, split, left>>

\* ... and for the service again; from here on it works with this one.
Take(w) ==
  /\ pc[w] = "take"
  /\ \/ /\ svc # 0
        /\ job' = [job EXCEPT ![w] = Job("wizard", @.name, @.ref, svc, @.token)]
        /\ Goto(w, "enter")
     \/ svc = 0 /\ End(w)
  /\ UNCHANGED <<quiet, mem, file, secret, mutex, requests, split, left>>

\* git_add_connection, git_remove_connection
AddRef(w, n, r) ==
  /\ svc # 0
  /\ Begin(w, Job("add", n, r, svc, 0), "enter")
  /\ UNCHANGED <<quiet, mem, file, secret, mutex, split, left>>

Remove(w, n) ==
  /\ svc # 0
  /\ Begin(w, Job("remove", n, None, svc, 0), "enter")
  /\ UNCHANGED <<quiet, mem, file, secret, mutex, split, left>>

\* Bug: no lock over the two stores.
EnteringUnlocked(w, kind) == pc[w] = "enter" /\ job[w].kind = kind

\* A thread comes to its with _mutex_polaczen.
Entering(w, kind) == pc[w] = "enter" /\ job[w].kind = kind /\ mutex = None

Mine(w) == mem[job[w].store]

\* FileGitConnectionStore.add, remove: the file first, the memory after it.
Put(w, conns) ==
  /\ file' = conns
  /\ mem' = [mem EXCEPT ![job[w].store] = conns]
  /\ split' = (split \/ InUse # {job[w].store})

With(w) == [Mine(w) EXCEPT ![job[w].name] = Conn(job[w].ref, job[w].token)]
Without(w) == [Mine(w) EXCEPT ![job[w].name] = NoConn]

\* A connection by reference: the name is taken or the file cannot be written,
\* or it is there.
Add(w) ==
  /\ Entering(w, "add")
  /\ \/ UNCHANGED <<mem, file, split>>
     \/ Mine(w)[job[w].name] = NoConn /\ Put(w, With(w))
  /\ End(w)
  /\ UNCHANGED <<quiet, secret, mutex, requests, left>>

\* The wizard under the lock: the secret store is still on, and the name free.
Admit(w) ==
  /\ Entering(w, "wizard")
  /\ \/ /\ cfg.secrets /\ Mine(w)[job[w].name] = NoConn
        /\ mutex' = w
        /\ Goto(w, "put") /\ UNCHANGED job
     \/ /\ ~cfg.secrets \/ Mine(w)[job[w].name] # NoConn
        /\ End(w) /\ UNCHANGED mutex
  /\ UNCHANGED <<quiet, mem, file, secret, requests, split, left>>

\* The end of the with statement.
Leave(w) == mutex' = None /\ End(w)

\* store.put, or SecretStoreError.
PutToken(w) ==
  /\ pc[w] = "put"
  /\ \/ /\ secret' = [secret EXCEPT ![job[w].name] = job[w].token]
        /\ left' = left \ {job[w].name}
        /\ Goto(w, "add") /\ UNCHANGED <<mutex, job>>
     \/ Leave(w) /\ UNCHANGED <<secret, left>>
  /\ UNCHANGED <<quiet, mem, file, requests, split>>

\* Bug: an OSError of the file passes the handler by.
AddWithTokenOnly(w) ==
  /\ pc[w] = "add"
  /\ Put(w, With(w)) \/ UNCHANGED <<mem, file, split>>
  /\ Leave(w)
  /\ UNCHANGED <<quiet, secret, requests, left>>

\* svc.add, or an error of the file.
AddWithToken(w) ==
  /\ pc[w] = "add"
  /\ \/ Put(w, With(w)) /\ Leave(w)
     \/ Goto(w, "clean") /\ UNCHANGED <<mem, file, split, mutex, job>>
  /\ UNCHANGED <<quiet, secret, requests, left>>

\* store.delete after it, which may fail as well.
CleanUp(w) ==
  /\ pc[w] = "clean"
  /\ \/ /\ secret' = [secret EXCEPT ![job[w].name] = 0]
        /\ UNCHANGED left
     \/ /\ left' = left \cup {job[w].name}
        /\ UNCHANGED secret
  /\ Leave(w)
  /\ UNCHANGED <<quiet, mem, file, requests, split>>

\* A removal reads the reference (kept in job.ref) and removes the connection; an
\* error of the file ends it.  A token that was borrowed under another name may
\* have lost its last user.
Withdraw(w) ==
  LET found == Mine(w)[job[w].name] IN
  /\ Entering(w, "remove")
  /\ \/ /\ \/ found = NoConn /\ UNCHANGED <<mem, file, split>>
           \/ found # NoConn /\ Put(w, Without(w))
        /\ mutex' = w
        /\ job' = [job EXCEPT ![w] = Job("remove", @.name, found.ref, @.store, 0)]
        /\ left' = left \cup ({found.ref} \ {job[w].name, External, None})
        /\ Goto(w, "drop")
     \/ /\ found # NoConn
        /\ End(w) /\ UNCHANGED <<mem, file, split, mutex, left>>
  /\ UNCHANGED <<quiet, secret, requests>>

\* Bug: other connections are not looked at.
UnusedHere(w) == job[w].ref \in {job[w].name, None}

\* Whether the token goes too: it is the connection's own, or nobody's, and no
\* other connection refers to it.
Unused(w) ==
  /\ job[w].ref \in {job[w].name, None}
  /\ \A m \in Name : Mine(w)[m].ref # job[w].name

Drop(w) ==
  /\ pc[w] = "drop"
  /\ \/ /\ Unused(w)
        /\ secret' = [secret EXCEPT ![job[w].name] = 0]
        /\ left' = left \ {job[w].name}
     \/ /\ Unused(w)
        /\ left' = left \cup {job[w].name}
        /\ UNCHANGED secret
     \/ ~Unused(w) /\ UNCHANGED <<secret, left>>
  /\ Leave(w)
  /\ UNCHANGED <<quiet, mem, file, requests, split>>

----------------------------------------------------------------------------
Request(w) ==
  \/ \E git, secrets \in BOOLEAN : Build(w, Config(git, secrets))
  \/ \E n \in Name : \/ Wizard(w, n) \/ Remove(w, n)
                     \/ \E r \in Name \cup {External} : AddRef(w, n, r)

Work(w) ==
  \/ Swap(w) \/ Refuse(w) \/ Take(w) \/ Add(w)
  \/ Admit(w) \/ PutToken(w) \/ AddWithToken(w) \/ CleanUp(w)
  \/ Withdraw(w) \/ Drop(w)

Next ==
  \/ \E git \in BOOLEAN : Boot(git)
  \/ Crash
  \/ \E w \in Worker : Request(w) \/ Work(w)

Spec == Init /\ [][Next]_vars

----------------------------------------------------------------------------
(* Properties.                                                             *)

Label == {"idle", "swap", "take", "enter", "put", "add", "clean", "drop"}
Kind == {"none", "config", "wizard", "add", "remove"}
Ref == Name \cup {External, None}
Token == 0..MaxRequests
ConfigType == [git : BOOLEAN, secrets : BOOLEAN]
ConnType == [ref : Ref, token : Token]
JobType == [kind : Kind, name : Name \cup {None}, ref : Ref,
            store : 0..MaxStores, token : Token, cfg : ConfigType]

\* Every variable holds a value of its kind, and the handlers of connections have
\* a name and, once they have asked for it, a store.
TypeOK ==
  /\ up \in BOOLEAN /\ cfg \in ConfigType
  /\ svc \in 0..MaxStores /\ stores \in 0..MaxStores
  /\ mem \in [Store -> [Name -> ConnType]] /\ file \in [Name -> ConnType]
  /\ secret \in [Name -> Token]
  /\ mutex \in Worker \cup {None}
  /\ pc \in [Worker -> Label] /\ job \in [Worker -> JobType]
  /\ requests \in Token /\ off \in BOOLEAN /\ split \in BOOLEAN
  /\ left \subseteq Name
  /\ \A w \in Worker :
       /\ pc[w] \in {"take", "enter", "put", "add", "clean", "drop"} =>
            job[w].name \in Name
       /\ pc[w] \in {"enter", "put", "add", "clean", "drop"} => job[w].store \in Store

\* A connection that the wizard made has the token given with it: no other request
\* has overwritten or deleted it (app.py:1284-1294).  This and what follows is for
\* a process that has written through one store object only.
HasSecret ==
  ~split => \A n \in Name :
    file[n].token # 0 => file[n].ref = n /\ secret[n] = file[n].token

\* A token that no connection refers to belongs to a request under way, or its
\* removal has failed, or the process died, or the connection that used it was
\* not the one it was made for (app.py:1433-1436, 1565-1581).
OrphansExplained ==
  ~split => \A n \in Name :
    secret[n] # 0 =>
      \/ \E m \in Name : file[m].ref = n
      \/ n \in left
      \/ \E w \in Worker :
           /\ Halfway(w) /\ job[w].name = n
           /\ pc[w] = "drop" => job[w].ref \in {n, None}

\* A connection leaves the file, or changes, by its own removal only
\* (git/connections.py:155-167, builder.py:31-34).
ConnectionsKept ==
  [][\A n \in Name :
       ~split /\ file[n] # NoConn /\ file'[n] # file[n] =>
         \E w \in Worker : job[w].kind = "remove" /\ job[w].name = n /\ pc'[w] = "drop"]_vars

\* A removal deletes no token that a connection still refers to (app.py:1573-1580).
\* The clean-up of a failed wizard does not ask.
InUseKept ==
  [][\A n \in Name :
       ~split /\ secret[n] # 0 /\ secret'[n] = 0 =>
         \/ \A m \in Name : file[m].ref # n
         \/ \E w \in Worker : pc[w] = "clean" /\ job[w].name = n]_vars
============================================================================
