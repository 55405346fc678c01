------------------------------- MODULE Stack -------------------------------
(***************************************************************************)
(* The stack in service and its replacement at run time: `husarz up`       *)
(* (launcher/cli.py), POST /api/config/runtime with load_config, _build_   *)
(* stack and the swap under counter_lock (api/app.py), beside chats that   *)
(* take a snapshot of it and orchestrations that go on using the one they  *)
(* began with.                                                             *)
(*                                                                         *)
(* A configuration is the fields the replacement treats differently, plus  *)
(* consent, which makes _build_stack refuse.  A router is the              *)
(* configuration it was built from.  A loop of tools is a number; it owns  *)
(* the connection to the sqlite file of the memory, opened when it is      *)
(* built, and a lock around every operation on it.                         *)
(***************************************************************************)
EXTENDS Integers, FiniteSets

CONSTANTS
  Writers,      \* requests to /api/config/runtime that may run at once
  Chats,        \* requests to /api/chat
  Orchs,        \* requests to /api/orchestrate
  Profiles, Keys, Audits,
  Files,        \* what the files and the environment may say
  CliProfile,   \* husarz up --profile, None when it is not given
  Overrides,    \* the bodies of /api/config/runtime
  Valid(_),     \* HusarzConfig accepts it
  MaxLoops,     \* bound on the loops one process builds
  MaxUses,      \* security.tool_loop: tool calls of an orchestration
  MaxEdits,     \* bound on edits of the files
  None

Config == [profile : Profiles, enabled : BOOLEAN, key : Keys, audit : Audits,
           consent : BOOLEAN]

\* _deep_merge of one layer over another.
Merge(base, over) ==
  [f \in DOMAIN base |-> IF f \in DOMAIN over THEN over[f] ELSE base[f]]

ASSUME ConfigAssumption ==
  /\ Files \subseteq Config /\ CliProfile \in Profiles \cup {None}
  /\ \A c \in Config : Valid(c) \in BOOLEAN
  /\ \A o \in Overrides, c \in Config : Merge(c, o) \in Config
ASSUME BoundAssumption ==
  /\ MaxLoops \in Nat \ {0} /\ MaxUses \in Nat
  /\ MaxEdits \in Nat
ASSUME ActorAssumption ==
  /\ None \notin Writers \cup Chats \cup Orchs /\ None \notin Profiles
  /\ None \notin Overrides /\ None \notin Config

VARIABLES
  files,    \* the files of the configuration
  started,  \* config of create_app: what the store and the audit log were built from
  config, router, loop,  \* of state
  built,    \* loops built by this process
  open,     \* loops whose connection is open
  step,     \* where each request is
  body,     \* the overrides of a writer
  merged,   \* what a writer loaded
  fresh,    \* the loop a writer built
  old,      \* the loop a writer took out of service
  heldRouter, heldConfig,  \* the snapshot of a chat
  heldLoop, \* the loop of an orchestration
  busy,     \* who holds the lock of each loop's store
  uses,     \* tool calls of an orchestration so far
  \* history
  stranded, \* loops of builds that were refused after they were opened
  offered,  \* profiles of the start, and of the files edited since
  edits

state == <<config, router, loop>>
writing == <<body, merged, fresh, old>>
reading == <<heldRouter, heldConfig>>
using == <<heldLoop, busy, uses>>
vars == <<files, started, state, built, open, step, writing, reading, using,
          stranded, edits, offered>>

Request == Writers \cup Chats \cup Orchs
Up == config # None

CliOverride == IF CliProfile = None THEN <<>> ELSE [profile |-> CliProfile]

\* _martwe_zmiany: what the objects made at the start cannot follow.
Dead(was, now) == \/ was.audit # now.audit
                  \/ now.enabled /\ was.key # now.key

NewLoop == built + 1

Init ==
  /\ files \in Files /\ edits = 0 /\ offered = {}
  /\ started = None /\ config = None /\ router = None /\ loop = 0
  /\ built = 0 /\ open = {} /\ stranded = {}
  /\ step = [r \in Request |-> "idle"]
  /\ body = [w \in Writers |-> None] /\ merged = [w \in Writers |-> None]
  /\ fresh = [w \in Writers |-> 0] /\ old = [w \in Writers |-> 0]
  /\ heldRouter = [c \in Chats |-> None] /\ heldConfig = [c \in Chats |-> None]
  /\ heldLoop = [o \in Orchs |-> 0] /\ uses = [o \in Orchs |-> 0]
  /\ busy = [l \in 1..MaxLoops |-> None]

-----------------------------------------------------------------------------
\* _cmd_up and create_app: the configuration of the start, with the profile of
\* the command line on top, and the first stack.  A configuration that is not
\* valid, or whose stack is refused, does not start.
Start ==
  LET c == Merge(files, CliOverride) IN
  /\ ~Up /\ Valid(c)
  /\ started' = c /\ config' = c /\ router' = c /\ loop' = 1
  /\ built' = 1 /\ open' = {1} /\ stranded' = {} /\ offered' = {c.profile}
  /\ UNCHANGED <<files, step, writing, reading, using, edits>>

\* The process dies with its requests and its connections.
Crash ==
  /\ Up
  /\ started' = None /\ config' = None /\ router' = None /\ loop' = 0
  /\ built' = 0 /\ open' = {} /\ stranded' = {} /\ offered' = {}
  /\ step' = [r \in Request |-> "idle"]
  /\ body' = [w \in Writers |-> None] /\ merged' = [w \in Writers |-> None]
  /\ fresh' = [w \in Writers |-> 0] /\ old' = [w \in Writers |-> 0]
  /\ heldRouter' = [c \in Chats |-> None] /\ heldConfig' = [c \in Chats |-> None]
  /\ heldLoop' = [o \in Orchs |-> 0] /\ uses' = [o \in Orchs |-> 0]
  /\ busy' = [l \in 1..MaxLoops |-> None]
  /\ UNCHANGED <<files, edits>>

\* The operator edits the files while the platform runs.  What they say comes
\* into service with the next change at run time, a new profile with the rest.
Edit ==
  /\ edits < MaxEdits /\ edits' = edits + 1
  /\ \E f \in Files \ {files} :
       /\ files' = f
       /\ offered' = IF Up /\ f.profile # files.profile
                       THEN offered \cup {f.profile} ELSE offered
  /\ UNCHANGED <<started, state, built, open, step, writing, reading, using,
                 stranded>>

-----------------------------------------------------------------------------
\* A writer is answered, and nothing of it remains.
Reply(w) ==
  /\ step' = [step EXCEPT ![w] = "idle"]
  /\ body' = [body EXCEPT ![w] = None]
  /\ merged' = [merged EXCEPT ![w] = None]
  /\ fresh' = [fresh EXCEPT ![w] = 0]
  /\ old' = [old EXCEPT ![w] = 0]

\* config_apply begins; an override of the profile is refused.
ApplyAnyField(w) ==  \* Bug: the profile can be overridden like any other field.
  /\ Up /\ step[w] = "idle"
  /\ \E o \in Overrides :
       /\ body' = [body EXCEPT ![w] = o]
       /\ step' = [step EXCEPT ![w] = "load"]
       /\ UNCHANGED <<merged, fresh, old>>
  /\ UNCHANGED <<files, started, state, built, open, reading, using, stranded,
                 edits, offered>>
Apply(w) ==
  /\ Up /\ step[w] = "idle"
  /\ \E o \in Overrides :
       IF "profile" \in DOMAIN o
         THEN Reply(w)
         ELSE /\ body' = [body EXCEPT ![w] = o]
              /\ step' = [step EXCEPT ![w] = "load"]
              /\ UNCHANGED <<merged, fresh, old>>
  /\ UNCHANGED <<files, started, state, built, open, reading, using, stranded,
                 edits, offered>>

Load(w) ==
  LET c == Merge(files, body[w]) IN
  /\ step[w] = "load"
  /\ IF ~Valid(c) \/ Dead(started, c)
       THEN Reply(w)
       ELSE /\ merged' = [merged EXCEPT ![w] = c]
            /\ step' = [step EXCEPT ![w] = "build"]
            /\ body' = [body EXCEPT ![w] = None]
            /\ UNCHANGED <<fresh, old>>
  /\ UNCHANGED <<files, started, state, built, open, reading, using, stranded,
                 edits, offered>>

\* _build_stack, outside the lock: the loop and its connection come before the
\* runtime of the rules of engagement, which refuses an engagement with consent
\* when there is no key to verify signatures with; nobody closes the loop then.
\* A store that cannot be opened ends the request as well (RagBackendError).
Build(w) ==
  /\ step[w] = "build" /\ built < MaxLoops
  /\ \/ /\ built' = NewLoop /\ open' = open \cup {NewLoop}
        /\ fresh' = [fresh EXCEPT ![w] = NewLoop]
        /\ step' = [step EXCEPT ![w] = "swap"]
        /\ UNCHANGED <<body, merged, old, stranded>>
     \/ /\ merged[w].consent
        /\ built' = NewLoop /\ open' = open \cup {NewLoop}
        /\ stranded' = stranded \cup {NewLoop}
        /\ Reply(w)
     \/ Reply(w) /\ UNCHANGED <<built, open, stranded>>
  /\ UNCHANGED <<files, started, state, reading, using, edits, offered>>

\* The swap, under counter_lock.
SwapThenTake(w) ==  \* Bug: old_loop is read after the assignment.
  /\ step[w] = "swap"
  /\ config' = merged[w] /\ router' = merged[w] /\ loop' = fresh[w]
  /\ old' = [old EXCEPT ![w] = loop']
  /\ step' = [step EXCEPT ![w] = "close"]
  /\ UNCHANGED <<files, started, built, open, body, merged, fresh, reading, using,
                 stranded, edits, offered>>
Swap(w) ==
  /\ step[w] = "swap"
  /\ config' = merged[w] /\ router' = merged[w] /\ loop' = fresh[w]
  /\ old' = [old EXCEPT ![w] = loop]
  /\ step' = [step EXCEPT ![w] = "close"]
  /\ UNCHANGED <<files, started, built, open, body, merged, fresh, reading, using,
                 stranded, edits, offered>>

Close(w) ==
  /\ step[w] = "close" /\ busy[old[w]] = None
  /\ open' = open \ {old[w]}
  /\ step' = [step EXCEPT ![w] = "record"]
  /\ UNCHANGED <<files, started, state, built, writing, reading, using,
                 stranded, edits, offered>>

\* audit_log.record; in blocking mode an entry that cannot be written is an
\* error, the change is in force all the same.
Record(w) ==
  /\ step[w] = "record" /\ Reply(w)
  /\ UNCHANGED <<files, started, state, built, open, reading, using, stranded,
                 edits, offered>>

-----------------------------------------------------------------------------
\* /api/chat and /api/chat/stream: the router and the configuration under
\* counter_lock, the model chosen from the one and asked of the other.
SnapshotHalves(c) ==  \* Bug: the two are read one after the other.
  /\ Up
  /\ \/ /\ step[c] = "idle"
        /\ heldRouter' = [heldRouter EXCEPT ![c] = router]
        /\ step' = [step EXCEPT ![c] = "half"]
        /\ UNCHANGED heldConfig
     \/ /\ step[c] = "half"
        /\ heldConfig' = [heldConfig EXCEPT ![c] = config]
        /\ step' = [step EXCEPT ![c] = "ask"]
        /\ UNCHANGED heldRouter
  /\ UNCHANGED <<files, started, state, built, open, writing, using,
                 stranded, edits, offered>>
Snapshot(c) ==
  /\ Up /\ step[c] = "idle"
  /\ heldRouter' = [heldRouter EXCEPT ![c] = router]
  /\ heldConfig' = [heldConfig EXCEPT ![c] = config]
  /\ step' = [step EXCEPT ![c] = "ask"]
  /\ UNCHANGED <<files, started, state, built, open, writing, using,
                 stranded, edits, offered>>

\* The answer; a router has no model that its own configuration does not name.
Answer(c) ==
  /\ step[c] = "ask"
  /\ step' = [step EXCEPT ![c] = "idle"]
  /\ heldRouter' = [heldRouter EXCEPT ![c] = None]
  /\ heldConfig' = [heldConfig EXCEPT ![c] = None]
  /\ UNCHANGED <<files, started, state, built, open, writing, using,
                 stranded, edits, offered>>

\* /api/orchestrate takes the orchestrator in service, with its loop.
Orchestrate(o) ==
  /\ Up /\ step[o] = "idle"
  /\ heldLoop' = [heldLoop EXCEPT ![o] = loop]
  /\ step' = [step EXCEPT ![o] = "run"]
  /\ UNCHANGED <<files, started, state, built, open, writing, reading, busy, uses,
                 stranded, edits, offered>>

\* ToolDispatcher.dispatch of a tool on the memory, under the lock of its store.
UseBegins(o) ==
  /\ step[o] = "run" /\ uses[o] < MaxUses
  /\ busy[heldLoop[o]] = None
  /\ busy' = [busy EXCEPT ![heldLoop[o]] = o]
  /\ step' = [step EXCEPT ![o] = "use"]
  /\ UNCHANGED <<files, started, state, built, open, writing, reading, heldLoop,
                 uses, stranded, edits, offered>>

\* The operation ends, with ToolResult(ok=False) when sqlite failed or the
\* connection was closed before it began; the lock is let go either way.
UseEndsLocked(o) ==  \* Bug: an operation that fails leaves the lock taken.
  /\ step[o] = "use"
  /\ busy' \in {busy, [busy EXCEPT ![heldLoop[o]] = None]}
  /\ uses' = [uses EXCEPT ![o] = @ + 1]
  /\ step' = [step EXCEPT ![o] = "run"]
  /\ UNCHANGED <<files, started, state, built, open, writing, reading, heldLoop,
                 stranded, edits, offered>>
UseEnds(o) ==
  /\ step[o] = "use"
  /\ busy' = [busy EXCEPT ![heldLoop[o]] = None]
  /\ uses' = [uses EXCEPT ![o] = @ + 1]
  /\ step' = [step EXCEPT ![o] = "run"]
  /\ UNCHANGED <<files, started, state, built, open, writing, reading, heldLoop,
                 stranded, edits, offered>>

\* The orchestration is over.
Finish(o) ==
  /\ step[o] = "run"
  /\ step' = [step EXCEPT ![o] = "idle"]
  /\ heldLoop' = [heldLoop EXCEPT ![o] = 0]
  /\ uses' = [uses EXCEPT ![o] = 0]
  /\ UNCHANGED <<files, started, state, built, open, writing, reading, busy,
                 stranded, edits, offered>>

-----------------------------------------------------------------------------
Write(w) == Load(w) \/ Build(w) \/ Swap(w) \/ Close(w) \/ Record(w)
Work(o) == UseBegins(o) \/ UseEnds(o) \/ Finish(o)

Next ==
  \/ Start \/ Crash \/ Edit
  \/ \E w \in Writers : Apply(w) \/ Write(w)
  \/ \E c \in Chats : Snapshot(c) \/ Answer(c)
  \/ \E o \in Orchs : Orchestrate(o) \/ Work(o)

Spec == Init /\ [][Next]_vars

\* Every request has a thread of its own, which the scheduler lets run.
Fairness == /\ \A w \in Writers : WF_vars(Write(w))
            /\ \A o \in Orchs : WF_vars(Work(o))

FairSpec == Spec /\ Fairness

=============================================================================
