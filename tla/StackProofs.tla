---------------------------- MODULE StackProofs ----------------------------
(***************************************************************************)
(* Proofs about Stack, for any number of requests, configurations, loops   *)
(* and edits of the files, and, after them, about two of the gates that    *)
(* _build_stack makes for a stack: the way out and the rules of engagement.*)
(***************************************************************************)
EXTENDS StackInv, GatesInv, FiniteSetTheorems, SequenceTheorems, TLAPS

LEMMA MergeProfile ==
  ASSUME NEW c \in Config, NEW p \in Profiles
  PROVE  Merge(c, [profile |-> p]) \in Config
<1> DEFINE m == Merge(c, [profile |-> p])
<1>1. DOMAIN c = {"profile", "enabled", "key", "audit", "consent"}
  BY DEF Config
<1>2. /\ DOMAIN m = DOMAIN c
      /\ m = [f \in DOMAIN c |-> IF f \in {"profile"} THEN p ELSE c[f]]
  BY DEF Merge
<1>3. /\ m["profile"] = p /\ m["enabled"] = c["enabled"] /\ m["key"] = c["key"]
      /\ m["audit"] = c["audit"] /\ m["consent"] = c["consent"]
  BY <1>1, <1>2
<1>4. m = [profile |-> m["profile"], enabled |-> m["enabled"], key |-> m["key"],
           audit |-> m["audit"], consent |-> m["consent"]]
  BY <1>1, <1>2
<1>5. /\ m["profile"] \in Profiles /\ m["enabled"] \in BOOLEAN /\ m["key"] \in Keys
      /\ m["audit"] \in Audits /\ m["consent"] \in BOOLEAN
  BY <1>3 DEF Config
<1>6. \A a \in Profiles, b, e \in BOOLEAN, k \in Keys, d \in Audits :
        [profile |-> a, enabled |-> b, key |-> k, audit |-> d, consent |-> e] \in Config
  BY DEF Config
<1> HIDE DEF m
<1>7. [profile |-> m["profile"], enabled |-> m["enabled"], key |-> m["key"],
       audit |-> m["audit"], consent |-> m["consent"]] \in Config
  BY <1>5, <1>6
<1>8. m \in Config
  BY <1>4, <1>7
<1> QED
  BY <1>8 DEF m

LEMMA MergeNothing ==
  ASSUME NEW c \in Config
  PROVE  Merge(c, <<>>) = c
<1>1. DOMAIN <<>> = {}
  OBVIOUS
<1>2. c = [f \in DOMAIN c |-> c[f]]
  BY DEF Config
<1> QED
  BY <1>1, <1>2 DEF Merge

\* The configuration of the start.
LEMMA StartConfig ==
  ASSUME TypeOK
  PROVE  /\ files \in Config /\ Merge(files, CliOverride) \in Config
         /\ CliProfile = None => Merge(files, CliOverride) = files
BY ConfigAssumption, ActorAssumption, MergeProfile, MergeNothing DEF TypeOK, CliOverride

----------------------------------------------------------------------------
(* Type correctness.                                                       *)

LEMMA InitType == Init => TypeOK
BY BoundAssumption DEF Init, TypeOK, Step, Request

LEMMA ReplyType ==
  ASSUME TypeOK, NEW w \in Writers, Reply(w)
  PROVE  /\ step' \in [Request -> Step]
         /\ body' \in [Writers -> Overrides \cup {None}]
         /\ merged' \in [Writers -> Config \cup {None}]
         /\ fresh' \in [Writers -> 0..MaxLoops] /\ old' \in [Writers -> 0..MaxLoops]
BY BoundAssumption DEF TypeOK, Reply, Step, Request

LEMMA WriteType ==
  ASSUME TypeOK, StackInv, NEW w \in Writers, Apply(w) \/ Write(w)
  PROVE  TypeOK'
<1> USE DEF state, writing, reading, using
<1>0. w \in Request /\ MaxLoops \in Nat
  BY BoundAssumption DEF Request
<1>1. CASE Apply(w)
  <2>1. /\ step' \in [Request -> Step] /\ body' \in [Writers -> Overrides \cup {None}]
        /\ merged' \in [Writers -> Config \cup {None}]
        /\ fresh' \in [Writers -> 0..MaxLoops] /\ old' \in [Writers -> 0..MaxLoops]
    <3>1. CASE Reply(w)
      BY <3>1, ReplyType
    <3>2. CASE ~Reply(w)
      <4>1. PICK o \in Overrides : /\ body' = [body EXCEPT ![w] = o]
                                   /\ step' = [step EXCEPT ![w] = "load"]
                                   /\ UNCHANGED <<merged, fresh, old>>
        BY <1>1, <3>2 DEF Apply
      <4> QED
        BY <1>0, <4>1 DEF TypeOK, Step
    <3> QED
      BY <3>1, <3>2
  <2> QED
    BY <1>1, <2>1 DEF Apply, TypeOK
<1>2. CASE Load(w)
  <2>1. /\ step' \in [Request -> Step] /\ body' \in [Writers -> Overrides \cup {None}]
        /\ merged' \in [Writers -> Config \cup {None}]
        /\ fresh' \in [Writers -> 0..MaxLoops] /\ old' \in [Writers -> 0..MaxLoops]
    <3>1. CASE Reply(w)
      BY <3>1, ReplyType
    <3>2. CASE ~Reply(w)
      <4> DEFINE c == Merge(files, body[w])
      <4>1. /\ merged' = [merged EXCEPT ![w] = c]
            /\ step' = [step EXCEPT ![w] = "build"]
            /\ body' = [body EXCEPT ![w] = None]
            /\ UNCHANGED <<fresh, old>>
        BY <1>2, <3>2 DEF Load
      <4>2. body[w] \in Overrides
        BY <1>2 DEF Load, StackInv, Prepared, TypeOK
      <4>3. c \in Config
        BY <4>2, StartConfig, ConfigAssumption
      <4> HIDE DEF c
      <4> QED
        BY <1>0, <4>1, <4>3 DEF TypeOK, Step
    <3> QED
      BY <3>1, <3>2
  <2> QED
    BY <1>2, <2>1 DEF Load, TypeOK
<1>3. CASE Build(w)
  <2>1. built < MaxLoops /\ built \in Nat /\ NewLoop = built + 1 /\ NewLoop \in 1..MaxLoops
    BY <1>0, <1>3 DEF Build, TypeOK, NewLoop
  <2>2. open \cup {NewLoop} \subseteq 1..NewLoop /\ open \subseteq 1..built
    BY <2>1 DEF TypeOK
  <2>3. /\ built' \in 0..MaxLoops /\ open' \subseteq 1..built' /\ stranded' \subseteq open'
    <3>1. CASE built' = NewLoop /\ open' = open \cup {NewLoop}
      <4>1. stranded' \subseteq stranded \cup {NewLoop}
        BY <1>3 DEF Build
      <4> QED
        BY <2>1, <2>2, <3>1, <4>1 DEF TypeOK
    <3>2. CASE UNCHANGED <<built, open, stranded>>
      BY <3>2 DEF TypeOK
    <3> QED
      BY <1>3, <3>1, <3>2 DEF Build
  <2>4. /\ step' \in [Request -> Step] /\ body' \in [Writers -> Overrides \cup {None}]
        /\ merged' \in [Writers -> Config \cup {None}]
        /\ fresh' \in [Writers -> 0..MaxLoops] /\ old' \in [Writers -> 0..MaxLoops]
    <3>1. CASE Reply(w)
      BY <3>1, ReplyType
    <3>2. CASE ~Reply(w)
      <4>1. /\ fresh' = [fresh EXCEPT ![w] = NewLoop]
            /\ step' = [step EXCEPT ![w] = "swap"]
            /\ UNCHANGED <<body, merged, old>>
        BY <1>3, <3>2 DEF Build
      <4> QED
        BY <1>0, <2>1, <4>1 DEF TypeOK, Step
    <3> QED
      BY <3>1, <3>2
  <2> QED
    BY <1>3, <2>3, <2>4 DEF Build, TypeOK
<1>4. CASE Swap(w)
  BY <1>0, <1>4 DEF Swap, TypeOK, Step
<1>5. CASE Close(w)
  <2>1. ~(old[w] \in stranded)
    <3>1. Up
      BY <1>0, <1>5 DEF Close, StackInv, DownIdle
    <3> QED
      BY <1>5, <3>1 DEF Close, StackInv, Distinct, Swapping
  <2>2. open' \subseteq 1..built' /\ stranded' \subseteq open'
    BY <1>5, <2>1 DEF Close, TypeOK
  <2>3. step' \in [Request -> Step]
    BY <1>0, <1>5 DEF Close, TypeOK, Step
  <2> QED
    BY <1>5, <2>2, <2>3 DEF Close, TypeOK
<1>6. CASE Record(w)
  BY <1>6, ReplyType DEF Record, TypeOK
<1> QED
  BY <1>1, <1>2, <1>3, <1>4, <1>5, <1>6 DEF Write

LEMMA ReadType ==
  ASSUME TypeOK, NEW c \in Chats, Snapshot(c) \/ Answer(c)
  PROVE  TypeOK'
<1> USE DEF state, writing, using
<1>1. \E to \in Step : step' = [step EXCEPT ![c] = to]
  BY DEF Snapshot, Answer, Step
<1>2. step' \in [Request -> Step]
  BY <1>1 DEF TypeOK
<1>3. /\ heldRouter' \in [Chats -> Config \cup {None}]
      /\ heldConfig' \in [Chats -> Config \cup {None}]
  BY DEF Snapshot, Answer, TypeOK
<1> QED
  BY <1>2, <1>3 DEF Snapshot, Answer, TypeOK

LEMMA WorkType ==
  ASSUME TypeOK, NEW o \in Orchs, Orchestrate(o) \/ Work(o)
  PROVE  TypeOK'
<1> USE DEF state, writing, reading
<1>0. o \in Request /\ MaxLoops \in Nat
  BY BoundAssumption DEF Request
<1>1. CASE Orchestrate(o)
  BY <1>0, <1>1 DEF Orchestrate, TypeOK, Step
<1>2. CASE UseBegins(o)
  BY <1>0, <1>2 DEF UseBegins, TypeOK, Step
<1>3. CASE UseEnds(o)
  <2>1. step' \in [Request -> Step] /\ uses' \in [Orchs -> Nat]
    <3>1. /\ step' = [step EXCEPT ![o] = "run"] /\ "run" \in Step
          /\ uses' = [uses EXCEPT ![o] = uses[o] + 1]
      BY <1>3 DEF UseEnds, Step
    <3>2. step \in [Request -> Step] /\ uses \in [Orchs -> Nat]
      BY DEF TypeOK
    <3>3. step' \in [Request -> Step]
      BY <3>1, <3>2
    <3>4. uses[o] + 1 \in Nat
      BY <3>2
    <3> QED
      BY <3>1, <3>2, <3>3, <3>4
  <2>2. busy' \in [1..MaxLoops -> Orchs \cup {None}]
    BY <1>3 DEF UseEnds, TypeOK
  <2> QED
    BY <1>3, <2>1, <2>2 DEF UseEnds, TypeOK
<1>4. CASE Finish(o)
  BY <1>0, <1>4 DEF Finish, TypeOK, Step
<1> QED
  BY <1>1, <1>2, <1>3, <1>4 DEF Work

LEMMA OtherType ==
  ASSUME TypeOK, Start \/ Crash \/ Edit
  PROVE  TypeOK'
<1> USE DEF state, writing, reading, using
<1>1. CASE Start
  <2>1. offered' \subseteq Profiles
    BY <1>1, StartConfig DEF Start, Config
  <2> QED
    BY <1>1, <2>1, StartConfig, BoundAssumption DEF Start, TypeOK
<1>2. CASE Crash
  BY <1>2, BoundAssumption DEF Crash, TypeOK, Step, Request
<1>3. CASE Edit
  <2>1. PICK f \in Files : /\ files' = f
                          /\ offered' = IF Up /\ f.profile # files.profile
                                          THEN offered \cup {f.profile} ELSE offered
    BY <1>3 DEF Edit
  <2>2. f.profile \in Profiles
    BY <2>1, ConfigAssumption DEF Config
  <2> QED
    BY <1>3, <2>1, <2>2 DEF Edit, TypeOK
<1> QED
  BY <1>1, <1>2, <1>3

----------------------------------------------------------------------------
(* What the stack in service keeps true.                                   *)

LEMMA InitInv == Init => StackInv /\ OneProfile
<1> SUFFICES ASSUME Init PROVE StackInv /\ OneProfile
  OBVIOUS
<1>1. ~Up
  BY DEF Init, Up
<1>2. \A r \in Request : step[r] = "idle"
  BY DEF Init
<1>3. router = config
  BY DEF Init
<1> QED
  BY <1>1, <1>2, <1>3 DEF StackInv, OneProfile, Paired, OnePair, DownIdle, NoLeak,
     Distinct, Prepared, Frozen, Request

\* A step of one request that neither builds nor closes, swaps nor prepares.
LEMMA QuietRequest ==
  ASSUME TypeOK, StackInv, NEW r \in Request, NEW to \in Step, Up,
         step[r] \notin {"swap", "close"}, to \notin {"load", "build", "swap", "close", "ask"},
         step' = [step EXCEPT ![r] = to],
         UNCHANGED <<started, state, open, stranded>>,
         \A w \in Writers : \/ UNCHANGED <<body[w], merged[w], fresh[w], old[w]>>
                            \/ w = r,
         \A c \in Chats : c # r => UNCHANGED <<heldRouter[c], heldConfig[c]>>
  PROVE  StackInv'
<1> USE DEF state
<1>0. step \in [Request -> Step] /\ Writers \subseteq Request /\ Chats \subseteq Request
  BY DEF TypeOK, Request
<1>1. \A w \in Writers : Swapping(w)' = Swapping(w)
  BY <1>0 DEF Swapping
<1>2. (UNION {Swapping(w) : w \in Writers})' = UNION {Swapping(w) : w \in Writers}
  BY <1>1
<1>3. NoLeak'
  BY <1>2 DEF StackInv, NoLeak, Up
<1>4. Distinct'
  BY <1>1 DEF StackInv, Distinct, Up
<1>5. Prepared'
  BY <1>0 DEF StackInv, Prepared, Dead
<1>6. Paired'
  BY <1>0 DEF StackInv, Paired
<1> QED
  BY <1>3, <1>4, <1>5, <1>6 DEF StackInv, OnePair, DownIdle, Frozen, Up, Dead

\* What a writer knows when it is under way.
LEMMA WriterUp ==
  ASSUME TypeOK, StackInv, NEW r \in Request, step[r] # "idle"
  PROVE  Up
BY DEF StackInv, DownIdle

\* The loops are accounted for when none of them moves.
LEMMA LoopsKept ==
  ASSUME StackInv, Up, UNCHANGED <<config, loop, open, stranded>>,
         \A w \in Writers : Swapping(w)' = Swapping(w)
  PROVE  NoLeak' /\ Distinct'
<1>1. (UNION {Swapping(w) : w \in Writers})' = UNION {Swapping(w) : w \in Writers}
  OBVIOUS
<1> QED
  BY <1>1 DEF StackInv, NoLeak, Distinct, Up

LEMMA ApplyKeeps ==
  ASSUME TypeOK, StackInv, NEW w \in Writers, Apply(w)
  PROVE  StackInv'
<1> USE DEF state, reading, using
<1>0. /\ step \in [Request -> Step] /\ body \in [Writers -> Overrides \cup {None}]
      /\ Writers \subseteq Request /\ Chats \subseteq Request
  BY DEF TypeOK, Request
<1>1. Up /\ step[w] = "idle"
  BY DEF Apply
<1>2. CASE Reply(w)
  BY <1>0, <1>1, <1>2, QuietRequest DEF Apply, Reply, Step, TypeOK
<1>3. ASSUME NEW o \in Overrides, "profile" \notin DOMAIN o,
             body' = [body EXCEPT ![w] = o], step' = [step EXCEPT ![w] = "load"],
             UNCHANGED <<merged, fresh, old>>
      PROVE  StackInv'
  <2>1. \A v \in Writers : Swapping(v)' = Swapping(v)
    BY <1>0, <1>1, <1>3 DEF Swapping
  <2>2. NoLeak' /\ Distinct'
    BY <1>1, <2>1, LoopsKept DEF Apply
  <2>3. Prepared'
    BY <1>0, <1>1, <1>3, ActorAssumption DEF Apply, StackInv, Prepared, Dead
  <2>4. Paired'
    BY <1>0, <1>3 DEF Apply, StackInv, Paired
  <2> QED
    BY <1>1, <2>2, <2>3, <2>4 DEF Apply, StackInv, OnePair, DownIdle, Frozen, Up, Dead
<1> QED
  BY <1>2, <1>3 DEF Apply

LEMMA LoadKeeps ==
  ASSUME TypeOK, StackInv, NEW w \in Writers, Load(w)
  PROVE  StackInv'
<1> USE DEF state, reading, using
<1> DEFINE c == Merge(files, body[w])
<1>0. /\ step \in [Request -> Step] /\ merged \in [Writers -> Config \cup {None}]
      /\ Writers \subseteq Request /\ Chats \subseteq Request
  BY DEF TypeOK, Request
<1>1. Up /\ step[w] = "load"
  BY WriterUp DEF Load, Request
<1>2. CASE Reply(w)
  BY <1>0, <1>1, <1>2, QuietRequest DEF Load, Reply, Step, TypeOK
<1>3. CASE ~Reply(w)
  <2>0. /\ ~Dead(started, c) /\ merged' = [merged EXCEPT ![w] = c]
        /\ step' = [step EXCEPT ![w] = "build"] /\ body' = [body EXCEPT ![w] = None]
        /\ UNCHANGED <<fresh, old, started, config, router, loop, open, stranded>>
        /\ UNCHANGED <<heldRouter, heldConfig>>
    BY <1>3 DEF Load
  <2>1. \A v \in Writers : Swapping(v)' = Swapping(v)
    BY <1>0, <1>1, <2>0 DEF Swapping
  <2>2. NoLeak' /\ Distinct'
    BY <1>1, <2>0, <2>1, LoopsKept
  <2>3. c # None
    <3>1. body[w] \in Overrides
      BY <1>1 DEF StackInv, Prepared, TypeOK
    <3>2. c \in Config
      BY <3>1, StartConfig, ConfigAssumption
    <3> HIDE DEF c
    <3> QED
      BY <3>2, ActorAssumption
  <2> HIDE DEF c
  <2>4. Prepared'
    <3> SUFFICES ASSUME NEW v \in Writers
                 PROVE  /\ step'[v] = "load" => body'[v] # None /\ "profile" \notin DOMAIN body'[v]
                        /\ step'[v] \in {"build", "swap"} =>
                             merged'[v] # None /\ ~Dead(started', merged'[v])
      BY DEF Prepared, Dead
    <3>1. CASE v = w
      BY <1>0, <2>0, <2>3, <3>1
    <3>2. CASE v # w
      BY <1>0, <2>0, <3>2 DEF StackInv, Prepared, TypeOK
    <3> QED
      BY <3>1, <3>2
  <2>5. Paired'
    BY <1>0, <2>0 DEF StackInv, Paired
  <2> QED
    BY <1>1, <2>0, <2>2, <2>4, <2>5 DEF StackInv, OnePair, DownIdle, Frozen, Up, Dead
<1> QED
  BY <1>2, <1>3

LEMMA BuildKeeps ==
  ASSUME TypeOK, StackInv, NEW w \in Writers, Build(w)
  PROVE  StackInv'
<1> USE DEF state, reading, using
<1>0. /\ step \in [Request -> Step] /\ fresh \in [Writers -> 0..MaxLoops]
      /\ Writers \subseteq Request /\ Chats \subseteq Request
  BY DEF TypeOK, Request
<1>1. Up /\ step[w] = "build"
  BY WriterUp DEF Build, Request
<1>2. NewLoop \notin open
  BY BoundAssumption DEF NewLoop, TypeOK
<1>3. open = {loop} \cup stranded \cup UNION {Swapping(v) : v \in Writers}
  BY <1>1 DEF StackInv, NoLeak
<1>4. \A v \in Writers : v # w => Swapping(v)' = Swapping(v)
  BY <1>0 DEF Build, Reply, Swapping, TypeOK
<1>5. Swapping(w) = {}
  BY <1>1 DEF Swapping
<1>6. CASE /\ UNCHANGED stranded /\ open' = open \cup {NewLoop}
           /\ fresh' = [fresh EXCEPT ![w] = NewLoop]
           /\ step' = [step EXCEPT ![w] = "swap"]
           /\ UNCHANGED <<body, merged, old>>
  <2>1. Swapping(w)' = {NewLoop}
    BY <1>0, <1>6 DEF Swapping
  <2>2. NoLeak' /\ Distinct'
    BY <1>1, <1>2, <1>3, <1>4, <1>5, <1>6, <2>1 DEF Build, StackInv, NoLeak, Distinct, Up
  <2>3. Prepared'
    BY <1>0, <1>1, <1>6 DEF Build, StackInv, Prepared, Dead
  <2>4. Paired'
    BY <1>0, <1>6 DEF Build, StackInv, Paired
  <2> QED
    BY <1>1, <2>2, <2>3, <2>4 DEF Build, StackInv, OnePair, DownIdle, Frozen, Up, Dead
<1>7. CASE open' = open \cup {NewLoop} /\ stranded' = stranded \cup {NewLoop} /\ Reply(w)
  <2>1. Swapping(w)' = {}
    BY <1>0, <1>7 DEF Swapping, Reply
  <2>2. NoLeak' /\ Distinct'
    BY <1>1, <1>2, <1>3, <1>4, <1>5, <1>7, <2>1 DEF Build, StackInv, NoLeak, Distinct, Up
  <2>3. Prepared'
    BY <1>0, <1>7 DEF Build, StackInv, Prepared, Dead, Reply, TypeOK
  <2>4. Paired'
    BY <1>0, <1>7 DEF Build, StackInv, Paired, Reply
  <2> QED
    BY <1>1, <2>2, <2>3, <2>4 DEF Build, StackInv, OnePair, DownIdle, Frozen, Up, Dead
<1>8. CASE Reply(w) /\ UNCHANGED <<built, open, stranded>>
  BY <1>0, <1>1, <1>8, QuietRequest DEF Build, Reply, Step, TypeOK
<1> QED
  BY <1>6, <1>7, <1>8 DEF Build

LEMMA SwapKeeps ==
  ASSUME TypeOK, StackInv, NEW w \in Writers, Swap(w)
  PROVE  StackInv'
<1> USE DEF state, reading, using
<1>0. /\ step \in [Request -> Step] /\ old \in [Writers -> 0..MaxLoops]
      /\ Writers \subseteq Request /\ Chats \subseteq Request
  BY DEF TypeOK, Request
<1>1. Up /\ step[w] = "swap" /\ merged[w] # None /\ ~Dead(started, merged[w])
  BY WriterUp DEF Swap, Request, StackInv, Prepared
<1>2. Up'
  BY <1>1 DEF Swap, Up
<1>3. Swapping(w) = {fresh[w]} /\ Swapping(w)' = {loop} /\ loop' = fresh[w]
  BY <1>0, <1>1 DEF Swap, Swapping
<1>4. \A v \in Writers : v # w => Swapping(v)' = Swapping(v)
  BY <1>0 DEF Swap, Swapping
<1>5. open = {loop} \cup stranded \cup UNION {Swapping(v) : v \in Writers}
  BY <1>1 DEF StackInv, NoLeak
<1>6. NoLeak'
  <2>1. open = {loop'} \cup stranded \cup UNION {Swapping(v)' : v \in Writers}
    BY <1>3, <1>4, <1>5
  <2> QED
    BY <2>1 DEF NoLeak, Swap
<1>7. Distinct'
  <2>1. loop' \notin stranded /\ loop' # loop /\ loop \notin stranded
    BY <1>1, <1>3 DEF StackInv, Distinct
  <2>2. \A v \in Writers : Swapping(v)' \cap ({loop'} \cup stranded) = {}
    BY <1>1, <1>3, <1>4, <2>1 DEF StackInv, Distinct
  <2>3. \A u, v \in Writers : u # v => Swapping(u)' \cap Swapping(v)' = {}
    BY <1>1, <1>3, <1>4 DEF StackInv, Distinct
  <2> QED
    BY <2>1, <2>2, <2>3 DEF Distinct, Swap
<1>8. Prepared' /\ Paired'
  BY <1>0 DEF Swap, StackInv, Prepared, Paired, Dead
<1>9. OnePair' /\ DownIdle' /\ Frozen'
  BY <1>1, <1>2 DEF Swap, StackInv, OnePair, DownIdle, Frozen, Up, Dead
<1> QED
  BY <1>6, <1>7, <1>8, <1>9 DEF StackInv

LEMMA CloseKeeps ==
  ASSUME TypeOK, StackInv, NEW w \in Writers, Close(w)
  PROVE  StackInv'
<1> USE DEF state, writing, reading, using
<1>0. /\ step \in [Request -> Step] /\ Writers \subseteq Request /\ Chats \subseteq Request
  BY DEF TypeOK, Request
<1>1. Up /\ step[w] = "close"
  BY WriterUp DEF Close, Request
<1>3. Swapping(w) = {old[w]} /\ Swapping(w)' = {}
  BY <1>0, <1>1 DEF Close, Swapping
<1>4. \A v \in Writers : v # w => Swapping(v)' = Swapping(v)
  BY <1>0 DEF Close, Swapping
<1>5. open = {loop} \cup stranded \cup UNION {Swapping(v) : v \in Writers}
  BY <1>1 DEF StackInv, NoLeak
<1>6. NoLeak' /\ Distinct'
  <2>1. /\ old[w] \notin {loop} \cup stranded
        /\ \A v \in Writers : v # w => old[w] \notin Swapping(v)
    BY <1>1, <1>3 DEF StackInv, Distinct
  <2>2. open \ {old[w]} = {loop} \cup stranded \cup UNION {Swapping(v)' : v \in Writers}
    BY <1>3, <1>4, <1>5, <2>1
  <2> QED
    BY <1>1, <1>3, <1>4, <2>2 DEF Close, StackInv, NoLeak, Distinct, Up
<1>7. Prepared' /\ Paired'
  BY <1>0 DEF Close, StackInv, Prepared, Paired, Dead
<1> QED
  BY <1>1, <1>6, <1>7 DEF Close, StackInv, OnePair, DownIdle, Frozen, Up, Dead

LEMMA RecordKeeps ==
  ASSUME TypeOK, StackInv, NEW w \in Writers, Record(w)
  PROVE  StackInv'
<1>1. Up /\ w \in Request
  BY WriterUp DEF Record, Request
<1> QED
  BY <1>1, QuietRequest DEF Record, Reply, Step, TypeOK, reading, state

LEMMA ReadKeeps ==
  ASSUME TypeOK, StackInv, NEW c \in Chats, Snapshot(c) \/ Answer(c)
  PROVE  StackInv'
<1> USE DEF state, writing, using
<1>0. /\ step \in [Request -> Step] /\ Writers \subseteq Request /\ Chats \subseteq Request
  BY DEF TypeOK, Request
<1>1. CASE Snapshot(c)
  <2>1. \A v \in Writers : Swapping(v)' = Swapping(v)
    BY <1>0, <1>1 DEF Snapshot, Swapping
  <2>2. NoLeak' /\ Distinct'
    BY <1>1, <2>1, LoopsKept DEF Snapshot
  <2>3. Prepared'
    BY <1>0, <1>1 DEF Snapshot, StackInv, Prepared, Dead
  <2>4. Paired'
    BY <1>0, <1>1 DEF Snapshot, StackInv, Paired, OnePair, TypeOK
  <2> QED
    BY <1>1, <2>2, <2>3, <2>4 DEF Snapshot, StackInv, OnePair, DownIdle, Frozen, Up, Dead
<1>2. CASE Answer(c)
  <2>1. Up
    BY <1>0, <1>2, WriterUp DEF Answer
  <2> QED
    BY <1>0, <1>2, <2>1, QuietRequest DEF Answer, Step, TypeOK
<1> QED
  BY <1>1, <1>2

LEMMA WorkKeeps ==
  ASSUME TypeOK, StackInv, NEW o \in Orchs, Orchestrate(o) \/ Work(o)
  PROVE  StackInv'
<1>1. o \in Request /\ Up
  BY WriterUp DEF Orchestrate, Work, UseBegins, UseEnds, Finish, Request
<1>2. PICK to \in {"run", "use", "idle"} : step' = [step EXCEPT ![o] = to]
  BY DEF Orchestrate, Work, UseBegins, UseEnds, Finish
<1>3. step[o] \in {"idle", "run", "use"}
  BY DEF Orchestrate, Work, UseBegins, UseEnds, Finish
<1>4. UNCHANGED <<started, state, open, stranded, writing, reading>>
  BY DEF Orchestrate, Work, UseBegins, UseEnds, Finish
<1> QED
  BY <1>1, <1>2, <1>3, <1>4, QuietRequest DEF Step, writing, reading

LEMMA OtherKeeps ==
  ASSUME TypeOK, StackInv, Start \/ Crash \/ Edit
  PROVE  StackInv'
<1> USE DEF state, writing, reading, using
<1>1. CASE Start
  <2>1. \A r \in Request : step'[r] = "idle"
    BY <1>1 DEF Start, StackInv, DownIdle
  <2>2. \A v \in Writers : Swapping(v)' = {}
    BY <2>1 DEF Swapping, Request
  <2>3. open' = {loop'} /\ stranded' = {} /\ router' = config' /\ started' = config'
    BY <1>1 DEF Start
  <2>4. NoLeak' /\ Distinct'
    BY <2>2, <2>3 DEF NoLeak, Distinct
  <2> QED
    BY <2>1, <2>3, <2>4
    DEF StackInv, Paired, OnePair, DownIdle, Prepared, Frozen, Up, Dead, Request
<1>2. CASE Crash
  <2>1. ~Up' /\ \A r \in Request : step'[r] = "idle"
    BY <1>2 DEF Crash, Up
  <2>2. router' = config'
    BY <1>2 DEF Crash
  <2> QED
    BY <2>1, <2>2 DEF StackInv, Paired, OnePair, DownIdle, NoLeak, Distinct, Prepared,
       Frozen, Request, Up
<1>3. CASE Edit
  <2>1. \A v \in Writers : Swapping(v)' = Swapping(v)
    BY <1>3 DEF Edit, Swapping
  <2>2. NoLeak' /\ Distinct'
    <3>1. CASE Up
      BY <1>3, <2>1, <3>1, LoopsKept DEF Edit
    <3>2. CASE ~Up
      BY <1>3, <3>2 DEF Edit, NoLeak, Distinct, Up
    <3> QED
      BY <3>1, <3>2
  <2> QED
    BY <1>3, <2>2
    DEF Edit, StackInv, Paired, OnePair, DownIdle, Prepared, Frozen, Up, Dead
<1> QED
  BY <1>1, <1>2, <1>3

----------------------------------------------------------------------------
(* The profile.                                                            *)

LEMMA MergedProfile ==
  ASSUME NEW c \in Config, NEW o, "profile" \notin DOMAIN o
  PROVE  Merge(c, o).profile = c.profile
BY DEF Merge, Config

LEMMA ProfileKept ==
  ASSUME CliProfile = None, TypeOK, StackInv, OneProfile, Next
  PROVE  OneProfile'
<1> USE DEF state, writing, reading, using
<1>0. /\ step \in [Request -> Step] /\ merged \in [Writers -> Config \cup {None}]
      /\ Writers \subseteq Request
  BY DEF TypeOK, Request
<1>1. CASE Start
  <2>1. offered' = {files.profile} /\ config' = files /\ files' = files
    BY <1>1, StartConfig DEF Start
  <2>2. \A w \in Writers : step'[w] = "idle"
    BY <1>0, <1>1 DEF Start, StackInv, DownIdle
  <2> QED
    BY <2>1, <2>2 DEF OneProfile
<1>2. CASE Crash
  BY <1>2 DEF Crash, OneProfile, Up, Request
<1>3. CASE Edit
  <2>1. /\ offered \subseteq offered' /\ UNCHANGED <<config, step, merged>>
        /\ Up => files'.profile \in offered \cup {files.profile} \/ files'.profile \in offered'
    BY <1>3 DEF Edit
  <2> QED
    BY <2>1 DEF OneProfile, Up
<1>4. ASSUME NEW w \in Writers, Apply(w) PROVE OneProfile'
  BY <1>0, <1>4 DEF Apply, Reply, OneProfile, Up
<1>5. ASSUME NEW w \in Writers, Load(w) PROVE OneProfile'
  <2>1. CASE Reply(w)
    BY <1>0, <1>5, <2>1 DEF Load, Reply, OneProfile, Up
  <2>2. CASE ~Reply(w)
    <3> DEFINE c == Merge(files, body[w])
    <3>1. c.profile = files.profile /\ Up
      <4>1. step[w] = "load" /\ w \in Request
        BY <1>0, <1>5 DEF Load
      <4>2. "profile" \notin DOMAIN body[w]
        BY <4>1 DEF StackInv, Prepared
      <4> QED
        BY <4>1, <4>2, StartConfig, MergedProfile, WriterUp
    <3>2. /\ merged' = [merged EXCEPT ![w] = c] /\ step' = [step EXCEPT ![w] = "build"]
          /\ UNCHANGED <<files, offered, config>>
      BY <1>5, <2>2 DEF Load
    <3> HIDE DEF c
    <3> QED
      BY <1>0, <3>1, <3>2 DEF OneProfile, Up
  <2> QED
    BY <2>1, <2>2
<1>6. ASSUME NEW w \in Writers, Build(w) PROVE OneProfile'
  <2>1. UNCHANGED <<files, offered, config>>
    BY <1>6 DEF Build
  <2>2. CASE Reply(w)
    BY <1>0, <2>1, <2>2 DEF Reply, OneProfile, Up
  <2>3. CASE ~Reply(w)
    BY <1>0, <1>6, <2>1, <2>3 DEF Build, OneProfile, Up
  <2> QED
    BY <2>2, <2>3
<1>7. ASSUME NEW w \in Writers, Swap(w) PROVE OneProfile'
  <2>1. Up /\ merged[w].profile \in offered
    BY <1>0, <1>7, WriterUp DEF Swap, StackInv, OnePair, OneProfile
  <2> QED
    BY <1>0, <1>7, <2>1 DEF Swap, OneProfile, Up
<1>8. ASSUME NEW w \in Writers, Close(w) \/ Record(w) PROVE OneProfile'
  BY <1>0, <1>8 DEF Close, Record, Reply, OneProfile, Up
<1>9. ASSUME NEW c \in Chats, Snapshot(c) \/ Answer(c) PROVE OneProfile'
  BY <1>0, <1>9 DEF Snapshot, Answer, OneProfile, Up
<1>10. ASSUME NEW o \in Orchs, Orchestrate(o) \/ Work(o) PROVE OneProfile'
  BY <1>0, <1>10 DEF Orchestrate, Work, UseBegins, UseEnds, Finish, OneProfile, Up
<1> QED
  BY <1>1, <1>2, <1>3, <1>4, <1>5, <1>6, <1>7, <1>8, <1>9, <1>10 DEF Next, Write

----------------------------------------------------------------------------
(* The theorems.                                                           *)

LEMMA NextKeeps ==
  ASSUME TypeOK, StackInv, [Next]_vars
  PROVE  TypeOK' /\ StackInv'
<1>1. CASE Start \/ Crash \/ Edit
  BY <1>1, OtherType, OtherKeeps
<1>2. ASSUME NEW w \in Writers, Apply(w) \/ Write(w) PROVE TypeOK' /\ StackInv'
  BY <1>2, WriteType, ApplyKeeps, LoadKeeps, BuildKeeps, SwapKeeps, CloseKeeps,
     RecordKeeps DEF Write
<1>3. ASSUME NEW c \in Chats, Snapshot(c) \/ Answer(c) PROVE TypeOK' /\ StackInv'
  BY <1>3, ReadType, ReadKeeps
<1>4. ASSUME NEW o \in Orchs, Orchestrate(o) \/ Work(o) PROVE TypeOK' /\ StackInv'
  BY <1>4, WorkType, WorkKeeps
<1>5. CASE UNCHANGED vars
  <2>1. TypeOK'
    BY <1>5 DEF vars, state, writing, reading, using, TypeOK
  <2>2. \A v \in Writers : Swapping(v)' = Swapping(v)
    BY <1>5 DEF vars, writing, Swapping
  <2>3. NoLeak' /\ Distinct'
    <3>1. CASE Up
      BY <1>5, <2>2, <3>1, LoopsKept DEF vars, state
    <3>2. CASE ~Up
      BY <1>5, <3>2 DEF vars, state, NoLeak, Distinct, Up
    <3> QED
      BY <3>1, <3>2
  <2> QED
    BY <1>5, <2>1, <2>3 DEF vars, state, writing, reading, using, StackInv, Paired,
       OnePair, DownIdle, Prepared, Frozen, Up, Dead
<1> QED
  BY <1>1, <1>2, <1>3, <1>4, <1>5 DEF Next

LEMMA Invariance == Spec => [](TypeOK /\ StackInv)
<1>1. Init => TypeOK /\ StackInv
  BY InitType, InitInv
<1>2. TypeOK /\ StackInv /\ [Next]_vars => (TypeOK /\ StackInv)'
  BY NextKeeps
<1> QED
  BY <1>1, <1>2, PTL DEF Spec

\* Every variable of the stack has its type.
THEOREM TypeCorrect == Spec => []TypeOK
BY Invariance, PTL

\* However many replacements interleave with the chats, a chat never asks a router
\* of another configuration than the one it chose its model from.
THEOREM PairedCorrect == Spec => []Paired
<1>1. StackInv => Paired
  BY DEF StackInv
<1> QED
  BY Invariance, <1>1, PTL

\* Of any number of replacements that overlap, fail or are refused, none leaks a
\* connection but the refused ones, and none closes the loop in service.
THEOREM NoLeakCorrect == Spec => []NoLeak
<1>1. StackInv => NoLeak
  BY DEF StackInv
<1> QED
  BY Invariance, <1>1, PTL

\* The configuration in force always fits what was built at the start, whatever
\* the files and the requests say.
THEOREM FrozenCorrect == Spec => []Frozen
<1>1. StackInv => Frozen
  BY DEF StackInv
<1> QED
  BY Invariance, <1>1, PTL

\* Without a profile on the command line, the profile of the configuration in
\* force is always one that the files had at the start or have been given since:
\* no request brings another one, however loads, swaps and edits interleave.
THEOREM ProfileCorrect ==
  ASSUME CliProfile = None
  PROVE  Spec => []ProfileAnchored
<1>1. Init => OneProfile
  BY InitInv
<1>2. TypeOK /\ StackInv /\ OneProfile /\ [Next]_vars => OneProfile'
  <2>1. ASSUME TypeOK, StackInv, OneProfile, UNCHANGED vars PROVE OneProfile'
    BY <2>1 DEF vars, state, writing, OneProfile, Up
  <2> QED
    BY <2>1, ProfileKept
<1>3. OneProfile => ProfileAnchored
  BY DEF OneProfile, ProfileAnchored
<1> QED
  BY Invariance, <1>1, <1>2, <1>3, PTL DEF Spec

----------------------------------------------------------------------------
(* The way out of Egress, for any requests, policies, lists and answers of *)
(* the resolver.                                                           *)

LEMMA UrlHost == ASSUME EgressInv PROVE url.host \in Hosts
BY EgressAssumption DEF EgressInv

\* What the shared builder of targets does with a host.
LEMMA PinnedTargetOf ==
  ASSUME NEW u, u.host \in Hosts, NEW lo \in BOOLEAN, NEW la \in BOOLEAN,
         NEW t, t = BuildPinnedTarget(u, [loopback |-> lo, lan |-> la])
  PROVE  /\ t \in {"refuse", "direct", "ask", "askLocal"}
         /\ t = "direct" =>
              DirectAddress(u.host) \in {"public"} \cup (IF lo THEN {"loopback"} ELSE {})
                                          \cup (IF la THEN {"lan"} ELSE {})
         /\ t = "ask" => u.host # UnderLocalhost
         /\ t = "askLocal" => lo /\ u.host = UnderLocalhost
BY NamesAssumption DEF BuildPinnedTarget, IsBlocked, IsLoopbackHost, IsLoopbackName, DirectAddress,
   Hosts, Classes, Local, Internal, UnderLocalhost

\* Where the gates of each way lead.
LEMMA TargetReaches ==
  ASSUME EgressInv, Target # "refuse"
  PROVE  /\ Target \in {"direct", "ask", "askLocal"}
         /\ Target = "direct" => DirectAddress(url.host) \in Reach
         /\ Target = "ask" => url.host # UnderLocalhost
         /\ Target = "askLocal" => url.host = UnderLocalhost /\ "loopback" \in Reach
         /\ "public" \in Reach
         /\ Lan => "lan" \in Reach
<1> USE DEF Ways, Own, Models, Reach, Lan
<1>1. way \in Ways /\ url.host \in Hosts
  BY UrlHost DEF EgressInv
<1>2. CASE way = "web"
  <2>1. Target = BuildPinnedTarget(url, Nowhere)
    BY <1>2 DEF Target, WebTarget
  <2> QED
    BY <1>1, <1>2, <2>1, PinnedTargetOf DEF Nowhere
<1>3. CASE way = "git"
  <2>1. Target = GitTarget
    BY <1>3 DEF Target
  <2> QED
    BY <1>1, <1>3, <2>1, NamesAssumption DEF GitTarget, IsBlocked, IsLoopbackHost,
       IsLoopbackName, DirectAddress, Hosts, Classes, Local, Internal, UnderLocalhost
<1>4. CASE way \in {"discover", "call"}
  <2>1. Target = PluginTarget
    BY <1>4 DEF Target
  <2> QED
    BY <1>1, <1>4, <2>1, NamesAssumption DEF PluginTarget, IsBlocked, IsLoopbackHost,
       IsLoopbackName, DirectAddress, Hosts, Classes, Local, Internal, UnderLocalhost
<1>5. CASE way \in Models \cup {"embedder"}
  <2>1. Target = BuildPinnedTarget(url, [loopback |-> TRUE, lan |-> TRUE])
    BY <1>5 DEF Target, ModelTarget
  <2> QED
    BY <1>1, <1>5, <2>1, PinnedTargetOf
<1>6. CASE way \in {"update", "release", "manifest"}
  <2>1. Target = BuildPinnedTarget(url, Nowhere)
    BY <1>6 DEF Target, SourceTarget
  <2> QED
    BY <1>1, <1>6, <2>1, PinnedTargetOf DEF Nowhere
<1> QED
  BY <1>1, <1>2, <1>3, <1>4, <1>5, <1>6

\* No gate lets a host through that the policy of the way does not admit.
LEMMA TargetAdmitted ==
  ASSUME EgressInv, Target # "refuse" PROVE Admitted
<1> USE DEF Ways, Own, Models, Admitted
<1>1. way \in Ways
  BY DEF EgressInv
<1>2. CASE way = "web"
  BY <1>2 DEF Target, WebTarget
<1>3. CASE way = "git"
  BY <1>3 DEF Target, GitTarget
<1>4. CASE way \in {"discover", "call"}
  BY <1>4 DEF Target, PluginTarget
<1>5. CASE way \in Models \cup {"embedder"}
  BY <1>5 DEF Target, ModelTarget
<1>6. CASE way \in {"update", "release", "manifest"}
  BY <1>6 DEF Target, SourceTarget
<1> QED
  BY <1>1, <1>2, <1>3, <1>4, <1>5, <1>6

\* An answer of the resolver that passes its test leads where the way may.
LEMMA AnswerReaches ==
  ASSUME EgressInv, Pinned, answer # <<>>
  PROVE  /\ target = answer[1] /\ answer[1] \in ToSet(answer)
         /\ ToSet(answer) \subseteq Reach
         /\ target = "loopback" <=> url.host = UnderLocalhost
<1>1. answer \in Seq(Classes) /\ Len(answer) \in Nat /\ 1 \in 1..Len(answer)
      /\ DOMAIN answer = 1..Len(answer)
  BY DEF EgressInv
<1>2. target = answer[1]
  BY <1>1 DEF Pinned
<1>3. answer[1] \in ToSet(answer)
  BY <1>1 DEF ToSet
<1>4. CASE Target = "ask" /\ ResolveAndPin(answer, Lan)
  <2>1. ASSUME NEW i \in 1..Len(answer)
        PROVE  answer[i] = "public" \/ (Lan /\ answer[i] = "lan")
    <3>1. answer[i] \in Classes
      BY <1>1, <2>1
    <3>2. ~IsBlocked(answer[i], [loopback |-> FALSE, lan |-> Lan])
      BY <1>4, <2>1 DEF ResolveAndPin
    <3> QED
      BY <3>1, <3>2 DEF Classes, IsBlocked
  <2>2. url.host # UnderLocalhost /\ "public" \in Reach /\ (Lan => "lan" \in Reach)
    BY <1>4, TargetReaches
  <2> QED
    BY <1>1, <1>2, <1>3, <2>1, <2>2 DEF ToSet
<1>5. CASE Target = "askLocal" /\ ResolveLoopbackName(answer)
  <2>1. \A i \in 1..Len(answer) : answer[i] = "loopback"
    BY <1>5 DEF ResolveLoopbackName
  <2>2. url.host = UnderLocalhost /\ "loopback" \in Reach
    BY <1>5, TargetReaches
  <2> QED
    BY <1>1, <1>2, <1>3, <2>1, <2>2 DEF ToSet
<1> QED
  BY <1>4, <1>5 DEF Pinned

LEMMA EgressStarts == EgressInit => EgressInv
<1>1. <<>> \in Seq(Classes)
  OBVIOUS
<1> QED
  BY <1>1 DEF EgressInit, EgressInv

LEMMA EgressKeeps ==
  ASSUME EgressInv, [EgressNext]_egressVars PROVE EgressInv'
<1>0. asked \in Nat /\ hop \in Nat
  BY DEF EgressInv
<1>1. CASE UNCHANGED egressVars
  BY <1>1 DEF egressVars, EgressInv, Pinned, Target, WebTarget, GitTarget, PluginTarget,
     ModelTarget, SourceTarget, Lan
\* What decides on the target only changes with a redirect.
<1>2. ASSUME UNCHANGED <<egress, own, way, url>>
      PROVE  Target' = Target /\ Lan' = Lan
  BY <1>2 DEF Target, WebTarget, GitTarget, PluginTarget, ModelTarget, SourceTarget, Lan
<1>3. CASE Gates
  <2> DEFINE next == IF hindrance = Nothing THEN Target ELSE "refuse"
  <2>1. /\ stage = "start" /\ UNCHANGED <<egress, own, way, url, hindrance, opened, asked, answer, hop>>
        /\ \/ stage' = "refused"
           \/ next = "direct" /\ stage' = "pinned" /\ target' = DirectAddress(url.host)
           \/ next \in {"ask", "askLocal"} /\ stage' = next /\ target' = target
    BY <1>3 DEF Gates, Refuse
  <2>2. opened = Nothing /\ target = Nothing /\ answer = <<>> /\ asked <= hop
    BY <2>1 DEF EgressInv
  <2>3. Target' = Target /\ Lan' = Lan
    BY <1>2, <2>1
  <2>4. next # "refuse" => hindrance = Nothing /\ Target = next
    OBVIOUS
  <2> HIDE DEF next
  <2> QED
    BY <1>0, <2>1, <2>2, <2>3, <2>4 DEF EgressInv, Pinned
<1>4. CASE Resolve
  <2>1. PICK a \in Answers :
          /\ answer' = a /\ asked' = asked + 1
          /\ IF IF stage = "ask" THEN ResolveAndPin(a, Lan) ELSE ResolveLoopbackName(a)
             THEN stage' = "pinned" /\ target' = Head(a) ELSE stage' = "refused"
    BY <1>4 DEF Resolve, Refuse
  <2>2. /\ stage \in {"ask", "askLocal"}
        /\ UNCHANGED <<egress, own, way, url, hindrance, opened, hop>>
    BY <1>4 DEF Resolve
  <2>3. /\ Target = stage /\ hindrance = Nothing /\ opened = Nothing /\ asked <= hop
        /\ Target' = Target /\ Lan' = Lan /\ a \in Seq(Classes)
    BY <1>2, <2>2, EgressAssumption DEF EgressInv
  <2>4. stage' = "pinned" => Pinned'
    BY <2>1, <2>2, <2>3 DEF Pinned
  <2> QED
    BY <1>0, <2>1, <2>2, <2>3, <2>4 DEF EgressInv
<1>5. CASE Connect \/ CannotConnect \/ Receive
  <2>1. /\ stage \in {"pinned", "connected"} /\ stage' \in {"connected", "done"}
        /\ UNCHANGED <<egress, own, way, url, hindrance, target, asked, answer, hop>>
        /\ opened' \in {opened, target}
    BY <1>5 DEF Connect, CannotConnect, Receive
  <2>2. Target' = Target /\ Lan' = Lan
    BY <1>2, <2>1
  <2>3. Pinned' /\ opened' \in {Nothing, target'}
    BY <2>1, <2>2 DEF EgressInv, Pinned
  <2> QED
    BY <2>1, <2>2, <2>3 DEF EgressInv
<1>6. CASE Follow
  <2>1. /\ stage' = "start" /\ hop' = hop + 1 /\ target' = Nothing /\ opened' = Nothing
        /\ answer' = <<>> /\ url' \in Urls
        /\ UNCHANGED <<egress, own, way, hindrance, asked>>
    BY <1>6 DEF Follow
  <2>2. answer' \in Seq(Classes)
    BY <2>1
  <2> QED
    BY <1>0, <2>1, <2>2 DEF EgressInv
<1> QED
  BY <1>1, <1>3, <1>4, <1>5, <1>6 DEF EgressNext

LEMMA EgressInvariance == EgressSpec => []EgressInv
BY EgressStarts, EgressKeeps, PTL DEF EgressSpec

\* Whatever the resolver answers and however its answers change, a connection
\* goes where the way may lead, and to an address of the one answer.
THEOREM CheckedAddressCorrect == EgressSpec => []CheckedAddress
<1>1. EgressInv => CheckedAddress
  <2> SUFFICES ASSUME EgressInv, opened # Nothing PROVE CheckedAddress
    BY DEF CheckedAddress
  <2>1. Pinned /\ opened = target
    BY DEF EgressInv
  <2>2. CASE answer = <<>>
    <3>1. Target = "direct" /\ target = DirectAddress(url.host)
      BY <2>1, <2>2 DEF Pinned, ResolveAndPin, ResolveLoopbackName
    <3> QED
      BY <2>1, <2>2, <3>1, TargetReaches DEF CheckedAddress
  <2>3. CASE answer # <<>>
    BY <2>1, <2>3, AnswerReaches DEF CheckedAddress
  <2> QED
    BY <2>2, <2>3
<1> QED
  BY <1>1, EgressInvariance, PTL

\* A host that the policy of the way does not admit costs no question to the
\* resolver, at the first address and after each redirect.
THEOREM PolicyFirstCorrect == EgressSpec => []PolicyFirst
<1>1. EgressInv => PolicyFirst
  <2> SUFFICES ASSUME EgressInv PROVE PolicyFirst
    OBVIOUS
  <2>1. stage \in {"ask", "askLocal", "pinned", "connected", "done"} => hindrance = Nothing /\ Target # "refuse"
    BY DEF EgressInv, Pinned
  <2>2. asked <= hop + (IF stage = "start" THEN 0 ELSE 1)
    BY DEF EgressInv
  <2> QED
    BY <2>1, <2>2, TargetAdmitted DEF PolicyFirst
<1> QED
  BY <1>1, EgressInvariance, PTL

----------------------------------------------------------------------------
(* The rules of engagement of Roe, for any engagements, terms and times.   *)

\* A set of naturals with an element has a least one.
LEMMA LeastNatural ==
  ASSUME NEW T, T \subseteq Nat, T # {}
  PROVE  \E m \in T : \A k \in T : m <= k
<1> DEFINE U == {1..n : n \in T}
<1>1. U \subseteq FiniteSubsetsOf(Nat) /\ U # {}
  <2>1. ASSUME NEW n \in T PROVE 1..n \in SUBSET Nat /\ IsFiniteSet(1..n)
    BY <2>1, FS_Interval
  <2> QED
    BY <2>1 DEF FiniteSubsetsOf
<1>2. PICK x \in U : \A y \in U : ~(<<y, x>> \in StrictSubsetOrdering(Nat))
  <2> HIDE DEF U
  <2> QED
    BY <1>1, FS_StrictSubsetOrderingWellFounded, WFMin
<1>3. PICK m \in T : x = 1..m
  OBVIOUS
<1>4. ASSUME NEW k \in T, k < m PROVE FALSE
  <2>1. m \in Nat /\ k \in Nat
    OBVIOUS
  <2>2. 1..k \subseteq 1..m /\ m \in 1..m /\ m \notin 1..k
    BY <1>4, <2>1
  <2>3. <<1..k, 1..m>> \in (SUBSET Nat) \X (SUBSET Nat)
    BY <2>1
  <2>4. <<1..k, 1..m>> \in StrictSubsetOrdering(Nat)
    BY <2>2, <2>3 DEF StrictSubsetOrdering
  <2> QED
    BY <1>2, <1>3, <2>4
<1> QED
  BY <1>4

\* The gates are asked in the order of the engagements, and none is left out.
LEMMA NextGateOf ==
  ASSUME DOMAIN roe \subseteq Engagements, NEW i
  PROVE  /\ NextGate(i) = 0 => \A j \in DOMAIN roe : ~(j > i)
         /\ NextGate(i) # 0 =>
              /\ NextGate(i) \in DOMAIN roe
              /\ \A j \in DOMAIN roe : j > i => NextGate(i) <= j
<1> DEFINE later == {j \in DOMAIN roe : j > i}
<1>1. later \subseteq Nat /\ 0 \notin DOMAIN roe
  BY RoeAssumption DEF Engagements
<1>2. CASE later = {}
  BY <1>2 DEF NextGate
<1>3. CASE later # {}
  <2>1. \E j \in later : \A k \in later : j <= k
    BY <1>1, <1>3, LeastNatural
  <2>2. NextGate(i) = CHOOSE j \in later : \A k \in later : j <= k
    BY <1>3 DEF NextGate
  <2>3. NextGate(i) \in later /\ \A k \in later : NextGate(i) <= k
    BY <2>1, <2>2
  <2> QED
    BY <1>1, <2>3
<1> QED
  BY <1>2, <1>3

LEMMA EntriesGrow ==
  ASSUME NEW s \in Seq(Event), NEW t \in Seq(Event), t # <<>>
  PROVE  /\ s \o t \in Seq(Event) /\ s \o t # <<>>
         /\ Last(s \o t) = Last(t)
         /\ ToSet(s) \subseteq ToSet(s \o t) /\ ToSet(t) \subseteq ToSet(s \o t)
<1>1. /\ Len(s) \in Nat /\ Len(t) \in Nat /\ Len(t) > 0
      /\ DOMAIN s = 1..Len(s) /\ DOMAIN t = 1..Len(t)
  OBVIOUS
<1>2. s \o t \in Seq(Event) /\ Len(s \o t) = Len(s) + Len(t)
      /\ DOMAIN (s \o t) = 1..Len(s) + Len(t)
  BY <1>1
<1>3. \A i \in 1..Len(s) : i \in DOMAIN (s \o t) /\ (s \o t)[i] = s[i]
  BY <1>1, <1>2
<1>4. \A i \in 1..Len(t) : Len(s) + i \in DOMAIN (s \o t) /\ (s \o t)[Len(s) + i] = t[i]
  BY <1>1, <1>2
<1>5. Last(s \o t) = Last(t)
  BY <1>1, <1>2, <1>4 DEF Last
<1>6. ToSet(s) \subseteq ToSet(s \o t)
  BY <1>1, <1>3 DEF ToSet
<1>7. ToSet(t) \subseteq ToSet(s \o t)
  BY <1>1, <1>4 DEF ToSet
<1> QED
  BY <1>1, <1>2, <1>5, <1>6, <1>7

\* One event of the audit, or the same one twice.
LEMMA EventOf ==
  ASSUME NEW k \in {"roe.deny", "roe.allow", "roe.delegation_allow", "roe.delegation_deny",
                    "puszkarz.refuse"}, NEW i \in Nat,
         NEW es \in {<<<<k, i>>>>, <<<<k, i>>, <<k, i>>>>}
  PROVE  es \in Seq(Event) /\ es # <<>> /\ Last(es) = <<k, i>> /\ <<k, i>> \in ToSet(es)
<1>1. <<k, i>> \in Event
  BY DEF Event
<1>2. es \in Seq(Event) /\ Len(es) \in {1, 2} /\ DOMAIN es = 1..Len(es)
      /\ \A j \in 1..Len(es) : es[j] = <<k, i>>
  <2> DEFINE e == <<k, i>>
  <2>1. e \in Event /\ es \in {<<e>>, <<e, e>>}
    BY <1>1
  <2> HIDE DEF e
  <2>2. CASE es = <<e>>
    BY <2>1, <2>2 DEF e
  <2>3. CASE es = <<e, e>>
    BY <2>1, <2>3 DEF e
  <2> QED
    BY <2>1, <2>2, <2>3
<1>3. es # <<>> /\ 1 \in DOMAIN es /\ Len(es) \in 1..Len(es)
  BY <1>2
<1> QED
  BY <1>2, <1>3 DEF Last, ToSet

LEMMA RoeStarts == RoeInit => RoeInv /\ Settings
<1> SUFFICES ASSUME RoeInit PROVE RoeInv /\ Settings
  OBVIOUS
<1>1. DOMAIN roe \subseteq Engagements
  BY DEF RoeInit, Configurations
<1>2. <<>> \in Seq(Event)
  OBVIOUS
<1> QED
  BY <1>1, <1>2 DEF RoeInit, RoeInv, RoeType, UnderWay, Examined, UnderEngagement,
     TraceComplete, Settled, Settings

\* An answer that allows nothing, in the trace too.
LEMMA AnswerDenied ==
  ASSUME RoeType', phase' = "idle", call' # NoCall, began' <= clock', decision'.allowed = FALSE,
         entries' # <<>>, NEW k \in {"roe.deny", "roe.delegation_deny", "puszkarz.refuse"},
         NEW i, Last(entries') = <<k, i>>,
         \/ call'.kind = "action" \/ entries'[1] = <<"puszkarz.refuse", 0>>
         \/ \A j \in DOMAIN roe' : Denied(j) \in ToSet(entries')
  PROVE  RoeInv'
<1>1. TraceComplete'
  BY DEF TraceComplete, Denied, Settled
<1> QED
  BY <1>1 DEF RoeInv, UnderWay, Examined, UnderEngagement, Settled

\* A refusal, and what follows: the next gate or the end.
LEMMA DenyKeeps ==
  ASSUME RoeInv, phase # "idle", NEW es \in {<<Denied(at)>>, <<Denied(at), Denied(at)>>},
         Deny(es), UNCHANGED <<roe, strict, clock, call, began>>, moment' \in Nat
  PROVE  RoeInv'
<1>1. /\ at \in DOMAIN roe /\ at \in Nat /\ DOMAIN roe \subseteq Nat
      /\ entries \in Seq(Event) /\ call # NoCall /\ began <= clock
      /\ call.kind \in {"delegation", "action"}
      /\ DOMAIN roe \subseteq Engagements
  BY RoeAssumption DEF RoeInv, RoeType, UnderWay, Engagements
<1>2. /\ es \in Seq(Event) /\ es # <<>> /\ Last(es) = <<"roe.deny", at>>
      /\ Denied(at) \in ToSet(es)
  BY <1>1, EventOf DEF Denied
<1>3. /\ entries' \in Seq(Event) /\ entries' # <<>> /\ Last(entries') = <<"roe.deny", at>>
      /\ ToSet(entries) \subseteq ToSet(entries') /\ Denied(at) \in ToSet(entries')
  BY <1>1, <1>2, EntriesGrow DEF Deny, Left
<1>4. ASSUME call.kind = "delegation", NEW j \in DOMAIN roe, ~(j > at)
      PROVE  Denied(j) \in ToSet(entries')
  <2>1. j < at \/ j = at
    BY <1>1, <1>4
  <2> QED
    BY <1>1, <1>3, <1>4, <2>1 DEF RoeInv, UnderWay
<1>5. phase' \in {"idle", "ask"}
  BY DEF Deny, End
<1>6. RoeType'
  BY <1>1, <1>3, <1>5 DEF RoeInv, RoeType
<1>7. CASE call.kind = "delegation" /\ NextGate(at) # 0
  <2>1. phase' = "ask" /\ at' = NextGate(at)
    BY <1>7 DEF Deny
  <2>2. at' \in DOMAIN roe /\ \A j \in DOMAIN roe : j > at => at' <= j
    BY <1>1, <1>7, <2>1, NextGateOf
  <2>3. ASSUME NEW j \in DOMAIN roe, j < at' PROVE Denied(j) \in ToSet(entries')
    <3>1. ~(j > at)
      BY <1>1, <2>2, <2>3
    <3> QED
      BY <1>4, <1>7, <3>1
  <2> QED
    BY <1>1, <1>6, <2>1, <2>2, <2>3 DEF RoeInv, UnderWay, Examined, UnderEngagement,
       TraceComplete, Settled
<1>8. CASE ~(call.kind = "delegation" /\ NextGate(at) # 0)
  <2>1. phase' = "idle" /\ decision'.allowed = FALSE
    BY <1>8 DEF Deny, End
  <2>2. ASSUME call.kind = "delegation", NEW j \in DOMAIN roe
        PROVE  Denied(j) \in ToSet(entries')
    BY <1>1, <1>4, <1>8, <2>2, NextGateOf
  <2> QED
    BY <1>1, <1>3, <1>6, <2>1, <2>2, AnswerDenied
<1> QED
  BY <1>7, <1>8

\* A permission under the engagement whose gate is asked.
LEMMA AllowKeeps ==
  ASSUME RoeInv, phase = "window", InWindow(roe[at].terms, moment),
         NEW k \in {"roe.allow", "roe.delegation_allow"}, Left(<<<<k, at>>>>), NEW dry,
         End(TRUE, at, dry), ~dry => ~roe[at].terms.dry,
         call.kind = "action" => WithinTerms(roe[at].terms) /\ (~dry => call.authorized),
         UNCHANGED <<roe, strict, clock, call, began, moment, keyThen, at>>
  PROVE  RoeInv'
<1>1. /\ at \in DOMAIN roe /\ at \in Nat /\ DOMAIN roe \subseteq Nat
      /\ entries \in Seq(Event) /\ call # NoCall /\ began <= clock
  BY RoeAssumption DEF RoeInv, RoeType, UnderWay, Engagements
<1>2. <<<<k, at>>>> \in Seq(Event) /\ <<<<k, at>>>> # <<>> /\ Last(<<<<k, at>>>>) = <<k, at>>
  BY <1>1, EventOf
<1>3. /\ entries' \in Seq(Event) /\ entries' # <<>> /\ Last(entries') = <<k, at>>
      /\ ToSet(entries) \subseteq ToSet(entries')
  BY <1>1, <1>2, EntriesGrow DEF Left
<1>4. phase' = "idle" /\ decision'.allowed = TRUE /\ decision'.under = at /\ decision'.dry = dry
  BY DEF End
<1>5. RoeType'
  BY <1>3, <1>4 DEF RoeInv, RoeType
<1>6. UnderEngagement'
  BY <1>4 DEF RoeInv, Examined, UnderEngagement, WithinTerms, InWindow
<1>7. call.kind = "delegation" => \A j \in DOMAIN roe : j < at => Denied(j) \in ToSet(entries')
  BY <1>1, <1>3 DEF RoeInv, UnderWay
<1>8. TraceComplete'
  BY <1>3, <1>4, <1>7 DEF TraceComplete, Denied
<1> QED
  BY <1>1, <1>4, <1>5, <1>6, <1>8 DEF RoeInv, UnderWay, Examined

LEMMA RoeKeeps ==
  ASSUME RoeInv, Settings, [RoeNext]_roeVars PROVE RoeInv'
<1>0. /\ clock \in Nat /\ moment \in Nat /\ began \in Nat /\ entries \in Seq(Event)
      /\ DOMAIN roe \subseteq Engagements /\ DOMAIN roe \subseteq Nat /\ 0 \notin DOMAIN roe
  BY RoeAssumption DEF RoeInv, RoeType, Engagements
<1>1. CASE UNCHANGED roeVars
  BY <1>1 DEF roeVars, RoeInv, RoeType, UnderWay, Examined, UnderEngagement, TraceComplete,
     Settled, WithinTerms
\* A call that begins finds no entries.
<1>2. ASSUME NEW c, c.kind \in {"delegation", "action"}, Starts(c)
      PROVE  /\ call' = c /\ c # NoCall /\ began' = clock
             /\ entries = <<>> /\ UNCHANGED <<roe, strict, clock, moment>>
             /\ began' <= clock'
             /\ \A k \in {"roe.deny", "roe.delegation_deny", "puszkarz.refuse"} :
                  Left(<<<<k, 0>>>>) =>
                    /\ entries' \in Seq(Event) /\ entries' # <<>> /\ Last(entries') = <<k, 0>>
                    /\ entries'[1] = <<k, 0>>
  <2>1. /\ call' = c /\ c # NoCall /\ began' = clock /\ call = NoCall
        /\ UNCHANGED <<roe, strict, clock, moment>>
    BY <1>2 DEF Starts, NoCall
  <2>2. entries = <<>>
    BY <2>1 DEF RoeInv, UnderWay
  <2>3. ASSUME NEW k \in {"roe.deny", "roe.delegation_deny", "puszkarz.refuse"}, Left(<<<<k, 0>>>>)
        PROVE  /\ entries' \in Seq(Event) /\ entries' # <<>> /\ Last(entries') = <<k, 0>>
               /\ entries'[1] = <<k, 0>>
    <3>1. entries' = <<<<k, 0>>>>
      BY <2>2, <2>3 DEF Left
    <3>2. <<<<k, 0>>>> \in Seq(Event) /\ <<<<k, 0>>>> # <<>> /\ Last(<<<<k, 0>>>>) = <<k, 0>>
      BY EventOf
    <3>3. entries'[1] = <<k, 0>>
      BY <3>1
    <3> QED
      BY <3>1, <3>2, <3>3
  <2> QED
    BY <1>0, <2>1, <2>2, <2>3
\* The first gate to be asked.
<1>3. ASSUME call'.kind \in {"delegation", "action"}, call' # NoCall, began' = clock,
             began' <= clock',
             entries' = <<>>, phase' = "ask", at' \in DOMAIN roe,
             call'.kind = "delegation" => \A j \in DOMAIN roe : ~(j < at'),
             UNCHANGED <<roe, strict, clock, moment>>
      PROVE  RoeInv'
  BY <1>0, <1>3 DEF RoeInv, RoeType, UnderWay, Examined, UnderEngagement, TraceComplete, Settled
<1>4. ASSUME NEW offensive \in BOOLEAN, Delegate(offensive) PROVE RoeInv'
  <2> DEFINE c == [kind |-> "delegation"]
  <2>1. c.kind = "delegation" /\ Starts(c)
    BY <1>4 DEF Delegate
  <2> HIDE DEF c
  <2>2. CASE \/ Left(<<<<"puszkarz.refuse", 0>>>>) /\ End(FALSE, 0, TRUE)
             \/ /\ DOMAIN roe = {}
                /\ Left(<<<<"roe.delegation_deny", 0>>>>) /\ End(FALSE, 0, TRUE)
    <3>1. phase' = "idle" /\ decision'.allowed = FALSE
      BY <2>2 DEF End
    <3>2. PICK k \in {"roe.delegation_deny", "puszkarz.refuse"} :
            Left(<<<<k, 0>>>>) /\ (k = "roe.delegation_deny" => DOMAIN roe = {})
      BY <2>2
    <3>3. /\ entries' \in Seq(Event) /\ entries' # <<>> /\ Last(entries') = <<k, 0>>
          /\ entries'[1] = <<k, 0>>
      BY <1>2, <2>1, <3>2
    <3>4. RoeType'
      BY <1>0, <1>2, <2>1, <3>1, <3>3 DEF RoeInv, RoeType
    <3>5. \/ entries'[1] = <<"puszkarz.refuse", 0>> 
          \/ \A j \in DOMAIN roe' : Denied(j) \in ToSet(entries')
      BY <1>2, <2>1, <3>2, <3>3
    <3>6. call' # NoCall /\ began' <= clock'
      BY <1>2, <2>1
    <3> QED
      BY <3>1, <3>3, <3>4, <3>5, <3>6, AnswerDenied
  <2>3. CASE DOMAIN roe # {} /\ phase' = "ask" /\ at' = NextGate(0) /\ UNCHANGED entries
    <3>1. \A j \in DOMAIN roe : j > 0
      BY <1>0
    <3>2. at' \in DOMAIN roe /\ \A j \in DOMAIN roe : at' <= j
      BY <1>0, <2>3, <3>1, NextGateOf
    <3>3. \A j \in DOMAIN roe : ~(j < at')
      BY <1>0, <3>2
    <3> QED
      BY <1>2, <1>3, <2>1, <2>3, <3>2, <3>3
  <2> QED
    BY <1>4, <2>2, <2>3 DEF Delegate
<1>5. ASSUME NEW t, NEW q, NEW a, Act(t, q, a) PROVE RoeInv'
  <2> DEFINE c == [kind |-> "action", target |-> t, technique |-> q, authorized |-> a]
  <2>1. c.kind = "action" /\ Starts(c)
    BY <1>5 DEF Act
  <2>2. IF DOMAIN roe = {}
        THEN Left(<<Denied(0)>>) /\ End(FALSE, 0, TRUE)
        ELSE phase' = "ask" /\ at' \in DOMAIN roe /\ UNCHANGED entries
    BY <1>5 DEF Act
  <2> HIDE DEF c
  <2>3. CASE DOMAIN roe = {}
    <3>1. phase' = "idle" /\ decision'.allowed = FALSE /\ Left(<<<<"roe.deny", 0>>>>)
      BY <2>2, <2>3 DEF End, Denied
    <3>2. entries' \in Seq(Event) /\ entries' # <<>> /\ Last(entries') = <<"roe.deny", 0>>
      BY <1>2, <2>1, <3>1
    <3>3. RoeType'
      BY <1>0, <1>2, <2>1, <3>1, <3>2 DEF RoeInv, RoeType
    <3>4. call' # NoCall /\ began' <= clock' /\ call'.kind = "action"
      BY <1>2, <2>1
    <3> QED
      BY <3>1, <3>2, <3>3, <3>4, AnswerDenied
  <2>4. CASE DOMAIN roe # {}
    <3>1. /\ call' = c /\ c # NoCall /\ began' = clock /\ began' <= clock' /\ entries = <<>>
          /\ UNCHANGED <<roe, strict, clock, moment>>
      BY <1>2, <2>1
    <3> QED
      BY <1>3, <2>1, <2>2, <2>4, <3>1
  <2> QED
    BY <2>3, <2>4
<1>6. CASE Ask
  <2>1. /\ phase = "ask" /\ moment' = clock /\ UNCHANGED <<roe, strict, clock, call, began>>
    BY <1>6 DEF Ask
  <2>2. CASE Deny(<<Denied(at)>>)
    BY <1>0, <2>1, <2>2, DenyKeeps
  <2>3. CASE ~Deny(<<Denied(at)>>)
    <3>1. /\ roe[at].terms.consent /\ roe[at].signed # {}
          /\ phase' = (IF HasVerifier THEN "verify" ELSE "window")
          /\ UNCHANGED <<at, entries>>
      BY <1>6, <2>3 DEF Ask
    <3>2. at \in DOMAIN roe /\ call # NoCall /\ began <= clock /\ clock <= clock
      BY <1>0, <2>1 DEF RoeInv, UnderWay
    <3>3. phase' = "window" => ~strict
      BY <3>1, <3>2 DEF HasVerifier
    <3>4. phase' \in {"verify", "window"}
      BY <3>1
    <3> QED
      BY <1>0, <2>1, <3>1, <3>2, <3>3, <3>4 DEF RoeInv, RoeType, UnderWay, Examined, UnderEngagement,
         TraceComplete, Settled
  <2> QED
    BY <2>2, <2>3
<1>7. CASE Verify
  <2>1. /\ phase = "verify" /\ keyThen' = key
        /\ UNCHANGED <<roe, strict, clock, call, moment, began>>
    BY <1>7 DEF Verify
  <2>2. CASE Deny(<<Denied(at)>>) \/ Deny(<<Denied(at), Denied(at)>>)
    BY <1>0, <2>1, <2>2, DenyKeeps
  <2>3. CASE ~(Deny(<<Denied(at)>>) \/ Deny(<<Denied(at), Denied(at)>>))
    <3>1. /\ key = "signer" /\ roe[at].signed = {roe[at].terms}
          /\ phase' = "window" /\ UNCHANGED <<at, entries>>
      BY <1>7, <2>3 DEF Verify
    <3> QED
      BY <2>1, <3>1 DEF RoeInv, RoeType, UnderWay, Examined, UnderEngagement, TraceComplete, Settled
  <2> QED
    BY <2>2, <2>3
<1>8. CASE Decide
  <2> DEFINE terms == roe[at].terms
  <2>1. /\ phase = "window" /\ UNCHANGED <<roe, strict, clock, call, moment, began, keyThen>>
    BY <1>8 DEF Decide
  <2>2. CASE Deny(<<Denied(at)>>)
    BY <1>0, <2>1, <2>2, DenyKeeps
  <2>3. CASE /\ InWindow(terms, moment) /\ call.kind = "delegation"
             /\ Left(<<<<"roe.delegation_allow", at>>>>) /\ End(TRUE, at, terms.dry) /\ UNCHANGED at
    BY <2>1, <2>3, AllowKeeps
  <2>4. CASE /\ InWindow(terms, moment) /\ WithinTerms(terms)
             /\ Left(<<<<"roe.allow", at>>>>)
             /\ End(TRUE, at, terms.dry \/ ~call.authorized) /\ UNCHANGED at
    <3> DEFINE dry == terms.dry \/ ~call.authorized
    <3>1. (~dry => ~terms.dry) /\ (~dry => call.authorized)
      OBVIOUS
    <3>2. End(TRUE, at, dry)
      BY <2>4
    <3> HIDE DEF dry
    <3> QED
      BY <2>1, <2>4, <3>1, <3>2, AllowKeeps
  <2> QED
    BY <1>8, <2>2, <2>3, <2>4 DEF Decide
<1>9. CASE Return
  <2>1. /\ call' = NoCall /\ phase' = "idle" /\ entries' = <<>> /\ moment' = 0 /\ began' = 0
        /\ UNCHANGED <<roe, strict, clock>>
    BY <1>9 DEF Return
  <2>2. entries' \in Seq(Event)
    BY <2>1
  <2> QED
    BY <1>0, <2>1, <2>2 DEF RoeInv, RoeType, UnderWay, Examined, UnderEngagement, TraceComplete, Settled
<1>10. CASE Tick
  <2>1. /\ clock' = clock + 1
        /\ UNCHANGED <<roe, strict, key, phase, call, at, moment, decision, entries, began, keyThen>>
    BY <1>10 DEF Tick
  <2>2. /\ clock' \in Nat /\ (began <= clock => began <= clock') /\ (moment <= clock => moment <= clock')
    BY <1>0, <2>1
  <2> QED
    BY <2>1, <2>2 DEF RoeInv, RoeType, UnderWay, Examined, UnderEngagement, TraceComplete, Settled,
       WithinTerms
<1>11. CASE Rotate
  BY <1>11 DEF Rotate, RoeInv, RoeType, UnderWay, Examined, UnderEngagement, TraceComplete, Settled,
     WithinTerms
<1>12. CASE Amend
  BY <1>12 DEF Amend, RoeInv, RoeType, UnderWay, Examined, UnderEngagement, TraceComplete,
     Settled, WithinTerms
<1>13. CASE Adopt
  <2>1. /\ phase = "idle" /\ call = NoCall /\ DOMAIN roe' \subseteq Engagements
        /\ UNCHANGED <<strict, clock, phase, call, moment, entries, began>>
    BY <1>13 DEF Adopt, Settings
  <2> QED
    BY <2>1 DEF RoeInv, RoeType, UnderWay, Examined, UnderEngagement, TraceComplete, Settled
<1> QED
  BY <1>1, <1>4, <1>5, <1>6, <1>7, <1>8, <1>9, <1>10, <1>11, <1>12, <1>13 DEF RoeNext

LEMMA SettingsKept ==
  ASSUME Settings, [RoeNext]_roeVars PROVE Settings'
<1>1. CASE Amend
  <2>1. DOMAIN configured' = DOMAIN configured
    BY <1>1 DEF Amend
  <2> QED
    BY <2>1 DEF Settings
<1>2. CASE ~Amend
  <2>1. configured' = configured
    BY <1>2 DEF RoeNext, roeVars, Delegate, Act, Starts, Ask, Verify, Decide, Return, Tick,
       Rotate, Adopt
  <2> QED
    BY <2>1 DEF Settings
<1> QED
  BY <1>1, <1>2

LEMMA RoeInvariance == RoeSpec => []RoeInv
<1>1. RoeInv /\ Settings /\ [RoeNext]_roeVars => (RoeInv /\ Settings)'
  BY RoeKeeps, SettingsKept
<1> QED
  BY RoeStarts, <1>1, PTL DEF RoeSpec

\* What is allowed is allowed by an engagement with consent whose terms were
\* signed under the key held while the call ran and whose window was open then,
\* whatever the clock, the key and the configuration do meanwhile.
THEOREM UnderEngagementCorrect == RoeSpec => []UnderEngagement
<1>1. RoeInv => UnderEngagement
  BY DEF RoeInv
<1> QED
  BY <1>1, RoeInvariance, PTL

\* Every answer can be told from the audit, and every refusal on the way to it.
THEOREM TraceCompleteCorrect == RoeSpec => []TraceComplete
<1>1. RoeInv => TraceComplete
  BY DEF RoeInv
<1> QED
  BY <1>1, RoeInvariance, PTL

----------------------------------------------------------------------------
(* The choice of the models of Selection, for any registry and request.    *)

LEMMA FunctionSeq ==
  ASSUME NEW S, NEW n \in Nat, NEW f \in [1..n -> S]
  PROVE  f \in Seq(S) /\ Len(f) = n
<1>1. f \in Seq(S)
  BY SeqDef
<1>2. DOMAIN f = 1..Len(f) /\ Len(f) \in Nat
  BY <1>1, LenProperties
<1> QED
  BY <1>1, <1>2

LEMMA SeqOfItsOwn ==
  ASSUME NEW S, NEW s \in Seq(S)
  PROVE  s \in Seq(ToSet(s)) /\ ToSet(s) \subseteq S
<1>1. Len(s) \in Nat /\ s \in [1..Len(s) -> S] /\ DOMAIN s = 1..Len(s)
  BY LenProperties
<1>2. s \in [1..Len(s) -> ToSet(s)]
  BY <1>1 DEF ToSet
<1> QED
  BY <1>1, <1>2, FunctionSeq DEF ToSet

LEMMA ToSetConcat ==
  ASSUME NEW S, NEW s \in Seq(S), NEW t \in Seq(S)
  PROVE  s \o t \in Seq(S) /\ ToSet(s \o t) = ToSet(s) \cup ToSet(t)
<1>1. /\ Len(s) \in Nat /\ Len(t) \in Nat
      /\ DOMAIN s = 1..Len(s) /\ DOMAIN t = 1..Len(t)
  BY LenProperties
<1>2. /\ s \o t \in Seq(S) /\ Len(s \o t) = Len(s) + Len(t)
      /\ DOMAIN (s \o t) = 1..Len(s) + Len(t)
  BY <1>1
<1>3. \A i \in 1..Len(s) : i \in DOMAIN (s \o t) /\ (s \o t)[i] = s[i]
  BY <1>1, <1>2
<1>4. \A i \in 1..Len(t) : Len(s) + i \in DOMAIN (s \o t) /\ (s \o t)[Len(s) + i] = t[i]
  BY <1>1, <1>2
<1>5. ASSUME NEW x \in ToSet(s \o t) PROVE x \in ToSet(s) \cup ToSet(t)
  <2>1. PICK i \in 1..Len(s) + Len(t) : x = (s \o t)[i]
    BY <1>2 DEF ToSet
  <2>2. CASE i <= Len(s)
    BY <1>1, <1>3, <2>1, <2>2 DEF ToSet
  <2>3. CASE ~(i <= Len(s))
    <3>1. i - Len(s) \in 1..Len(t) /\ Len(s) + (i - Len(s)) = i
      BY <1>1, <2>3
    <3>2. x = t[i - Len(s)]
      BY <1>4, <2>1, <3>1
    <3> QED
      BY <1>1, <3>1, <3>2 DEF ToSet
  <2> QED
    BY <2>2, <2>3
<1>6. ToSet(s) \subseteq ToSet(s \o t)
  BY <1>1, <1>3 DEF ToSet
<1>7. ToSet(t) \subseteq ToSet(s \o t)
  BY <1>1, <1>4 DEF ToSet
<1> QED
  BY <1>2, <1>5, <1>6, <1>7

LEMMA ToSetTail ==
  ASSUME NEW S, NEW s \in Seq(S), s # <<>>
  PROVE  /\ Head(s) \in S /\ Tail(s) \in Seq(S)
         /\ ToSet(s) = {Head(s)} \cup ToSet(Tail(s))
<1>1. /\ Len(s) \in Nat /\ Len(s) > 0 /\ DOMAIN s = 1..Len(s)
      /\ Head(s) = s[1] /\ Tail(s) \in Seq(S) /\ Len(Tail(s)) = Len(s) - 1
      /\ \A i \in 1..Len(s) - 1 : Tail(s)[i] = s[i + 1]
  BY LenProperties, EmptySeq
<1>2. DOMAIN Tail(s) = 1..Len(s) - 1
  BY <1>1
<1>3. ASSUME NEW i \in 1..Len(s) PROVE s[i] \in {Head(s)} \cup ToSet(Tail(s))
  <2>1. CASE i = 1
    BY <1>1, <2>1
  <2>2. CASE i # 1
    <3>1. i - 1 \in 1..Len(s) - 1 /\ (i - 1) + 1 = i
      BY <1>1, <2>2
    <3> QED
      BY <1>1, <1>2, <3>1 DEF ToSet
  <2> QED
    BY <2>1, <2>2
<1>4. \A i \in 1..Len(s) - 1 : i + 1 \in 1..Len(s)
  BY <1>1
<1>5. 1 \in 1..Len(s)
  BY <1>1
<1>6. Head(s) \in S
  BY <1>1, <1>5, ElementOfSeq
<1> QED
  BY <1>1, <1>2, <1>3, <1>4, <1>5, <1>6 DEF ToSet

LEMMA ToSetAppend ==
  ASSUME NEW S, NEW s \in Seq(S), NEW x \in S, IsInjective(s), x \notin ToSet(s)
  PROVE  /\ Append(s, x) \in Seq(S) /\ Append(s, x) # <<>>
         /\ ToSet(Append(s, x)) = ToSet(s) \cup {x}
         /\ IsInjective(Append(s, x))
         /\ s # <<>> => Append(s, x)[1] = s[1]
         /\ s = <<>> => Append(s, x)[1] = x
<1> DEFINE t == Append(s, x)
           n == Len(s)
<1>1. /\ n \in Nat /\ DOMAIN s = 1..n /\ (s # <<>> => n >= 1) /\ (s = <<>> => n = 0)
  BY LenProperties, EmptySeq
<1>2. t \in Seq(S) /\ Len(t) = n + 1 /\ t[n + 1] = x /\ \A i \in 1..n : t[i] = s[i]
  OBVIOUS
<1>3. DOMAIN t = 1..n + 1 /\ t # <<>>
  BY <1>1, <1>2, LenProperties, EmptySeq
<1> HIDE DEF t
<1>4. \A i \in 1..n + 1 : i \in 1..n \/ i = n + 1
  BY <1>1
<1>5. \A i \in 1..n : i \in 1..n + 1 /\ s[i] \in ToSet(s)
  BY <1>1 DEF ToSet
<1>6. n + 1 \in 1..n + 1
  BY <1>1
<1> HIDE DEF n
<1>7. ToSet(t) = ToSet(s) \cup {x}
  BY <1>1, <1>2, <1>3, <1>4, <1>5, <1>6 DEF ToSet
<1>8. IsInjective(t)
  BY <1>1, <1>2, <1>3, <1>4, <1>5 DEF IsInjective
<1>9. (s # <<>> => t[1] = s[1]) /\ (s = <<>> => t[1] = x)
  BY <1>1, <1>2
<1> QED
  BY <1>2, <1>3, <1>7, <1>8, <1>9 DEF t

\* The first k steps of FlattenSeq, whatever k is.
Joined(f, seqs, k) ==
  \A i \in 1..k : f[i] = IF i = 1 THEN seqs[i] ELSE f[i - 1] \o seqs[i]

LEMMA FlattenPrefix ==
  ASSUME NEW S, NEW seqs \in Seq(Seq(S)), NEW k \in 0..Len(seqs)
  PROVE  \E f \in [1..k -> Seq(S)] : Joined(f, seqs, k)
<1> DEFINE Good(m, f) == Joined(f, seqs, m)
           Bad == {m \in 0..Len(seqs) : ~\E f \in [1..m -> Seq(S)] : Good(m, f)}
<1>n. Len(seqs) \in Nat /\ \A i \in 1..Len(seqs) : seqs[i] \in Seq(S)
  BY LenProperties, ElementOfSeq
<1> SUFFICES ASSUME Bad # {} PROVE FALSE
  OBVIOUS
<1>1. PICK m \in Bad : \A j \in Bad : m <= j
  <2>1. Bad \subseteq Nat
    BY <1>n
  <2> HIDE DEF Bad
  <2> QED
    BY <2>1, LeastNatural
<1>2. m # 0
  <2>1. [i \in 1..0 |-> seqs[i]] \in [1..0 -> Seq(S)] /\ Good(0, [i \in 1..0 |-> seqs[i]])
    BY DEF Joined
  <2> QED
    BY <2>1
<1>3. m - 1 \in 0..Len(seqs) /\ m \in Nat
  BY <1>n, <1>2
<1>4. PICK f \in [1..m - 1 -> Seq(S)] : Good(m - 1, f)
  <2>1. m - 1 \notin Bad
    <3> HIDE DEF Bad
    <3> QED
      BY <1>1, <1>3
  <2> QED
    BY <1>3, <2>1
<1> DEFINE last == IF m = 1 THEN seqs[m] ELSE f[m - 1] \o seqs[m]
           g == [i \in 1..m |-> IF i = m THEN last ELSE f[i]]
<1>5. last \in Seq(S)
  <2>1. seqs[m] \in Seq(S)
    BY <1>n, <1>2, <1>3
  <2>2. m # 1 => f[m - 1] \in Seq(S)
    BY <1>2, <1>3
  <2> QED
    BY <2>1, <2>2, ConcatProperties
<1>6. g \in [1..m -> Seq(S)]
  <2> HIDE DEF last
  <2>1. \A i \in 1..m : i # m => i \in 1..m - 1
    BY <1>3
  <2> QED
    BY <1>5, <2>1
<1>7. Good(m, g)
  <2> SUFFICES ASSUME NEW i \in 1..m
               PROVE  g[i] = IF i = 1 THEN seqs[i] ELSE g[i - 1] \o seqs[i]
    BY DEF Joined
  <2>1. i # 1 => g[i - 1] = f[i - 1]
    BY <1>3
  <2>2. CASE i = m
    BY <2>1, <2>2
  <2>3. CASE i # m
    <3>1. i \in 1..m - 1 /\ g[i] = f[i]
      BY <1>3, <2>3
    <3> QED
      BY <1>4, <2>1, <3>1 DEF Joined
  <2> QED
    BY <2>2, <2>3
<1> QED
  BY <1>6, <1>7

LEMMA FlattenType ==
  ASSUME NEW S, NEW seqs \in Seq(Seq(S))
  PROVE  FlattenSeq(seqs) \in Seq(S)
<1> DEFINE n == Len(seqs)
           Unrolled(f) ==
             [i \in 1..n |-> IF i = 1 THEN seqs[i] ELSE f[i - 1] \o seqs[i]]
           flat == CHOOSE f : f = Unrolled(f)
<1>n. n \in Nat /\ \A i \in 1..n : seqs[i] \in Seq(S)
  BY LenProperties, ElementOfSeq
<1>1. CASE n = 0
  <2>1. seqs = <<>>
    BY <1>1, EmptySeq
  <2> QED
    BY <1>1, <2>1, EmptySeq DEF FlattenSeq
<1>2. CASE n # 0
  <2>1. FlattenSeq(seqs) = flat[n]
    BY <1>2 DEF FlattenSeq
  <2>2. PICK f \in [1..n -> Seq(S)] : Joined(f, seqs, n)
    <3>1. n \in 0..Len(seqs)
      BY <1>n
    <3> QED
      BY <3>1, FlattenPrefix
  <2>3. f = Unrolled(f)
    BY <2>2 DEF Joined
  <2>4. flat = Unrolled(flat)
    <3> HIDE DEF Unrolled
    <3> QED
      BY <2>3
  <2>5. \A i \in 1..n : flat[i] = IF i = 1 THEN seqs[i] ELSE flat[i - 1] \o seqs[i]
    <3> HIDE DEF flat
    <3> QED
      BY <2>4
  <2> HIDE DEF flat, Unrolled
  <2> DEFINE Bad == {i \in 1..n : flat[i] \notin Seq(S)}
  <2>6. Bad = {}
    <3> SUFFICES ASSUME Bad # {} PROVE FALSE
      OBVIOUS
    <3>1. PICK m \in Bad : \A j \in Bad : m <= j
      <4>1. Bad \subseteq Nat
        BY <1>n
      <4> HIDE DEF Bad
      <4> QED
        BY <4>1, LeastNatural
    <3>2. m # 1
      BY <1>n, <2>5
    <3>3. m - 1 \in 1..n /\ m - 1 < m
      BY <1>n, <3>2
    <3>4. flat[m - 1] \in Seq(S)
      BY <3>1, <3>3
    <3>5. flat[m] = flat[m - 1] \o seqs[m] /\ seqs[m] \in Seq(S)
      BY <1>n, <2>5, <3>2
    <3>6. \A a, b \in Seq(S) : a \o b \in Seq(S)
      BY ConcatProperties
    <3> QED
      BY <3>1, <3>4, <3>5, <3>6
  <2> QED
    BY <1>n, <1>2, <2>1, <2>6
<1> QED
  BY <1>1, <1>2

LEMMA HeadConcat ==
  ASSUME NEW S, NEW s \in Seq(S), NEW t \in Seq(S), s # <<>>
  PROVE  s \o t # <<>> /\ Head(s \o t) = Head(s)
<1>1. Len(s) \in Nat \ {0} /\ Len(t) \in Nat
  BY EmptySeq, LenProperties
<1>2. /\ s \o t \in Seq(S) /\ Len(s \o t) = Len(s) + Len(t)
      /\ \A i \in 1..Len(s) : (s \o t)[i] = s[i]
  BY <1>1
<1>3. Len(s \o t) # 0 /\ 1 \in 1..Len(s)
  BY <1>1, <1>2
<1>4. s \o t # <<>>
  BY <1>3, EmptySeq
<1> QED
  BY <1>2, <1>3, <1>4

\* Only the empty sequence has no element.
LEMMA EmptyOwn ==
  ASSUME NEW S, NEW s \in Seq(S), ToSet(s) = {}
  PROVE  s = <<>>
<1>1. Len(s) \in Nat /\ DOMAIN s = 1..Len(s)
  BY LenProperties
<1>2. 1..Len(s) = {}
  BY <1>1 DEF ToSet
<1>3. 1 \notin 1..Len(s)
  BY <1>2
<1>4. Len(s) = 0
  BY <1>1, <1>3
<1> QED
  BY <1>4, EmptySeq

LEMMA PreferredType ==
  ASSUME request \in Requests
  PROVE  Preferred \in Seq(Identifiers)
<1> DEFINE rules == request.rules
           Applies(rule) == rule.tags # {} /\ rule.tags \subseteq request.tags
           each == [i \in 1..Len(rules) |-> IF Applies(rules[i]) THEN rules[i].prefer ELSE <<>>]
<1>1. Len(rules) \in Nat /\ \A i \in 1..Len(rules) : rules[i].prefer \in Seq(Identifiers)
  BY SelectionAssumption
<1>2. each \in [1..Len(rules) -> Seq(Identifiers)]
  <2> HIDE DEF rules, Applies
  <2> QED
    BY <1>1, EmptySeq
<1>3. FlattenSeq(each) \in Seq(Identifiers)
  <2> HIDE DEF each
  <2> QED
    BY <1>1, <1>2, FunctionSeq, FlattenType
<1> QED
  BY <1>3, EmptySeq DEF Preferred

LEMMA FittingFinite ==
  ASSUME registry \in Registries
  PROVE  /\ IsFiniteSet(Fitting) /\ Cardinality(Fitting) \in Nat
         /\ Fitting \subseteq 1..Len(registry) /\ Len(registry) \in Nat
<1>1. Len(registry) \in Nat
  BY SelectionAssumption
<1>2. IsFiniteSet(1..Len(registry)) /\ Fitting \subseteq 1..Len(registry)
  BY <1>1, FS_Interval DEF Fitting
<1> QED
  BY <1>1, <1>2, FS_Subset, FS_CardinalityType

LEMMA TaggedType ==
  ASSUME registry \in Registries
  PROVE  \E S : Tagged \in Seq(S)
<1> DEFINE places == Fitting
<1>1. IsFiniteSet(places) /\ Cardinality(places) \in Nat
  BY FittingFinite
<1>2. CASE request.tags = {}
  BY <1>2, EmptySeq DEF Tagged
<1>3. CASE request.tags # {}
  <2> HIDE DEF places
  <2>1. PICK f : /\ Tagged = f
                 /\ \E S : f \in [1..Cardinality(places) -> S]
    <3> DEFINE f == UporzadkujStrategia(places)
    <3>1. Tagged = f
      BY <1>3 DEF Tagged, places
    <3>2. DOMAIN f = 1..Cardinality(places) /\ f = [p \in DOMAIN f |-> f[p]]
      BY DEF UporzadkujStrategia
    <3> HIDE DEF f
    <3>3. f \in [1..Cardinality(places) -> {f[p] : p \in DOMAIN f}]
      BY <3>2
    <3> QED
      BY <3>1, <3>3
  <2> QED
    BY <1>1, <2>1, FunctionSeq
<1> QED
  BY <1>2, <1>3

\* What is chosen is a sequence, and the wanted model is its first.
LEMMA ChosenType ==
  ASSUME registry \in Registries, request \in Requests
  PROVE  /\ SelectCandidates \in Seq(ToSet(SelectCandidates))
         /\ Wanted \in Ids => SelectCandidates # <<>> /\ Head(SelectCandidates) = Wanted
<1>1. PICK V : Tagged \in Seq(V)
  BY TaggedType
<1> DEFINE S == Identifiers \cup V \cup {ResolveAgentModel, request.model, Default}
           P == Preferred
           T == Tagged
           A == Assigned
           chosen == A \o P \o T
<1>2. P \in Seq(S) /\ T \in Seq(S) /\ A \in Seq(S) /\ A \o P \in Seq(S) /\ chosen \in Seq(S)
  <2>1. P \in Seq(S)
    BY PreferredType, SeqMonotonic
  <2>2. T \in Seq(S)
    BY <1>1, SeqMonotonic
  <2>3. A \in Seq(S)
    <3>1. <<>> \in Seq(S) /\ <<ResolveAgentModel>> \in Seq(S)
      BY EmptySeq
    <3> QED
      BY <3>1 DEF Assigned
  <2> HIDE DEF P, T, A, S
  <2> QED
    BY <2>1, <2>2, <2>3, ToSetConcat
<1>3. SelectCandidates \in Seq(S)
  <2>1. <<request.model>> \in Seq(S) /\ <<Default>> \in Seq(S)
    OBVIOUS
  <2> HIDE DEF S
  <2> QED
    BY <1>2, <2>1 DEF SelectCandidates
<1>4. SelectCandidates \in Seq(ToSet(SelectCandidates))
  BY <1>3, SeqOfItsOwn
<1>5. ASSUME Wanted \in Ids
      PROVE  SelectCandidates # <<>> /\ Head(SelectCandidates) = Wanted
  <2>1. Wanted # Absent
    BY <1>5, SelectionAssumption DEF Ids
  <2>2. CASE request.model # Absent
    BY <2>2 DEF SelectCandidates, Wanted
  <2>3. CASE request.model = Absent
    <3>1. A = <<Wanted>>
      BY <2>1, <2>3 DEF Wanted, Assigned
    <3>2. chosen # <<>> /\ Head(chosen) = Wanted
      <4> HIDE DEF A, P, T, S
      <4>1. A # <<>> /\ Head(A) = Wanted
        BY <3>1
      <4>2. A \o P # <<>> /\ Head(A \o P) = Wanted
        BY <1>2, <4>1, HeadConcat
      <4> QED
        BY <1>2, <4>2, HeadConcat
    <3> QED
      BY <2>3, <3>2 DEF SelectCandidates
  <2> QED
    BY <2>2, <2>3
<1> QED
  BY <1>4, <1>5

LEMMA ChosenKept ==
  ASSUME UNCHANGED <<registry, request>>
  PROVE  SelectCandidates' = SelectCandidates
BY DEF SelectCandidates, Assigned, Preferred, Tagged, Fitting, Sooner,
   ResolveAgentModel, UporzadkujStrategia

LEMMA SelectionStarts == SelectionInit => SelectionInv
<1> SUFFICES ASSUME SelectionInit PROVE SelectionInv
  OBVIOUS
<1>1. ToSet(<<>>) = {} /\ IsInjective(<<>>)
  BY DEF ToSet, IsInjective
<1> QED
  BY <1>1 DEF SelectionInit, SelectionInv

\* A model that is looked at leaves the list for the set of those processed; one
\* of the registry puts its fallbacks in its place.
LEMMA AddKeeps ==
  ASSUME SelectionInv, Add
  PROVE  SelectionInv'
<1> DEFINE id == Head(todo)
           rest == Tail(todo)
<1>1. /\ registry \in Registries /\ request \in Requests /\ progress = "expand"
      /\ processed \subseteq Universe /\ todo \in Seq(Universe) /\ result \in Seq(Universe)
      /\ todo # <<>> /\ IsInjective(result)
      /\ ToSet(result) = {m \in processed \cap Ids : SpecOf(m).enabled}
      /\ ordered = SelectCandidates
      /\ ToSet(ordered) \subseteq processed \cup ToSet(todo)
      /\ Fallbacks(processed) \subseteq processed \cup ToSet(todo)
      /\ \A S \in Closed : processed \cup ToSet(todo) \subseteq S
      /\ FirstFirst
  BY DEF SelectionInv, Add, Spread
<1>2. /\ UNCHANGED <<registry, request, ordered, progress>>
      /\ processed' = processed \cup {id}
  BY DEF Add
<1>3. /\ id \in Universe /\ rest \in Seq(Universe)
      /\ ToSet(todo) = {id} \cup ToSet(rest)
  BY <1>1, ToSetTail
<1>4. /\ Ids' = Ids /\ Universe' = Universe /\ Closed' = Closed
      /\ SelectCandidates' = SelectCandidates
      /\ \A S : Fallbacks(S)' = Fallbacks(S)
      /\ \A m : SpecOf(m)' = SpecOf(m)
  <2>1. Ids' = Ids /\ Universe' = Universe /\ \A m : SpecOf(m)' = SpecOf(m)
    BY <1>2 DEF Ids, Universe, SpecOf
  <2>2. \A S : Fallbacks(S)' = Fallbacks(S)
    BY <1>2, <2>1 DEF Fallbacks
  <2>3. Closed' = Closed
    BY <1>2, <2>1, <2>2 DEF Closed
  <2>4. SelectCandidates' = SelectCandidates
    BY <1>2, ChosenKept
  <2> QED
    BY <2>1, <2>2, <2>3, <2>4
<1> HIDE DEF id, rest
<1>0. ASSUME todo' \in Seq(Universe), result' \in Seq(Universe), IsInjective(result'),
             ToSet(result') = {m \in processed' \cap Ids : SpecOf(m).enabled},
             ToSet(rest) \subseteq ToSet(todo'),
             Fallbacks(processed') \subseteq processed' \cup ToSet(todo'),
             \A S \in Closed : processed' \cup ToSet(todo') \subseteq S,
             FirstFirst'
      PROVE  SelectionInv'
  <2>1. processed' \subseteq Universe
    BY <1>1, <1>2, <1>3
  <2>2. ToSet(ordered) \subseteq processed' \cup ToSet(todo')
    BY <1>0, <1>1, <1>2, <1>3
  <2> QED
    BY <1>0, <1>1, <1>2, <1>4, <2>1, <2>2 DEF SelectionInv, Spread
<1>5. CASE id \in processed \/ id \notin Ids
  <2>1. todo' = rest /\ result' = result
    BY <1>5 DEF Add, id, rest
  <2>2. processed' \cap Ids = processed \cap Ids
    BY <1>2, <1>5
  <2>3. Fallbacks(processed') \subseteq Fallbacks(processed) \cup {id}
    BY <1>2, <2>2 DEF Fallbacks
  <2>4. processed' \cup ToSet(todo') = processed \cup ToSet(todo)
    BY <1>2, <1>3, <2>1
  <2>5. FirstFirst'
    <3>1. CASE processed = {} /\ todo = ordered
      BY <1>2, <1>4, <1>5, <3>1 DEF FirstFirst, id
    <3>2. CASE ~(processed = {} /\ todo = ordered)
      BY <1>1, <1>2, <1>4, <2>1, <3>2 DEF FirstFirst
    <3> QED
      BY <3>1, <3>2
  <2>6. Fallbacks(processed') \subseteq processed' \cup ToSet(todo')
    BY <1>1, <1>3, <2>3, <2>4
  <2>7. ToSet(result') = {m \in processed' \cap Ids : SpecOf(m).enabled}
    BY <1>1, <2>1, <2>2
  <2> QED
    BY <1>0, <1>1, <1>3, <2>1, <2>4, <2>5, <2>6, <2>7
<1>6. CASE id \notin processed /\ id \in Ids
  <2> DEFINE more == IF request.fallbacks THEN SpecOf(id).fallback ELSE <<>>
  <2>1. /\ todo' = more \o rest
        /\ result' = IF SpecOf(id).enabled /\ id \notin ToSet(result)
                     THEN Append(result, id) ELSE result
    BY <1>6 DEF Add, id, rest
  <2>2. SpecOf(id).fallback \in Seq(Identifiers)
    BY <1>1, <1>6, SelectionAssumption DEF Ids, SpecOf
  <2>3. more \in Seq(Universe)
    <3>1. Identifiers \subseteq Universe
      BY DEF Universe
    <3>2. SpecOf(id).fallback \in Seq(Universe)
      BY <2>2, <3>1, SeqMonotonic
    <3> QED
      BY <3>2, EmptySeq
  <2>4. request.fallbacks => more = SpecOf(id).fallback
    OBVIOUS
  <2>5. ~request.fallbacks => ToSet(more) = {}
    BY DEF ToSet
  <2> HIDE DEF more
  <2>6. todo' \in Seq(Universe) /\ ToSet(todo') = ToSet(more) \cup ToSet(rest)
    BY <1>3, <2>1, <2>3, ToSetConcat
  <2>7. Fallbacks(processed') \subseteq Fallbacks(processed) \cup {id} \cup ToSet(more)
    BY <1>2, <2>4 DEF Fallbacks
  <2>8. ASSUME NEW S \in Closed PROVE ToSet(more) \subseteq S
    <3>1. id \in S /\ Fallbacks(S) \subseteq S
      BY <1>1, <1>3 DEF Closed
    <3> QED
      BY <1>6, <2>4, <2>5, <3>1 DEF Fallbacks
  <2>9. /\ result' \in Seq(Universe) /\ IsInjective(result')
        /\ ToSet(result') = {m \in processed' \cap Ids : SpecOf(m).enabled}
        /\ result # <<>> => result' # <<>> /\ result'[1] = result[1]
        /\ result = <<>> /\ SpecOf(id).enabled => result' # <<>> /\ result'[1] = id
    <3>1. id \notin ToSet(result)
      BY <1>1, <1>6
    <3>2. CASE SpecOf(id).enabled
      <4>1. result' = Append(result, id)
        BY <2>1, <3>1, <3>2
      <4> QED
        BY <1>1, <1>2, <1>3, <1>6, <3>1, <3>2, <4>1, ToSetAppend
    <3>3. CASE ~SpecOf(id).enabled
      BY <1>1, <1>2, <2>1, <3>3
    <3> QED
      BY <3>2, <3>3
  <2>10. FirstFirst'
    <3>1. CASE processed = {} /\ todo = ordered
      <4>1. result = <<>>
        <5>1. ToSet(result) = {}
          BY <1>1, <3>1
        <5> QED
          BY <1>1, <5>1, SeqOfItsOwn, EmptyOwn
      <4>2. id = Head(ordered)
        BY <3>1 DEF id
      <4> QED
        BY <1>2, <1>4, <2>9, <4>1, <4>2 DEF FirstFirst
    <3>2. CASE ~(processed = {} /\ todo = ordered)
      BY <1>1, <1>2, <1>4, <2>9, <3>2 DEF FirstFirst
    <3> QED
      BY <3>1, <3>2
  <2>11. Fallbacks(processed') \subseteq processed' \cup ToSet(todo')
    BY <1>1, <1>2, <1>3, <2>6, <2>7
  <2>12. \A S \in Closed : processed' \cup ToSet(todo') \subseteq S
    BY <1>1, <1>2, <1>3, <2>6, <2>8
  <2>13. ToSet(rest) \subseteq ToSet(todo')
    BY <2>6
  <2> QED
    BY <1>0, <2>6, <2>9, <2>10, <2>11, <2>12, <2>13
<1> QED
  BY <1>5, <1>6

LEMMA SelectionKeeps == SelectionInv /\ [SelectionNext]_selectionVars => SelectionInv'
<1> SUFFICES ASSUME SelectionInv, [SelectionNext]_selectionVars PROVE SelectionInv'
  OBVIOUS
<1>1. CASE Add
  BY <1>1, AddKeeps
<1>2. CASE Order
  <2>1. /\ processed = {} /\ todo = <<>> /\ ToSet(result) = {} /\ IsInjective(result)
        /\ progress' = "expand" /\ ordered' = SelectCandidates /\ todo' = ordered'
        /\ UNCHANGED <<registry, request, processed, result>>
        /\ registry \in Registries /\ request \in Requests
    BY <1>2 DEF Order, SelectionInv
  <2>2. SelectCandidates' = SelectCandidates
    BY <2>1, ChosenKept
  <2>3. ordered' \in Seq(Universe')
    <3>1. SelectCandidates \in Seq(ToSet(SelectCandidates))
      BY <2>1, ChosenType
    <3>2. ToSet(ordered') \subseteq Universe'
      BY DEF Universe
    <3> QED
      BY <2>1, <3>1, <3>2, SeqMonotonic
  <2>4. result \in Seq(Universe')
    <3>1. result = <<>>
      BY <2>1, SeqOfItsOwn, EmptyOwn DEF SelectionInv
    <3> QED
      BY <3>1, EmptySeq
  <2>5. Fallbacks({})' = {}
    BY DEF Fallbacks
  <2>6. \A S \in Closed' : ToSet(ordered') \subseteq S
    BY DEF Closed
  <2>7. Spread' /\ FirstFirst'
    BY <2>1, <2>5, <2>6 DEF Spread, FirstFirst
  <2> QED
    BY <2>1, <2>2, <2>3, <2>4, <2>7 DEF SelectionInv
<1>3. CASE Expanded \/ UNCHANGED selectionVars
  <2>1. /\ UNCHANGED <<registry, request, ordered, todo, processed, result>>
        /\ \/ progress = "expand" /\ progress' = "done" /\ todo = <<>>
           \/ progress' = progress
    BY <1>3 DEF Expanded, selectionVars
  <2>2. /\ Ids' = Ids /\ Universe' = Universe /\ \A m : SpecOf(m)' = SpecOf(m)
        /\ SelectCandidates' = SelectCandidates
    BY <2>1, ChosenKept DEF Ids, Universe, SpecOf
  <2>3. Spread' <=> Spread
    <3>1. \A S : Fallbacks(S)' = Fallbacks(S)
      BY <2>1, <2>2 DEF Fallbacks
    <3>2. Closed' = Closed
      BY <2>1, <2>2, <3>1 DEF Closed
    <3> QED
      BY <2>1, <3>1, <3>2 DEF Spread
  <2>4. FirstFirst' <=> FirstFirst
    BY <2>1, <2>2 DEF FirstFirst
  <2> QED
    BY <2>1, <2>2, <2>3, <2>4 DEF SelectionInv
<1> QED
  BY <1>1, <1>2, <1>3 DEF SelectionNext

\* The models to try are the enabled ones within reach over any chains of
\* fallbacks, each once, and the one the operator wants comes first.
THEOREM CandidatesCorrect == SelectionSpec => []CandidatesReachable
<1>1. SelectionInv => CandidatesReachable
  <2> SUFFICES ASSUME SelectionInv, progress = "done"
               PROVE  /\ ToSet(result) = {id \in Reachable \cap Ids : SpecOf(id).enabled}
                      /\ IsInjective(result)
                      /\ Wanted \in Ids /\ SpecOf(Wanted).enabled =>
                           result # <<>> /\ result[1] = Wanted
    BY DEF CandidatesReachable
  <2>1. todo = <<>> /\ ToSet(todo) = {}
    BY DEF SelectionInv, ToSet
  <2>2. processed \in Closed
    BY <2>1 DEF SelectionInv, Spread, Closed
  <2>3. \A S \in Closed : processed \subseteq S
    BY DEF SelectionInv, Spread
  <2>4. Reachable = processed
    BY <2>2, <2>3 DEF Reachable, SelectionInv
  <2>5. ASSUME Wanted \in Ids, SpecOf(Wanted).enabled
        PROVE  result # <<>> /\ result[1] = Wanted
    <3>1. ordered # <<>> /\ Head(ordered) = Wanted
      BY <2>5, ChosenType DEF SelectionInv
    <3> QED
      BY <2>1, <2>5, <3>1 DEF SelectionInv, FirstFirst
  <2> QED
    BY <2>4, <2>5 DEF SelectionInv
<1>2. SelectionSpec => []SelectionInv
  BY SelectionStarts, SelectionKeeps, PTL DEF SelectionSpec
<1> QED
  BY <1>1, <1>2, PTL

\* The order of the strategy is a total one.
LEMMA SoonerTotal ==
  ASSUME registry \in Registries, request \in Requests,
         NEW i \in Fitting, NEW j \in Fitting, NEW k \in Fitting
  PROVE  /\ Sooner(i, i)
         /\ Sooner(i, j) \/ Sooner(j, i)
         /\ Sooner(i, j) /\ Sooner(j, i) => i = j
         /\ Sooner(i, j) /\ Sooner(j, k) => Sooner(i, k)
<1> DEFINE Key(m) == registry[m].key[request.strategy]
<1>1. i \in Nat /\ j \in Nat /\ k \in Nat
  BY FittingFinite
<1>2. CASE request.strategy = "tags"
  BY <1>1, <1>2 DEF Sooner
<1>3. CASE request.strategy # "tags"
  <2>1. request.strategy \in {"cost", "latency"}
    BY <1>3, SelectionAssumption
  <2>2. Key(i) \in Nat /\ Key(j) \in Nat /\ Key(k) \in Nat
    <3>1. \A m \in Fitting : registry[m].key \in [{"cost", "latency"} -> Nat]
      BY FittingFinite, SelectionAssumption
    <3> QED
      BY <2>1, <3>1
  <2>3. \A m, n : Sooner(m, n) <=> Key(m) < Key(n) \/ (Key(m) = Key(n) /\ m <= n)
    BY <1>3 DEF Sooner
  <2> HIDE DEF Key
  <2> QED
    BY <1>1, <2>2, <2>3
<1> QED
  BY <1>2, <1>3

\* The models that have the tags are chosen in the order of the strategy, all of
\* them and each once (_uporzadkuj_strategia): counting who comes sooner is a
\* stable sort.
THEOREM StrategyOrders ==
  ASSUME registry \in Registries, request \in Requests, request.tags # {}
  PROVE  \E order : /\ ByStrategy(order)
                    /\ Tagged = [p \in DOMAIN order |-> registry[order[p]].id]
<1> DEFINE n == Cardinality(Fitting)
           Before(i) == {j \in Fitting : Sooner(j, i)}
           place == [i \in Fitting |-> Cardinality(Before(i))]
           order == [p \in 1..n |-> CHOOSE i \in Fitting :
                       Cardinality({j \in Fitting : Sooner(j, i)}) = p]
<1>1. /\ IsFiniteSet(Fitting) /\ n \in Nat
      /\ \A i \in Fitting : /\ IsFiniteSet(Before(i)) /\ Before(i) \subseteq Fitting
                            /\ place[i] = Cardinality(Before(i)) /\ place[i] \in 1..n
  <2>1. IsFiniteSet(Fitting) /\ n \in Nat
    BY FittingFinite
  <2>2. ASSUME NEW i \in Fitting
        PROVE  /\ IsFiniteSet(Before(i)) /\ Before(i) \subseteq Fitting
               /\ place[i] = Cardinality(Before(i)) /\ place[i] \in 1..n
    <3>1. i \in Before(i)
      BY SoonerTotal
    <3>2. Before(i) \subseteq Fitting
      OBVIOUS
    <3> HIDE DEF Before
    <3>3. /\ IsFiniteSet(Before(i)) /\ Cardinality(Before(i)) \in Nat
          /\ Cardinality(Before(i)) <= n
      BY <2>1, <3>2, FS_Subset, FS_CardinalityType
    <3>4. Cardinality(Before(i)) # 0
      BY <3>1, <3>3, FS_EmptySet
    <3> QED
      BY <2>1, <3>2, <3>3, <3>4
  <2> QED
    BY <2>1, <2>2
<1>2. ASSUME NEW i \in Fitting, NEW j \in Fitting, i # j, Sooner(i, j)
      PROVE  place[i] < place[j]
  <2>1. Before(i) \subseteq Before(j)
    BY <1>2, SoonerTotal
  <2>2. j \in Before(j) /\ j \notin Before(i)
    BY <1>2, SoonerTotal
  <2> HIDE DEF Before
  <2>3. /\ IsFiniteSet(Before(j)) /\ Cardinality(Before(i)) <= Cardinality(Before(j))
        /\ Cardinality(Before(i)) # Cardinality(Before(j))
    BY <1>1, <2>1, <2>2, FS_Subset
  <2>4. place[i] \in Nat /\ place[j] \in Nat
    BY <1>1
  <2> HIDE DEF place
  <2> QED
    BY <1>1, <2>3, <2>4
<1> HIDE DEF place, Before
<1>3. place \in Injection(Fitting, 1..n)
  <2>1. place \in [Fitting -> 1..n]
    BY <1>1 DEF place
  <2>2. ASSUME NEW i \in Fitting, NEW j \in Fitting, place[i] = place[j]
        PROVE  i = j
    <3>1. place[i] \in Nat /\ place[j] \in Nat
      BY <1>1
    <3> QED
      BY <1>2, <2>2, <3>1, SoonerTotal
  <2> QED
    BY <2>1, <2>2 DEF Injection, IsInjective
<1>4. place \in Surjection(Fitting, 1..n)
  <2>1. IsFiniteSet(1..n) /\ Cardinality(1..n) = n
    BY <1>1, FS_Interval
  <2> QED
    BY <1>3, <2>1, FS_Injection
<1>5. \A p \in 1..n : order[p] \in Fitting /\ place[order[p]] = p
  <2>1. \A i \in Fitting : place[i] = Cardinality({j \in Fitting : Sooner(j, i)})
    BY DEF place, Before
  <2> SUFFICES ASSUME NEW p \in 1..n
               PROVE  order[p] \in Fitting /\ place[order[p]] = p
    OBVIOUS
  <2>2. \E i \in Fitting : Cardinality({j \in Fitting : Sooner(j, i)}) = p
    BY <1>4, <2>1 DEF Surjection
  <2>3. order[p] = CHOOSE i \in Fitting : Cardinality({j \in Fitting : Sooner(j, i)}) = p
    OBVIOUS
  <2>4. /\ order[p] \in Fitting
        /\ Cardinality({j \in Fitting : Sooner(j, order[p])}) = p
    <3> HIDE DEF order
    <3> QED
      BY <2>2, <2>3
  <2> QED
    BY <2>1, <2>4
<1>6. Tagged = [p \in 1..n |-> registry[order[p]].id]
  <2>1. Tagged = [p \in 1..n |-> registry[CHOOSE i \in Fitting :
                    Cardinality({j \in Fitting : Sooner(j, i)}) = p].id]
    BY DEF Tagged, UporzadkujStrategia
  <2> QED
    BY <2>1
<1>7. DOMAIN order = 1..n
  OBVIOUS
<1> HIDE DEF order
<1>8. order \in Bijection(1..n, Fitting)
  <2>1. order \in [1..n -> Fitting]
    <3>1. order = [p \in 1..n |-> order[p]]
      BY DEF order
    <3> QED
      BY <1>5, <3>1
  <2>2. \A p, q \in 1..n : order[p] = order[q] => p = q
    BY <1>5
  <2>3. \A i \in Fitting : \E p \in 1..n : order[p] = i
    <3>1. ASSUME NEW i \in Fitting PROVE order[place[i]] = i
      <4>1. place[i] \in 1..n
        BY <1>1
      <4>2. order[place[i]] \in Fitting /\ place[order[place[i]]] = place[i]
        BY <1>5, <4>1
      <4> QED
        BY <1>3, <4>2 DEF Injection, IsInjective
    <3> QED
      BY <1>1, <3>1
  <2> QED
    BY <1>7, <2>1, <2>2, <2>3 DEF Bijection, Injection, Surjection, IsInjective
<1>9. ASSUME NEW p \in 1..n, NEW q \in 1..n, p < q
      PROVE  Sooner(order[p], order[q])
  <2>1. /\ order[p] \in Fitting /\ order[q] \in Fitting
        /\ place[order[p]] = p /\ place[order[q]] = q
    BY <1>5
  <2>2. order[p] # order[q] /\ ~(q < p)
    BY <1>9, <2>1
  <2>3. CASE Sooner(order[q], order[p])
    BY <1>2, <2>1, <2>2, <2>3
  <2> QED
    BY <2>1, <2>3, SoonerTotal
<1> QED
  BY <1>6, <1>7, <1>8, <1>9 DEF ByStrategy

=============================================================================
