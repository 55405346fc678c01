---------------------------- MODULE ModelRouter ----------------------------
(***************************************************************************)
(* The model router of router/router.py, with its circuit breaker          *)
(* (router/zdrowie.py) and its token bucket (router/rate_limit.py), serving *)
(* requests of several threads of one process.  The breaker takes a lock   *)
(* for each question and each report; the token bucket takes none, and is  *)
(* cut where CPython may switch threads: at its calls.                     *)
(*                                                                         *)
(* Texts are left out: a request is its mode, the candidates selected for  *)
(* it, and the models that its gates (vision, context window, egress) let  *)
(* through.  One tick of the clock is the time in which the bucket gains a *)
(* token.  Breaker and limit are both configured.                          *)
(***************************************************************************)
EXTENDS Naturals, Sequences, FiniteSets

CONSTANTS
  Worker,          \* threads that serve requests
  Model,           \* models.registry
  Request,         \* the requests there may be
  Mute,            \* models whose client has no chat_stream
  FailuresToOpen,  \* routing.health.failures_to_open
  Cooldown,        \* routing.health.cooldown_seconds, in ticks
  Capacity,        \* routing.cost_controls.max_requests_per_minute
  MaxTime,         \* bound on the clock
  MaxRequests      \* bound on the requests served

\* What complete is asked: the mode, the candidates select_candidates gives for
\* it, the models its gates let through.
TaskType == [mode : {"chat", "stream"}, cand : Seq(Model), fit : SUBSET Model]

Distinct(s) == \A i, j \in DOMAIN s : s[i] = s[j] => i = j

ASSUME ModelAssumption ==
  /\ Mute \subseteq Model
  /\ Request \subseteq TaskType
  /\ \A q \in Request : Distinct(q.cand)
ASSUME LimitAssumption ==
  /\ FailuresToOpen \in Nat \ {0} /\ Cooldown \in Nat \ {0}
  /\ Capacity \in Nat \ {0}
  /\ MaxTime \in Nat /\ MaxRequests \in Nat

VARIABLES
  now,       \* time.monotonic
  \* RejestrZdrowia._stany
  fails,     \* consecutive failures of each model
  lastFail,  \* when the last of them was reported
  \* RateLimiter
  tokens,    \* _tokens
  stamp,     \* _last
  \* the threads and their requests
  pc,        \* where the thread is
  task,      \* its request
  screen,    \* uporzadkuj: questions asked, the two lists so far
  acq,       \* the locals of RateLimiter.acquire
  queue,     \* candidates not yet considered
  sent,      \* models whose text has reached the caller
  outcome,   \* how the last request of the thread ended
  \* history
  tried,     \* models called for the request
  steady,    \* models whose circuit has not changed since the request began
  served,    \* requests begun
  admitted,  \* tokens handed out
  raced      \* whether two threads have been inside acquire at once

health == <<fails, lastFail>>
bucket == <<tokens, stamp>>
request == <<task, screen, acq, queue, sent, outcome, tried>>
history == <<served, admitted, raced>>
vars == <<now, health, bucket, pc, request, steady, history>>

Elems(s) == {s[i] : i \in DOMAIN s}
Lesser(a, b) == IF a < b THEN a ELSE b

NoTask == [mode |-> "chat", cand |-> <<>>, fit |-> {}]
NoScreen == [asked |-> 0, healthy |-> <<>>, aside |-> <<>>]
NoAcq == [now |-> 0, elapsed |-> 0, refilled |-> 0]
Untouched == [open |-> {}, closed |-> {}]

----------------------------------------------------------------------------
(* The circuit breaker.                                                    *)

\* odsuniety, at this moment.
SetAside(m) == fails[m] >= FailuresToOpen /\ now - lastFail[m] < Cooldown

Open == {m \in Model : SetAside(m)}

\* odnotuj_awarie.
ReportFailure(m) ==
  /\ fails' = [fails EXCEPT ![m] = Lesser(@ + 1, FailuresToOpen)]
  /\ lastFail' = [lastFail EXCEPT ![m] = now]

\* odnotuj_sukces: the entry is removed.
ReportSuccess(m) ==
  /\ fails' = [fails EXCEPT ![m] = 0]
  /\ lastFail' = [lastFail EXCEPT ![m] = 0]

----------------------------------------------------------------------------
Init ==
  /\ now = 0
  /\ fails = [m \in Model |-> 0] /\ lastFail = [m \in Model |-> 0]
  /\ tokens = Capacity /\ stamp = 0
  /\ pc = [w \in Worker |-> "idle"]
  /\ task = [w \in Worker |-> NoTask]
  /\ screen = [w \in Worker |-> NoScreen]
  /\ acq = [w \in Worker |-> NoAcq]
  /\ queue = [w \in Worker |-> <<>>]
  /\ sent = [w \in Worker |-> {}]
  /\ outcome = [w \in Worker |-> "none"]
  /\ tried = [w \in Worker |-> {}]
  /\ steady = [w \in Worker |-> Untouched]
  /\ served = 0 /\ admitted = 0 /\ raced = FALSE

Goto(w, l) == pc' = [pc EXCEPT ![w] = l]

\* complete or complete_stream returns or raises.
End(w, how) ==
  /\ Goto(w, "idle")
  /\ outcome' = [outcome EXCEPT ![w] = how]

Tick ==
  /\ now < MaxTime
  /\ now' = now + 1
  /\ UNCHANGED <<health, bucket, pc, request, history>>

\* complete, complete_stream: the candidates have been selected.
Start(w) ==
  /\ pc[w] = "idle" /\ served < MaxRequests
  /\ \E q \in Request : task' = [task EXCEPT ![w] = q]
  /\ screen' = [screen EXCEPT ![w] = NoScreen]
  /\ queue' = [queue EXCEPT ![w] = <<>>]
  /\ sent' = [sent EXCEPT ![w] = {}]
  /\ tried' = [tried EXCEPT ![w] = {}]
  /\ outcome' = [outcome EXCEPT ![w] = "none"]
  /\ served' = served + 1
  /\ Goto(w, "screen")
  /\ UNCHANGED <<now, health, bucket, acq, admitted, raced>>

\* Bug: they do not come at all.
OrderExcluding(s) == s.healthy

Order(s) == s.healthy \o s.aside

\* uporzadkuj: two passes over the candidates; each asks the breaker about each
\* candidate, under the lock and with the clock read anew.
Screen(w) ==
  LET s == screen[w]
      c == task[w].cand
      n == Len(c)
      m == IF s.asked < n THEN c[s.asked + 1] ELSE c[s.asked - n + 1]
  IN /\ pc[w] = "screen" /\ s.asked < 2 * n
     /\ screen' = [screen EXCEPT ![w] =
          [asked   |-> s.asked + 1,
           healthy |-> IF s.asked < n /\ ~SetAside(m)
                       THEN Append(s.healthy, m) ELSE s.healthy,
           aside   |-> IF s.asked >= n /\ SetAside(m)
                       THEN Append(s.aside, m) ELSE s.aside]]
     /\ UNCHANGED <<now, health, bucket, pc, task, acq, queue, sent, outcome,
                    tried, history>>

\* The rest of _kandydaci.
Ordered(w) ==
  /\ pc[w] = "screen" /\ screen[w].asked = 2 * Len(task[w].cand)
  /\ queue' = [queue EXCEPT ![w] = Order(screen[w])]
  /\ \/ queue'[w] = <<>> /\ End(w, "nomodel")
     \/ queue'[w] # <<>> /\ Goto(w, "clock") /\ UNCHANGED outcome
  /\ UNCHANGED <<now, health, bucket, task, screen, acq, sent, tried, history>>

----------------------------------------------------------------------------
(* RateLimiter.acquire, without a lock.                                    *)

Acquiring == {"elapsed", "refill", "take"}

\* now = self._now()
ReadClock(w) ==
  /\ pc[w] = "clock"
  /\ acq' = [acq EXCEPT ![w].now = now]
  /\ raced' = (raced \/ \E v \in Worker : pc[v] \in Acquiring)
  /\ Goto(w, "elapsed")
  /\ UNCHANGED <<now, health, bucket, task, screen, queue, sent, outcome, tried,
                 served, admitted>>

\* elapsed = max(0.0, now - self._last)
ReadStamp(w) ==
  /\ pc[w] = "elapsed"
  /\ acq' = [acq EXCEPT ![w].elapsed =
       IF acq[w].now > stamp THEN acq[w].now - stamp ELSE 0]
  /\ Goto(w, "refill")
  /\ UNCHANGED <<now, health, bucket, task, screen, queue, sent, outcome, tried,
                 history>>

Refilled(w) == Lesser(Capacity, tokens + acq[w].elapsed)

\* self._last = now; min(self._capacity, self._tokens + ...)
Refill(w) ==
  /\ pc[w] = "refill"
  /\ stamp' = acq[w].now
  /\ acq' = [acq EXCEPT ![w].refilled = Refilled(w)]
  /\ Goto(w, "take")
  /\ UNCHANGED <<now, health, tokens, task, screen, queue, sent, outcome, tried,
                 history>>

Left(t) == t - 1

\* self._tokens = ...; the test and the decrement, or the refusal.
Take(w) ==
  LET t == acq[w].refilled IN
  /\ pc[w] = "take"
  /\ acq' = [acq EXCEPT ![w] = NoAcq]
  /\ \/ /\ t >= 1
        /\ tokens' = Left(t) /\ admitted' = admitted + 1
        /\ Goto(w, "next") /\ UNCHANGED outcome
     \/ /\ t < 1
        /\ tokens' = t /\ UNCHANGED admitted
        /\ End(w, "limited")
  /\ UNCHANGED <<now, health, stamp, task, screen, queue, sent, tried, served,
                 raced>>

----------------------------------------------------------------------------
(* The chain of fallbacks.                                                 *)

quietC == <<now, bucket, task, screen, acq, history>>

\* Bug: a model that only a property of the request rules out is punished.
SkipPunished(w) ==
  /\ pc[w] = "next" /\ queue[w] # <<>>
  /\ Head(queue[w]) \notin task[w].fit
  /\ queue' = [queue EXCEPT ![w] = Tail(@)]
  /\ ReportFailure(Head(queue[w]))
  /\ UNCHANGED <<quietC, pc, sent, outcome, tried>>

\* The gates of _zdatni_kandydaci, and a client that cannot stream.
Suitable(w, m) == m \in task[w].fit /\ (task[w].mode = "chat" \/ m \notin Mute)

Skip(w) ==
  /\ pc[w] = "next" /\ queue[w] # <<>>
  /\ ~Suitable(w, Head(queue[w]))
  /\ queue' = [queue EXCEPT ![w] = Tail(@)]
  /\ UNCHANGED <<quietC, health, pc, sent, outcome, tried>>

\* client.chat or client.chat_stream is called for the first of the queue ...
Call(w) ==
  /\ pc[w] = "next" /\ queue[w] # <<>>
  /\ Suitable(w, Head(queue[w]))
  /\ tried' = [tried EXCEPT ![w] = @ \cup {Head(queue[w])}]
  /\ Goto(w, "call")
  /\ UNCHANGED <<quietC, health, queue, sent, outcome>>

\* ... or its client cannot be built, for want of an API key: build_client
\* raises inside the generator, outside the try of complete.
BuildFails(w) ==
  /\ pc[w] = "next" /\ queue[w] # <<>>
  /\ Head(queue[w]) \in task[w].fit
  /\ End(w, "raised")
  /\ UNCHANGED <<quietC, health, queue, sent, tried>>

\* raise AllModelsFailedError(failures)
Exhausted(w) ==
  /\ pc[w] = "next" /\ queue[w] = <<>>
  /\ End(w, "allfailed")
  /\ UNCHANGED <<quietC, health, queue, sent, tried>>

\* A fragment of the stream reaches the caller.
Fragment(w) ==
  /\ pc[w] = "call" /\ task[w].mode = "stream"
  /\ sent' = [sent EXCEPT ![w] = @ \cup {Head(queue[w])}]
  /\ UNCHANGED <<quietC, health, pc, queue, outcome, tried>>

\* Bug: the next model goes on with the answer that was begun.
MayFallBackAlways(w) == TRUE

\* cokolwiek_wyslano
MayFallBack(w) == sent[w] = {}

\* Bug: the model that failed stays first in the queue.
CallFailsRetried(w) ==
  /\ pc[w] = "call"
  /\ ReportFailure(Head(queue[w]))
  /\ \/ MayFallBack(w) /\ Goto(w, "next") /\ UNCHANGED outcome
     \/ ~MayFallBack(w) /\ End(w, "cut")
  /\ UNCHANGED <<quietC, queue, sent, tried>>

\* ModelBackendError: the failure counts, and the next candidate's turn comes
\* unless the caller has already seen a part of the answer.
CallFails(w) ==
  /\ pc[w] = "call"
  /\ ReportFailure(Head(queue[w]))
  /\ \/ /\ MayFallBack(w)
        /\ queue' = [queue EXCEPT ![w] = Tail(@)]
        /\ Goto(w, "next") /\ UNCHANGED outcome
     \/ /\ ~MayFallBack(w)
        /\ End(w, "cut") /\ UNCHANGED queue
  /\ UNCHANGED <<quietC, sent, tried>>

\* The answer, or the end of the stream.
CallSucceeds(w) ==
  /\ pc[w] = "call"
  /\ ReportSuccess(Head(queue[w]))
  /\ sent' = [sent EXCEPT ![w] =
       IF task[w].mode = "chat" THEN @ \cup {Head(queue[w])} ELSE @]
  /\ End(w, "answered")
  /\ UNCHANGED <<quietC, queue, tried>>

\* The caller closes the stream: the breaker hears nothing.
Abandon(w) ==
  /\ pc[w] = "call" /\ sent[w] # {}
  /\ End(w, "abandoned")
  /\ UNCHANGED <<quietC, health, queue, sent, tried>>

----------------------------------------------------------------------------
\* What has stayed as it was since the request began, until it is ordered.
Watch ==
  steady' = [w \in Worker |->
    IF pc[w] = "idle" /\ pc'[w] = "screen"
    THEN [open |-> Open', closed |-> Model \ Open']
    ELSE IF pc'[w] = "screen"
    THEN [open |-> steady[w].open \cap Open', closed |-> steady[w].closed \ Open']
    ELSE steady[w]]

Serve(w) ==
  \/ Screen(w) \/ Ordered(w)
  \/ ReadClock(w) \/ ReadStamp(w) \/ Refill(w) \/ Take(w)
  \/ Skip(w) \/ Call(w) \/ BuildFails(w) \/ Exhausted(w)
  \/ CallFails(w) \/ CallSucceeds(w)

Step == Tick \/ \E w \in Worker : Start(w) \/ Serve(w) \/ Fragment(w) \/ Abandon(w)

Next == Step /\ Watch

Spec == Init /\ [][Next]_vars

\* A thread goes on with its request, and every call to a model ends: the
\* transport has a timeout.  Nothing obliges a caller to begin one.
FairSpec == Spec /\ \A w \in Worker : WF_vars(Serve(w) /\ Watch)

----------------------------------------------------------------------------
(* Properties.                                                             *)

ScreenType == [asked : Nat, healthy : Seq(Model), aside : Seq(Model)]
AcqType == [now : Nat, elapsed : Nat, refilled : 0..Capacity]
SteadyType == [open : SUBSET Model, closed : SUBSET Model]
Label == {"idle", "screen", "clock", "elapsed", "refill", "take", "next", "call"}
Ending == {"none", "nomodel", "limited", "raised", "allfailed", "cut", "answered",
         "abandoned"}

\* Every variable holds a value of its kind; the bucket never holds more than
\* its capacity, whatever its unlocked users do to it.
TypeOK ==
  /\ now \in Nat
  /\ fails \in [Model -> 0..FailuresToOpen] /\ lastFail \in [Model -> Nat]
  /\ tokens \in 0..Capacity /\ stamp \in Nat
  /\ pc \in [Worker -> Label]
  /\ task \in [Worker -> TaskType]
  /\ screen \in [Worker -> ScreenType]
  /\ acq \in [Worker -> AcqType]
  /\ queue \in [Worker -> Seq(Model)]
  /\ sent \in [Worker -> SUBSET Model]
  /\ outcome \in [Worker -> Ending]
  /\ tried \in [Worker -> SUBSET Model]
  /\ steady \in [Worker -> SteadyType]
  /\ served \in Nat /\ admitted \in Nat /\ raced \in BOOLEAN

\* What a caller has seen comes from one model: no answer is ever glued together
\* from two (complete_stream: falling back only before the first fragment).
OneVoice ==
  \A w \in Worker :
    /\ \A m, n \in sent[w] : m = n
    /\ sent[w] \subseteq tried[w]

Placed(w) == Order(screen[w])
OrderDone(w) == screen[w].asked = 2 * Len(task[w].cand)
Before(s, a, b) == \E i, j \in DOMAIN s : i < j /\ s[i] = a /\ s[j] = b

\* Whatever other requests report meanwhile: of two candidates whose circuits do
\* not change while they are ordered, a closed one is tried before an open one,
\* and two of the same kind keep the order of the selection.  Neither is lost.
SteadyOrder ==
  \A w \in Worker : OrderDone(w) =>
    LET c == task[w].cand
        o == Placed(w)
        open == steady[w].open
        closed == steady[w].closed
    IN /\ \A m \in Elems(c) \cap (open \cup closed) : m \in Elems(o)
       /\ \A m \in Elems(c) \cap closed, n \in Elems(c) \cap open : Before(o, m, n)
       /\ \A i, j \in DOMAIN c :
            i < j /\ ({c[i], c[j]} \subseteq open \/ {c[i], c[j]} \subseteq closed)
              => Before(o, c[i], c[j])

\* AllModelsFailedError and NoModelAvailableError are never raised over the head
\* of a model that could have answered, its circuit unchanged since the request
\* began: each such model has been called.
FailsOnlyAfterTrying ==
  \A w \in Worker :
    outcome[w] \in {"allfailed", "nomodel"} =>
      \A m \in Elems(task[w].cand) \cap (steady[w].open \cup steady[w].closed) :
        Suitable(w, m) => m \in tried[w]

\* The breaker learns from real calls only: the state of a model changes in no
\* step but the end of a call to it (zdrowie.py: what the request itself rules
\* out does not count).
OnlyCallsCount ==
  [][\A m \in Model :
       <<fails[m], lastFail[m]>>' # <<fails[m], lastFail[m]>> =>
         \E w \in Worker : pc[w] = "call" /\ Head(queue[w]) = m /\ pc'[w] # "call"]_vars

\* As long as no two threads have met inside it, the bucket admits no more than
\* its capacity and what time has added to it.
LimitHolds == raced \/ admitted <= Capacity + now

\* A request that has begun ends, if the calls to the models do.
RequestEnds == \A w \in Worker : pc[w] # "idle" ~> pc[w] = "idle"

============================================================================
