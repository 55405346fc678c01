------------------------- MODULE ModelRouterProofs -------------------------
(***************************************************************************)
(* Proofs about ModelRouter, for any number of threads, models, requests   *)
(* and candidates.                                                         *)
(***************************************************************************)
EXTENDS ModelRouterInv, SequenceTheorems, TLAPS

LEMMA LesserType ==
  ASSUME NEW a \in Nat, NEW b \in Nat
  PROVE  Lesser(a, b) \in 0..b /\ Lesser(a, b) <= a
BY DEF Lesser

LEMMA TailType ==
  ASSUME NEW s \in Seq(Model), s # <<>>
  PROVE  Head(s) \in Model /\ Tail(s) \in Seq(Model)
BY HeadTailProperties

----------------------------------------------------------------------------
(* Type correctness.                                                       *)

LEMMA InitType == Init => TypeOK
<1> SUFFICES ASSUME Init PROVE TypeOK
  OBVIOUS
<1>1. <<>> \in Seq(Model)
  OBVIOUS
<1>2. NoTask \in TaskType /\ NoScreen \in ScreenType
  BY <1>1 DEF TaskType, NoTask, ScreenType, NoScreen
<1>3. NoAcq \in AcqType /\ Untouched \in SteadyType
  BY LimitAssumption DEF AcqType, NoAcq, SteadyType, Untouched
<1>4. Capacity \in 0..Capacity /\ 0 \in 0..FailuresToOpen
  BY LimitAssumption
<1> QED
  BY <1>1, <1>2, <1>3, <1>4 DEF Init, TypeOK, Label, Ending

LEMMA ReportType ==
  ASSUME TypeOK, NEW m \in Model, ReportFailure(m) \/ ReportSuccess(m)
  PROVE  /\ fails' \in [Model -> 0..FailuresToOpen]
         /\ lastFail' \in [Model -> Nat]
<1>1. fails[m] + 1 \in Nat /\ FailuresToOpen \in Nat /\ 0 \in 0..FailuresToOpen
  BY LimitAssumption DEF TypeOK
<1>2. Lesser(fails[m] + 1, FailuresToOpen) \in 0..FailuresToOpen
  BY <1>1, LesserType
<1>3. CASE ReportFailure(m)
  BY <1>2, <1>3 DEF ReportFailure, TypeOK
<1>4. CASE ReportSuccess(m)
  BY <1>1, <1>4 DEF ReportSuccess, TypeOK
<1> QED
  BY <1>3, <1>4

LEMMA ScreenTypeKept ==
  ASSUME TypeOK, NEW w \in Worker, Screen(w)
  PROVE  screen' \in [Worker -> ScreenType]
<1> DEFINE s == screen[w]
           n == Len(task[w].cand)
           m == IF s.asked < n THEN task[w].cand[s.asked + 1]
                ELSE task[w].cand[s.asked - n + 1]
<1>1. s.asked \in Nat /\ n \in Nat /\ s.asked < 2 * n
  BY DEF Screen, TypeOK, ScreenType, TaskType
<1>2. m \in Model
  <2>1. task[w].cand \in Seq(Model)
    BY DEF TypeOK, TaskType
  <2>2. CASE s.asked < n
    <3>1. s.asked + 1 \in 1..n
      BY <1>1, <2>2
    <3> QED
      BY <2>1, <2>2, <3>1, ElementOfSeq
  <2>3. CASE s.asked >= n
    <3>1. s.asked - n + 1 \in 1..n
      BY <1>1, <2>3
    <3> QED
      BY <1>1, <2>1, <2>3, <3>1, ElementOfSeq
  <2> QED
    BY <1>1, <2>2, <2>3
<1>3. /\ s.healthy \in Seq(Model) /\ s.aside \in Seq(Model)
      /\ Append(s.healthy, m) \in Seq(Model) /\ Append(s.aside, m) \in Seq(Model)
  BY <1>2, AppendProperties DEF TypeOK, ScreenType
<1>4. screen' = [screen EXCEPT ![w] =
        [asked   |-> s.asked + 1,
         healthy |-> IF s.asked < n /\ ~SetAside(m)
                     THEN Append(s.healthy, m) ELSE s.healthy,
         aside   |-> IF s.asked >= n /\ SetAside(m)
                     THEN Append(s.aside, m) ELSE s.aside]]
  BY DEF Screen
<1> HIDE DEF m
<1>5. [asked   |-> s.asked + 1,
       healthy |-> IF s.asked < n /\ ~SetAside(m)
                   THEN Append(s.healthy, m) ELSE s.healthy,
       aside   |-> IF s.asked >= n /\ SetAside(m)
                   THEN Append(s.aside, m) ELSE s.aside] \in ScreenType
  BY <1>1, <1>3 DEF ScreenType
<1> QED
  BY <1>4, <1>5 DEF TypeOK

LEMMA OrderType ==
  ASSUME TypeOK, NEW w \in Worker PROVE Order(screen[w]) \in Seq(Model)
BY ConcatProperties DEF TypeOK, ScreenType, Order

\* Everything but the history of steady.
TypeOfStep ==
  /\ now' \in Nat
  /\ fails' \in [Model -> 0..FailuresToOpen] /\ lastFail' \in [Model -> Nat]
  /\ tokens' \in 0..Capacity /\ stamp' \in Nat
  /\ pc' \in [Worker -> Label]
  /\ task' \in [Worker -> TaskType]
  /\ screen' \in [Worker -> ScreenType]
  /\ acq' \in [Worker -> AcqType]
  /\ queue' \in [Worker -> Seq(Model)]
  /\ sent' \in [Worker -> SUBSET Model]
  /\ outcome' \in [Worker -> Ending]
  /\ tried' \in [Worker -> SUBSET Model]
  /\ served' \in Nat /\ admitted' \in Nat /\ raced' \in BOOLEAN

LEMMA StepType == TypeOK /\ VoiceInv /\ Step => TypeOfStep
<1> SUFFICES ASSUME TypeOK, VoiceInv, Step PROVE TypeOfStep
  OBVIOUS
<1> USE DEF health, bucket, request, history, quietC, Goto, End, Label, Ending
<1>1. CASE Tick
  BY <1>1 DEF Tick, TypeOK, TypeOfStep
<1>2. ASSUME NEW w \in Worker, Start(w) PROVE TypeOfStep
  <2>1. PICK q \in Request : task' = [task EXCEPT ![w] = q]
    BY <1>2 DEF Start
  <2>2. task' \in [Worker -> TaskType]
    <3>1. q \in TaskType
      BY ModelAssumption
    <3> QED
      BY <2>1, <3>1 DEF TypeOK
  <2>3. <<>> \in Seq(Model) /\ NoScreen \in ScreenType
    BY DEF NoScreen, ScreenType
  <2> QED
    BY <1>2, <2>2, <2>3 DEF Start, TypeOK, TypeOfStep
<1>3. ASSUME NEW w \in Worker, Screen(w) PROVE TypeOfStep
  BY <1>3, ScreenTypeKept DEF Screen, TypeOK, TypeOfStep
<1>4. ASSUME NEW w \in Worker, Ordered(w) PROVE TypeOfStep
  <2>1. queue' \in [Worker -> Seq(Model)]
    BY <1>4, OrderType DEF Ordered, TypeOK
  <2>2. pc' \in [Worker -> Label] /\ outcome' \in [Worker -> Ending]
    BY <1>4 DEF Ordered, TypeOK
  <2> QED
    BY <1>4, <2>1, <2>2 DEF Ordered, TypeOK, TypeOfStep
<1>5. ASSUME NEW w \in Worker, ReadClock(w) PROVE TypeOfStep
  <2>1. acq' \in [Worker -> AcqType]
    BY <1>5 DEF ReadClock, TypeOK, AcqType
  <2> QED
    BY <1>5, <2>1 DEF ReadClock, TypeOK, TypeOfStep
<1>6. ASSUME NEW w \in Worker, ReadStamp(w) PROVE TypeOfStep
  <2>1. acq[w] \in AcqType /\ stamp \in Nat
    BY DEF TypeOK
  <2>2. (IF acq[w].now > stamp THEN acq[w].now - stamp ELSE 0) \in Nat
    BY <2>1 DEF AcqType
  <2>3. acq' \in [Worker -> AcqType]
    <3> DEFINE e == IF acq[w].now > stamp THEN acq[w].now - stamp ELSE 0
    <3>1. [acq[w] EXCEPT !.elapsed = e] \in AcqType
      BY <2>1, <2>2 DEF AcqType
    <3> HIDE DEF e
    <3>2. acq' = [acq EXCEPT ![w] = [acq[w] EXCEPT !.elapsed = e]]
      BY <1>6 DEF ReadStamp, e, TypeOK
    <3> QED
      BY <3>1, <3>2 DEF TypeOK
  <2> QED
    BY <1>6, <2>3 DEF ReadStamp, TypeOK, TypeOfStep
<1>7. ASSUME NEW w \in Worker, Refill(w) PROVE TypeOfStep
  <2>1. acq[w] \in AcqType /\ tokens \in Nat /\ Capacity \in Nat
    BY LimitAssumption DEF TypeOK
  <2>2. tokens + acq[w].elapsed \in Nat /\ acq[w].now \in Nat
    BY <2>1 DEF AcqType
  <2>3. Refilled(w) \in 0..Capacity
    BY <2>1, <2>2 DEF Refilled, Lesser
  <2>4. acq' \in [Worker -> AcqType]
    BY <1>7, <2>3 DEF Refill, TypeOK, AcqType
  <2> QED
    BY <1>7, <2>2, <2>4 DEF Refill, TypeOK, TypeOfStep
<1>8. ASSUME NEW w \in Worker, Take(w) PROVE TypeOfStep
  <2>1. acq[w].refilled \in 0..Capacity /\ Capacity \in Nat
    BY LimitAssumption DEF TypeOK, AcqType
  <2>2. tokens' \in 0..Capacity /\ admitted' \in Nat
    BY <1>8, <2>1 DEF Take, Left, TypeOK
  <2>3. NoAcq \in AcqType
    BY <2>1 DEF NoAcq, AcqType
  <2>4. acq' \in [Worker -> AcqType]
    BY <1>8, <2>3 DEF Take, TypeOK
  <2>5. pc' \in [Worker -> Label] /\ outcome' \in [Worker -> Ending]
    BY <1>8 DEF Take, TypeOK
  <2> QED
    BY <1>8, <2>2, <2>4, <2>5 DEF Take, TypeOK, TypeOfStep
<1>9. ASSUME NEW w \in Worker, queue[w] # <<>>
      PROVE  Head(queue[w]) \in Model /\ Tail(queue[w]) \in Seq(Model)
  BY <1>9, TailType DEF TypeOK
<1>10. ASSUME NEW w \in Worker, Skip(w) PROVE TypeOfStep
  BY <1>10, <1>9 DEF Skip, TypeOK, TypeOfStep
<1>11. ASSUME NEW w \in Worker, Call(w) PROVE TypeOfStep
  BY <1>11, <1>9 DEF Call, TypeOK, TypeOfStep
<1>12. ASSUME NEW w \in Worker, BuildFails(w) PROVE TypeOfStep
  BY <1>12 DEF BuildFails, TypeOK, TypeOfStep
<1>13. ASSUME NEW w \in Worker, Exhausted(w) PROVE TypeOfStep
  BY <1>13 DEF Exhausted, TypeOK, TypeOfStep
<1>14. ASSUME NEW w \in Worker, Fragment(w), queue[w] # <<>> PROVE TypeOfStep
  BY <1>14, <1>9 DEF Fragment, TypeOK, TypeOfStep
<1>15. ASSUME NEW w \in Worker, Abandon(w) PROVE TypeOfStep
  BY <1>15 DEF Abandon, TypeOK, TypeOfStep
<1>16. ASSUME NEW w \in Worker, CallFails(w), queue[w] # <<>> PROVE TypeOfStep
  <2>1. /\ fails' \in [Model -> 0..FailuresToOpen]
        /\ lastFail' \in [Model -> Nat]
    BY <1>16, <1>9, ReportType DEF CallFails
  <2>2. queue' \in [Worker -> Seq(Model)]
    BY <1>16, <1>9 DEF CallFails, TypeOK
  <2>3. pc' \in [Worker -> Label] /\ outcome' \in [Worker -> Ending]
    BY <1>16 DEF CallFails, TypeOK
  <2> QED
    BY <1>16, <2>1, <2>2, <2>3 DEF CallFails, TypeOK, TypeOfStep
<1>17. ASSUME NEW w \in Worker, CallSucceeds(w), queue[w] # <<>> PROVE TypeOfStep
  <2>1. /\ fails' \in [Model -> 0..FailuresToOpen]
        /\ lastFail' \in [Model -> Nat]
    BY <1>17, <1>9, ReportType DEF CallSucceeds
  <2>2. sent' \in [Worker -> SUBSET Model]
    BY <1>17, <1>9 DEF CallSucceeds, TypeOK
  <2>3. pc' \in [Worker -> Label] /\ outcome' \in [Worker -> Ending]
    BY <1>17 DEF CallSucceeds, TypeOK
  <2> QED
    BY <1>17, <2>1, <2>2, <2>3 DEF CallSucceeds, TypeOK, TypeOfStep
<1>18. ASSUME NEW w \in Worker, pc[w] = "call" PROVE queue[w] # <<>>
  BY <1>18 DEF VoiceInv
<1> QED
  BY <1>1, <1>2, <1>3, <1>4, <1>5, <1>6, <1>7, <1>8, <1>10, <1>11, <1>12, <1>13,
     <1>14, <1>15, <1>16, <1>17, <1>18
  DEF Step, Serve, Fragment, CallFails, CallSucceeds

LEMMA WatchType == TypeOK /\ Watch => steady' \in [Worker -> SteadyType]
<1> SUFFICES ASSUME TypeOK, Watch PROVE steady' \in [Worker -> SteadyType]
  OBVIOUS
<1>1. Open' \subseteq Model
  BY DEF Open
<1>2. ASSUME NEW w \in Worker
      PROVE  (IF pc[w] = "idle" /\ pc'[w] = "screen"
              THEN [open |-> Open', closed |-> Model \ Open']
              ELSE IF pc'[w] = "screen"
              THEN [open |-> steady[w].open \cap Open',
                    closed |-> steady[w].closed \ Open']
              ELSE steady[w]) \in SteadyType
  BY <1>1 DEF TypeOK, SteadyType
<1> QED
  BY <1>2 DEF Watch

LEMMA NextType == TypeOK /\ VoiceInv /\ [Next]_vars => TypeOK'
<1> SUFFICES ASSUME TypeOK, VoiceInv, [Next]_vars PROVE TypeOK'
  OBVIOUS
<1>1. CASE Next
  BY <1>1, StepType, WatchType DEF Next, TypeOfStep, TypeOK
<1>2. CASE UNCHANGED vars
  BY <1>2 DEF vars, health, bucket, request, history, TypeOK
<1> QED
  BY <1>1, <1>2

----------------------------------------------------------------------------
(* One voice.                                                              *)

LEMMA VoiceInit == Init => VoiceInv
BY DEF Init, VoiceInv

LEMMA VoiceStep == TypeOK /\ VoiceInv /\ [Next]_vars => VoiceInv'
<1> SUFFICES ASSUME TypeOK, VoiceInv, [Next]_vars PROVE VoiceInv'
  OBVIOUS
<1> USE DEF health, bucket, request, history, quietC, Goto, End
<1>1. CASE UNCHANGED vars
  BY <1>1 DEF vars, VoiceInv
<1>2. CASE Tick
  BY <1>2 DEF Tick, VoiceInv
<1>3. ASSUME NEW w \in Worker, Start(w) PROVE VoiceInv'
  BY <1>3 DEF Start, VoiceInv, TypeOK
<1>4. ASSUME NEW w \in Worker, Screen(w) PROVE VoiceInv'
  BY <1>4 DEF Screen, VoiceInv
<1>5. ASSUME NEW w \in Worker, Ordered(w) PROVE VoiceInv'
  BY <1>5 DEF Ordered, VoiceInv, TypeOK
<1>6. ASSUME NEW w \in Worker, ReadClock(w) \/ ReadStamp(w) \/ Refill(w) \/ Take(w)
      PROVE  VoiceInv'
  <2>1. /\ pc[w] \notin {"call", "idle"} /\ pc'[w] # "call"
        /\ \A v \in Worker \ {w} : pc'[v] = pc[v]
        /\ UNCHANGED <<queue, sent, tried>>
    BY <1>6 DEF ReadClock, ReadStamp, Refill, Take, TypeOK
  <2> QED
    BY <2>1 DEF VoiceInv
<1>7. ASSUME NEW w \in Worker, Skip(w) PROVE VoiceInv'
  BY <1>7 DEF Skip, VoiceInv, TypeOK
<1>8. ASSUME NEW w \in Worker, Call(w) PROVE VoiceInv'
  BY <1>8 DEF Call, VoiceInv, TypeOK
<1>9. ASSUME NEW w \in Worker, BuildFails(w) \/ Exhausted(w) PROVE VoiceInv'
  BY <1>9 DEF BuildFails, Exhausted, VoiceInv, TypeOK
<1>10. ASSUME NEW w \in Worker, Fragment(w) PROVE VoiceInv'
  BY <1>10 DEF Fragment, VoiceInv, TypeOK
<1>11. ASSUME NEW w \in Worker, Abandon(w) PROVE VoiceInv'
  BY <1>11 DEF Abandon, VoiceInv, TypeOK
<1>12. ASSUME NEW w \in Worker, CallFails(w) PROVE VoiceInv'
  <2>1. \A v \in Worker \ {w} : pc'[v] = pc[v] /\ queue'[v] = queue[v]
    BY <1>12 DEF CallFails, TypeOK
  <2>2. pc'[w] = "idle" \/ (pc'[w] = "next" /\ sent[w] = {})
    BY <1>12 DEF CallFails, MayFallBack, TypeOK
  <2>3. UNCHANGED <<sent, tried>>
    BY <1>12 DEF CallFails
  <2> QED
    BY <2>1, <2>2, <2>3 DEF VoiceInv
<1>13. ASSUME NEW w \in Worker, CallSucceeds(w) PROVE VoiceInv'
  BY <1>13 DEF CallSucceeds, VoiceInv, TypeOK
<1> QED
  BY <1>1, <1>2, <1>3, <1>4, <1>5, <1>6, <1>7, <1>8, <1>9, <1>10, <1>11, <1>12,
     <1>13 DEF Next, Step, Serve

----------------------------------------------------------------------------
(* The bucket.                                                             *)

LEMMA BucketInit == Init => BucketInv
BY LimitAssumption DEF Init, BucketInv, AcquireInv, Acquiring

LEMMA BucketStep == TypeOK /\ BucketInv /\ [Next]_vars => BucketInv'
<1> SUFFICES ASSUME TypeOK, BucketInv, [Next]_vars, ~raced' PROVE BucketInv'
  BY DEF BucketInv
<1> USE DEF health, bucket, request, history, quietC, Goto, End
<1>0. /\ now \in Nat /\ stamp \in Nat /\ tokens \in Nat /\ admitted \in Nat
      /\ Capacity \in Nat
      /\ \A w \in Worker :
           /\ acq[w].now \in Nat /\ acq[w].elapsed \in Nat /\ acq[w].refilled \in Nat
  BY LimitAssumption DEF TypeOK, AcqType
<1>1. CASE UNCHANGED vars
  BY <1>1 DEF vars, BucketInv, AcquireInv
<1>2. CASE Tick
  BY <1>0, <1>2 DEF Tick, BucketInv, AcquireInv, Acquiring
<1>3. ASSUME NEW w \in Worker, pc' = [pc EXCEPT ![w] = pc'[w]],
             pc'[w] \notin Acquiring, UNCHANGED <<now, bucket, acq, admitted, raced>>
      PROVE  BucketInv'
  BY <1>3 DEF BucketInv, AcquireInv, Acquiring, TypeOK
<1>4. ASSUME NEW w \in Worker, \A v \in Worker : pc'[v] \in Acquiring => v = w,
             AcquireInv(w)', stamp' <= now', tokens' + admitted' <= Capacity + stamp'
      PROVE  BucketInv'
  BY <1>4 DEF BucketInv, AcquireInv, Acquiring
<1>5. ASSUME NEW w \in Worker, ReadClock(w) PROVE BucketInv'
  <2>1. ~raced /\ \A v \in Worker : pc[v] \notin Acquiring
    BY <1>5 DEF ReadClock
  <2>2. /\ pc' = [pc EXCEPT ![w] = "elapsed"]
        /\ acq' = [acq EXCEPT ![w].now = now]
        /\ UNCHANGED <<now, tokens, stamp, admitted>>
    BY <1>5 DEF ReadClock
  <2>3. pc'[w] = "elapsed" /\ acq'[w].now = now
    BY <2>2 DEF TypeOK, AcqType
  <2>4. \A v \in Worker : pc'[v] \in Acquiring => v = w
    BY <2>1, <2>2 DEF TypeOK
  <2>5. stamp <= now /\ tokens + admitted <= Capacity + stamp
    BY <2>1 DEF BucketInv
  <2>6. AcquireInv(w)'
    BY <1>0, <2>2, <2>3, <2>5 DEF AcquireInv
  <2> QED
    BY <1>4, <2>2, <2>4, <2>5, <2>6
<1>6. ASSUME NEW w \in Worker, pc[w] \in Acquiring, raced' = raced
      PROVE  /\ \A v \in Worker : pc[v] \in Acquiring => v = w
             /\ stamp <= now /\ tokens + admitted <= Capacity + stamp
             /\ AcquireInv(w)
  BY <1>6 DEF BucketInv
<1>7. ASSUME NEW w \in Worker, ReadStamp(w) PROVE BucketInv'
  <2>1. /\ pc[w] = "elapsed" /\ pc' = [pc EXCEPT ![w] = "refill"]
        /\ UNCHANGED <<now, tokens, stamp, admitted, raced>>
        /\ acq' = [acq EXCEPT ![w].elapsed =
                    IF acq[w].now > stamp THEN acq[w].now - stamp ELSE 0]
    BY <1>7 DEF ReadStamp
  <2>2. /\ \A v \in Worker : pc[v] \in Acquiring => v = w
        /\ stamp <= now /\ tokens + admitted <= Capacity + stamp
        /\ AcquireInv(w)
    BY <1>6, <2>1 DEF Acquiring
  <2>3. stamp <= acq[w].now /\ acq[w].now <= now
    BY <2>1, <2>2 DEF AcquireInv, Acquiring
  <2>4. /\ acq'[w].elapsed = IF acq[w].now > stamp THEN acq[w].now - stamp ELSE 0
        /\ acq'[w].now = acq[w].now
    BY <2>1 DEF TypeOK, AcqType
  <2>5. acq'[w].elapsed = acq[w].now - stamp
    BY <1>0, <2>3, <2>4
  <2>6. pc'[w] = "refill" /\ \A v \in Worker : pc'[v] \in Acquiring => v = w
    BY <2>1, <2>2 DEF TypeOK
  <2>7. AcquireInv(w)'
    BY <2>1, <2>3, <2>4, <2>5, <2>6 DEF AcquireInv
  <2> QED
    BY <1>4, <2>1, <2>2, <2>6, <2>7
<1>9. ASSUME NEW w \in Worker, Refill(w) PROVE BucketInv'
  <2>1. /\ pc[w] = "refill" /\ pc' = [pc EXCEPT ![w] = "take"]
        /\ UNCHANGED <<now, tokens, admitted, raced>>
        /\ stamp' = acq[w].now
        /\ acq' = [acq EXCEPT ![w].refilled = Refilled(w)]
    BY <1>9 DEF Refill
  <2>2. /\ \A v \in Worker : pc[v] \in Acquiring => v = w
        /\ stamp <= now /\ tokens + admitted <= Capacity + stamp
        /\ AcquireInv(w)
    BY <1>6, <2>1 DEF Acquiring
  <2>3. /\ stamp <= acq[w].now /\ acq[w].now <= now
        /\ acq[w].elapsed = acq[w].now - stamp
    BY <2>1, <2>2 DEF AcquireInv, Acquiring
  <2>4. acq'[w].refilled = Refilled(w) /\ acq'[w].now = acq[w].now
    BY <2>1 DEF TypeOK, AcqType
  <2>5. Refilled(w) <= tokens + acq[w].elapsed /\ Refilled(w) \in Nat
    BY <1>0 DEF Refilled, Lesser
  <2>6. Refilled(w) + admitted <= Capacity + acq[w].now
    BY <1>0, <2>2, <2>3, <2>5
  <2>7. pc'[w] = "take" /\ \A v \in Worker : pc'[v] \in Acquiring => v = w
    BY <2>1, <2>2 DEF TypeOK
  <2>8. AcquireInv(w)'
    BY <2>1, <2>3, <2>4, <2>6, <2>7 DEF AcquireInv
  <2>9. tokens' + admitted' <= Capacity + stamp'
    BY <1>0, <2>1, <2>2, <2>3
  <2> QED
    BY <1>4, <2>1, <2>3, <2>7, <2>8, <2>9
<1>10. ASSUME NEW w \in Worker, Take(w) PROVE BucketInv'
  <2>0. /\ pc[w] = "take" /\ UNCHANGED <<now, stamp, raced>>
        /\ pc' = [pc EXCEPT ![w] = "next"] \/ pc' = [pc EXCEPT ![w] = "idle"]
        /\ \/ tokens' = acq[w].refilled - 1 /\ admitted' = admitted + 1
           \/ tokens' = acq[w].refilled /\ admitted' = admitted
    BY <1>10 DEF Take, Left
  <2>1. /\ pc[w] = "take" /\ pc' = [pc EXCEPT ![w] = pc'[w]] /\ pc'[w] \notin Acquiring
        /\ UNCHANGED <<now, stamp, raced>>
        /\ tokens' + admitted' = acq[w].refilled + admitted
    <3>1. tokens' + admitted' = acq[w].refilled + admitted
      BY <1>0, <2>0
    <3>2. pc' = [pc EXCEPT ![w] = pc'[w]] /\ pc'[w] \notin Acquiring
      BY <2>0 DEF Acquiring, TypeOK
    <3> QED
      BY <2>0, <3>1, <3>2
  <2>2. /\ \A v \in Worker : pc[v] \in Acquiring => v = w
        /\ stamp <= now /\ AcquireInv(w)
    BY <1>6, <2>1 DEF Acquiring
  <2>3. acq[w].refilled + admitted <= Capacity + stamp
    BY <2>1, <2>2 DEF AcquireInv
  <2>4. \A v \in Worker : pc'[v] \notin Acquiring
    BY <2>1, <2>2 DEF TypeOK
  <2>5. AcquireInv(w)'
    BY <2>4 DEF AcquireInv, Acquiring
  <2> QED
    BY <1>4, <2>1, <2>2, <2>3, <2>4, <2>5
<1>8. ASSUME NEW w \in Worker,
             Start(w) \/ Ordered(w) \/ Skip(w) \/ Call(w) \/ BuildFails(w)
               \/ Exhausted(w) \/ Fragment(w) \/ Abandon(w) \/ CallFails(w)
               \/ CallSucceeds(w) \/ Screen(w)
      PROVE  BucketInv'
  <2>1. /\ pc' = [pc EXCEPT ![w] = pc'[w]] /\ pc'[w] \notin Acquiring
        /\ UNCHANGED <<now, bucket, acq, admitted, raced>>
    BY <1>8 DEF Start, Ordered, Skip, Call, BuildFails, Exhausted, Fragment,
       Abandon, CallFails, CallSucceeds, Screen, Acquiring, TypeOK
  <2> QED
    BY <1>3, <2>1
<1> QED
  BY <1>1, <1>2, <1>5, <1>7, <1>8, <1>9, <1>10 DEF Next, Step, Serve

----------------------------------------------------------------------------
(* The order of the candidates.                                            *)

LEMMA FollowsNothing ==
  ASSUME NEW c, NEW k PROVE Follows(<<>>, c, k)
BY DEF Follows

LEMMA FollowsLater ==
  ASSUME NEW s, NEW c, NEW k \in Nat, NEW l \in Nat, k <= l, Follows(s, c, k)
  PROVE  Follows(s, c, l)
<1>1. 1..k \subseteq 1..l
  OBVIOUS
<1> QED
  BY <1>1 DEF Follows

LEMMA FollowsAppend ==
  ASSUME NEW s \in Seq(Model), NEW c \in Seq(Model), NEW k \in Nat, k < Len(c),
         Follows(s, c, k)
  PROVE  Follows(Append(s, c[k + 1]), c, k + 1)
<1> DEFINE m == c[k + 1]
           t == Append(s, m)
<1>1. /\ k + 1 \in 1..Len(c) /\ m \in Model /\ Len(s) \in Nat
      /\ DOMAIN s = 1..Len(s) /\ 1..k \subseteq 1..(k + 1) /\ k + 1 \in 1..(k + 1)
  BY ElementOfSeq
<1>2. /\ DOMAIN t = 1..(Len(s) + 1) /\ t[Len(s) + 1] = m
      /\ \A a \in 1..Len(s) : t[a] = s[a]
  BY <1>1
<1> HIDE DEF t, m
<1>3. ASSUME NEW a \in DOMAIN t PROVE \E i \in 1..(k + 1) : t[a] = c[i]
  <2>1. CASE a = Len(s) + 1
    BY <1>1, <1>2, <2>1 DEF m
  <2>2. CASE a # Len(s) + 1
    <3>1. a \in DOMAIN s
      BY <1>1, <1>2, <2>2
    <3> QED
      BY <1>1, <1>2, <3>1 DEF Follows
  <2> QED
    BY <2>1, <2>2
<1>4. ASSUME NEW a \in DOMAIN t, NEW b \in DOMAIN t, a < b
      PROVE  \E i, j \in 1..(k + 1) : i < j /\ c[i] = t[a] /\ c[j] = t[b]
  <2>1. a \in DOMAIN s
    BY <1>1, <1>2, <1>4
  <2>2. CASE b = Len(s) + 1
    <3>1. PICK i \in 1..k : s[a] = c[i]
      BY <2>1 DEF Follows
    <3>2. i \in 1..(k + 1) /\ i < k + 1 /\ c[i] = t[a] /\ c[k + 1] = t[b]
      BY <1>1, <1>2, <2>1, <2>2, <3>1 DEF m
    <3> QED
      BY <1>1, <3>2
  <2>3. CASE b # Len(s) + 1
    <3>1. b \in DOMAIN s
      BY <1>1, <1>2, <2>3
    <3>2. PICK i \in 1..k, j \in 1..k : i < j /\ c[i] = s[a] /\ c[j] = s[b]
      BY <1>4, <2>1, <3>1 DEF Follows
    <3> QED
      BY <1>1, <1>2, <2>1, <3>1, <3>2
  <2> QED
    BY <2>2, <2>3
<1> QED
  BY <1>3, <1>4 DEF Follows, t, m

LEMMA ElemsAppend ==
  ASSUME NEW s \in Seq(Model), NEW m \in Model
  PROVE  Elems(s) \subseteq Elems(Append(s, m)) /\ m \in Elems(Append(s, m))
<1>1. /\ Len(s) \in Nat /\ DOMAIN s = 1..Len(s)
      /\ DOMAIN Append(s, m) = 1..(Len(s) + 1) /\ Append(s, m)[Len(s) + 1] = m
      /\ \A a \in 1..Len(s) : Append(s, m)[a] = s[a]
  OBVIOUS
<1>2. Len(s) + 1 \in 1..(Len(s) + 1) /\ 1..Len(s) \subseteq 1..(Len(s) + 1)
  BY <1>1
<1> QED
  BY <1>1, <1>2 DEF Elems

\* What is watched of the circuits only shrinks while a request is ordered, and
\* is true at each moment of it.
LEMMA WatchShrinks ==
  ASSUME Watch, TypeOK, NEW w \in Worker, pc[w] # "idle" \/ pc'[w] # "screen"
  PROVE  /\ steady'[w].open \subseteq steady[w].open
         /\ steady'[w].closed \subseteq steady[w].closed
         /\ pc'[w] = "screen" =>
              steady'[w].open \subseteq Open' /\ steady'[w].closed \cap Open' = {}
         /\ pc'[w] # "screen" => steady'[w] = steady[w]
BY DEF Watch

\* A step that leaves the ordering of w alone.
LEMMA ScreenFrame ==
  ASSUME TypeOK, NEW w \in Worker, ScreenInv(w), Watch, pc[w] # "idle" \/ pc'[w] # "screen",
         task'[w] = task[w], screen'[w] = screen[w]
  PROVE  ScreenInv(w)'
<1>1. /\ steady'[w].open \subseteq steady[w].open
      /\ steady'[w].closed \subseteq steady[w].closed
      /\ pc'[w] = "screen" =>
           steady'[w].open \subseteq Open' /\ steady'[w].closed \cap Open' = {}
  BY WatchShrinks
<1> QED
  BY <1>1 DEF ScreenInv

LEMMA QueueFrame ==
  ASSUME TypeOK, NEW w \in Worker, QueueInv(w), pc'[w] = pc[w], outcome'[w] = outcome[w],
         task'[w] = task[w], screen'[w] = screen[w], queue'[w] = queue[w], tried'[w] = tried[w]
  PROVE  QueueInv(w)'
BY DEF QueueInv, OrderDone, Placed, Suitable

LEMMA ScreenKeeps ==
  ASSUME TypeOK, NEW w \in Worker, ScreenInv(w), Watch, Screen(w)
  PROVE  ScreenInv(w)'
<1> DEFINE s == screen[w]
           c == task[w].cand
           n == Len(c)
           k == IF s.asked < n THEN s.asked + 1 ELSE s.asked - n + 1
           m == c[k]
           r == screen'[w]
<1>1. /\ s.asked \in Nat /\ s.healthy \in Seq(Model) /\ s.aside \in Seq(Model)
      /\ c \in Seq(Model) /\ n \in Nat /\ s.asked < 2 * n
      /\ task' = task /\ pc' = pc /\ pc[w] = "screen"
  BY DEF TypeOK, ScreenType, TaskType, Screen
<1>2. k \in 1..n /\ m \in Model
  <2>1. ASSUME ~(s.asked < n) PROVE s.asked - n + 1 \in 1..n
    <3> DEFINE a == s.asked
    <3>1. a \in Nat /\ n \in Nat /\ a < 2 * n /\ ~(a < n)
      BY <1>1, <2>1
    <3>2. a - n + 1 \in 1..n
      <4> HIDE DEF a, n
      <4> QED
        BY <3>1
    <3> QED
      BY <3>2
  <2>2. k \in 1..n
    BY <1>1, <2>1
  <2> HIDE DEF k
  <2> QED
    BY <1>1, <2>2, ElementOfSeq
<1>3. /\ r.asked = s.asked + 1
      /\ r.healthy = IF s.asked < n /\ ~SetAside(m) THEN Append(s.healthy, m) ELSE s.healthy
      /\ r.aside = IF s.asked >= n /\ SetAside(m) THEN Append(s.aside, m) ELSE s.aside
  <2>1. m = IF s.asked < n THEN c[s.asked + 1] ELSE c[s.asked - n + 1]
    OBVIOUS
  <2>2. r = [asked   |-> s.asked + 1,
             healthy |-> IF s.asked < n /\ ~SetAside(m)
                         THEN Append(s.healthy, m) ELSE s.healthy,
             aside   |-> IF s.asked >= n /\ SetAside(m)
                         THEN Append(s.aside, m) ELSE s.aside]
    BY <2>1 DEF Screen, TypeOK
  <2> HIDE DEF m, s, r
  <2> QED
    BY <2>2
<1>4. /\ steady'[w].open \subseteq steady[w].open
      /\ steady'[w].closed \subseteq steady[w].closed
      /\ steady'[w].open \subseteq Open' /\ steady'[w].closed \cap Open' = {}
  BY <1>1, WatchShrinks
<1>5. /\ Distinct(c) /\ s.asked <= 2 * n
      /\ Follows(s.healthy, c, Lesser(s.asked, n))
      /\ Follows(s.aside, c, SecondPass(s.asked, n))
      /\ \A i \in 1..n :
          /\ i <= s.asked /\ c[i] \in steady[w].closed => c[i] \in Elems(s.healthy)
          /\ n + i <= s.asked /\ c[i] \in steady[w].open => c[i] \in Elems(s.aside)
      /\ steady[w].open \subseteq Open /\ steady[w].closed \cap Open = {}
  BY <1>1 DEF ScreenInv
<1>6. (m \in steady[w].closed => ~SetAside(m)) /\ (m \in steady[w].open => SetAside(m))
  BY <1>2, <1>5 DEF Open
<1>7. /\ Elems(s.healthy) \subseteq Elems(r.healthy)
      /\ Elems(s.aside) \subseteq Elems(r.aside)
  BY <1>1, <1>2, <1>3, ElemsAppend
<1>8. /\ s.asked < n /\ ~SetAside(m) => m \in Elems(r.healthy)
      /\ s.asked >= n /\ SetAside(m) => m \in Elems(r.aside)
  BY <1>1, <1>2, <1>3, ElemsAppend
<1> HIDE DEF r
<1>9. CASE s.asked < n
  <2>1. /\ Lesser(s.asked, n) = s.asked /\ Lesser(r.asked, n) = s.asked + 1
        /\ SecondPass(s.asked, n) = 0 /\ SecondPass(r.asked, n) = 0
        /\ m = c[s.asked + 1] /\ k = s.asked + 1
    BY <1>1, <1>3, <1>9 DEF Lesser, SecondPass
  <2>2. Follows(r.healthy, c, s.asked + 1)
    <3>1. Follows(s.healthy, c, s.asked)
      BY <1>5, <2>1
    <3>2. CASE SetAside(m)
      <4>1. s.asked + 1 \in Nat /\ s.asked <= s.asked + 1 /\ r.healthy = s.healthy
        BY <1>1, <1>3, <3>2
      <4> HIDE DEF s, c, m, n
      <4> QED
        BY <1>1, <3>1, <4>1, FollowsLater
    <3>3. CASE ~SetAside(m)
      <4>1. r.healthy = Append(s.healthy, c[s.asked + 1])
        BY <1>3, <1>9, <2>1, <3>3
      <4> QED
        BY <1>1, <1>9, <3>1, <4>1, FollowsAppend
    <3> QED
      BY <3>2, <3>3
  <2>3. r.aside = s.aside
    BY <1>1, <1>3, <1>9
  <2>4. ASSUME NEW i \in 1..n, i <= r.asked, c[i] \in steady'[w].closed
        PROVE  c[i] \in Elems(r.healthy)
    <3>1. CASE i <= s.asked
      BY <1>4, <1>5, <1>7, <2>4, <3>1
    <3>2. CASE ~(i <= s.asked)
      <4>1. i = s.asked + 1
        BY <1>1, <1>3, <2>4, <3>2
      <4> QED
        BY <1>4, <1>6, <1>8, <1>9, <2>1, <2>4, <4>1
    <3> QED
      BY <3>1, <3>2
  <2>5. \A i \in 1..n : ~(n + i <= r.asked)
    BY <1>1, <1>3, <1>9
  <2>6. r.asked <= 2 * n
    BY <1>1, <1>3
  <2> QED
    BY <1>1, <1>4, <1>5, <2>1, <2>2, <2>3, <2>4, <2>5, <2>6 DEF ScreenInv, r
<1>10. CASE s.asked >= n
  <2>1. /\ Lesser(s.asked, n) = n /\ Lesser(r.asked, n) = n
        /\ SecondPass(s.asked, n) = s.asked - n /\ SecondPass(r.asked, n) = s.asked - n + 1
        /\ m = c[s.asked - n + 1] /\ k = s.asked - n + 1 /\ s.asked - n \in Nat
        /\ s.asked - n < n
    <3> DEFINE a == s.asked
               b == r.asked
    <3>1. a \in Nat /\ n \in Nat /\ a >= n /\ a < 2 * n /\ b = a + 1
      BY <1>1, <1>3, <1>10
    <3>2. /\ Lesser(a, n) = n /\ Lesser(b, n) = n
          /\ SecondPass(a, n) = a - n /\ SecondPass(b, n) = a - n + 1
          /\ ~(a < n) /\ a - n \in Nat /\ a - n < n
      <4> HIDE DEF a, b, n
      <4> QED
        BY <3>1 DEF Lesser, SecondPass
    <3> QED
      BY <3>2
  <2>2. Follows(r.aside, c, s.asked - n + 1)
    <3>1. Follows(s.aside, c, s.asked - n)
      BY <1>5, <2>1
    <3>2. CASE ~SetAside(m)
      <4> DEFINE l == s.asked - n
      <4>1. l \in Nat /\ l + 1 \in Nat /\ l <= l + 1 /\ r.aside = s.aside
        BY <1>1, <1>3, <2>1, <3>2
      <4>2. Follows(s.aside, c, l)
        BY <3>1
      <4>3. Follows(s.aside, c, l + 1)
        <5> HIDE DEF s, c, m, n, l
        <5> QED
          BY <4>1, <4>2, FollowsLater
      <4> QED
        BY <4>1, <4>3
    <3>3. CASE SetAside(m)
      <4>1. r.aside = Append(s.aside, c[s.asked - n + 1])
        BY <1>3, <1>10, <2>1, <3>3
      <4> QED
        BY <1>1, <2>1, <3>1, <4>1, FollowsAppend
    <3> QED
      BY <3>2, <3>3
  <2>3. r.healthy = s.healthy
    BY <1>1, <1>3, <1>10
  <2>4. ASSUME NEW i \in 1..n, n + i <= r.asked, c[i] \in steady'[w].open
        PROVE  c[i] \in Elems(r.aside)
    <3>1. CASE n + i <= s.asked
      BY <1>4, <1>5, <1>7, <2>4, <3>1
    <3>2. CASE ~(n + i <= s.asked)
      <4>1. i = s.asked - n + 1
        BY <1>1, <1>3, <2>4, <3>2
      <4> QED
        BY <1>4, <1>6, <1>8, <1>10, <2>1, <2>4, <4>1
    <3> QED
      BY <3>1, <3>2
  <2>5. \A i \in 1..n : i <= s.asked
    BY <1>1, <1>10
  <2>6. r.asked <= 2 * n
    BY <1>1, <1>3
  <2>7. ASSUME NEW i \in 1..n, c[i] \in steady'[w].closed PROVE c[i] \in Elems(r.healthy)
    BY <1>4, <1>5, <1>7, <2>5, <2>7
  <2> QED
    BY <1>1, <1>4, <1>5, <2>1, <2>2, <2>3, <2>4, <2>6, <2>7 DEF ScreenInv, r
<1> QED
  BY <1>1, <1>9, <1>10

LEMMA ElemsConcat ==
  ASSUME NEW s \in Seq(Model), NEW t \in Seq(Model)
  PROVE  /\ Elems(s) \subseteq Elems(s \o t) /\ Elems(t) \subseteq Elems(s \o t)
         /\ \A a, b : Before(s, a, b) => Before(s \o t, a, b)
         /\ \A a, b : Before(t, a, b) => Before(s \o t, a, b)
         /\ \A a \in Elems(s), b \in Elems(t) : Before(s \o t, a, b)
<1> DEFINE u == s \o t
           n == Len(s)
<1>1. /\ n \in Nat /\ Len(t) \in Nat /\ DOMAIN s = 1..n /\ DOMAIN t = 1..Len(t)
      /\ DOMAIN u = 1..(n + Len(t))
      /\ \A i \in 1..n : i \in DOMAIN u /\ u[i] = s[i]
      /\ \A i \in 1..Len(t) : n + i \in DOMAIN u /\ u[n + i] = t[i]
  <2>1. u \in Seq(Model) /\ Len(u) = n + Len(t)
    BY ConcatProperties
  <2>2. \A i \in 1..(n + Len(t)) : u[i] = IF i <= n THEN s[i] ELSE t[i - n]
    BY ConcatProperties
  <2>3. n \in Nat /\ Len(t) \in Nat /\ DOMAIN s = 1..n /\ DOMAIN t = 1..Len(t)
    OBVIOUS
  <2> HIDE DEF u, n
  <2> DEFINE l == Len(t)
  <2>4. l \in Nat /\ n \in Nat /\ \A i \in 1..(n + l) : u[i] = IF i <= n THEN s[i] ELSE t[i - n]
    BY <2>2, <2>3
  <2>5. DOMAIN u = 1..(n + l)
    BY <2>1
  <2> HIDE DEF l
  <2>6. \A i \in 1..n : i \in 1..(n + l) /\ u[i] = s[i]
    BY <2>4
  <2>7. \A i \in 1..l : n + i \in 1..(n + l) /\ u[n + i] = t[i]
    <3> TAKE i \in 1..l
    <3>1. n + i \in 1..(n + l) /\ ~(n + i <= n) /\ n + i - n = i
      BY <2>4
    <3> QED
      BY <2>4, <3>1
  <2> QED
    BY <2>3, <2>5, <2>6, <2>7 DEF l
<1> HIDE DEF u, n
<1>2. Elems(s) \subseteq Elems(u) /\ Elems(t) \subseteq Elems(u)
  BY <1>1 DEF Elems
<1>3. ASSUME NEW a, NEW b, Before(s, a, b) PROVE Before(u, a, b)
  BY <1>1, <1>3 DEF Before
<1>4. ASSUME NEW a, NEW b, Before(t, a, b) PROVE Before(u, a, b)
  <2>1. PICK i \in 1..Len(t), j \in 1..Len(t) : i < j /\ t[i] = a /\ t[j] = b
    BY <1>1, <1>4 DEF Before
  <2>2. n + i < n + j
    BY <1>1, <2>1
  <2> QED
    BY <1>1, <2>1, <2>2 DEF Before
<1>5. ASSUME NEW a \in Elems(s), NEW b \in Elems(t) PROVE Before(u, a, b)
  <2>1. PICK i \in 1..n, j \in 1..Len(t) : s[i] = a /\ t[j] = b
    BY <1>1 DEF Elems
  <2>2. i < n + j
    BY <1>1, <2>1
  <2> QED
    BY <1>1, <2>1, <2>2 DEF Before
<1> QED
  BY <1>2, <1>3, <1>4, <1>5 DEF u

LEMMA FollowsOrder ==
  ASSUME NEW s \in Seq(Model), NEW c \in Seq(Model), NEW k \in Nat, k <= Len(c),
         Distinct(c), Follows(s, c, k), NEW i \in DOMAIN c, NEW j \in DOMAIN c, i < j,
         c[i] \in Elems(s), c[j] \in Elems(s)
  PROVE  Before(s, c[i], c[j])
<1>1. PICK a \in DOMAIN s, b \in DOMAIN s : s[a] = c[i] /\ s[b] = c[j]
  BY DEF Elems
<1>2. /\ DOMAIN s = 1..Len(s) /\ Len(s) \in Nat /\ DOMAIN c = 1..Len(c) /\ Len(c) \in Nat
      /\ 1..k \subseteq DOMAIN c
  OBVIOUS
<1>3. a # b
  BY <1>1, <1>2 DEF Distinct
<1>4. ASSUME b < a PROVE FALSE
  <2>0. \A p, q \in DOMAIN s :
           p < q => \E x, y \in 1..k : x < y /\ c[x] = s[p] /\ c[y] = s[q]
    BY Zenon DEF Follows
  <2>1. PICK x \in 1..k, y \in 1..k : x < y /\ c[x] = c[j] /\ c[y] = c[i]
    BY <1>1, <1>4, <2>0
  <2>2. x \in DOMAIN c /\ y \in DOMAIN c
    BY <1>2
  <2>3. x = j /\ y = i
    BY <2>1, <2>2 DEF Distinct
  <2> QED
    BY <1>2, <2>1, <2>3
<1>5. a < b
  BY <1>2, <1>3, <1>4
<1> QED
  BY <1>1, <1>5 DEF Before

\* What an ordering that is done has done: the steadily closed candidates are in
\* the first list, the steadily open ones in the second.
LEMMA BothLists ==
  ASSUME TypeOK, NEW w \in Worker, ScreenInv(w), OrderDone(w)
  PROVE  /\ \A m \in Elems(task[w].cand) \cap steady[w].closed : m \in Elems(screen[w].healthy)
         /\ \A m \in Elems(task[w].cand) \cap steady[w].open : m \in Elems(screen[w].aside)
<1> DEFINE s == screen[w]
           c == task[w].cand
           n == Len(c)
<1>1. c \in Seq(Model) /\ n \in Nat /\ s.asked = 2 * n /\ DOMAIN c = 1..n
  BY DEF TypeOK, TaskType, OrderDone
<1>2. \A i \in 1..n :
         /\ i <= s.asked /\ c[i] \in steady[w].closed => c[i] \in Elems(s.healthy)
         /\ n + i <= s.asked /\ c[i] \in steady[w].open => c[i] \in Elems(s.aside)
  BY DEF ScreenInv
<1>3. \A i \in 1..n : i <= s.asked /\ n + i <= s.asked
  BY <1>1
<1> HIDE DEF s, c, n
<1>4. \A i \in DOMAIN c :
         /\ c[i] \in steady[w].closed => c[i] \in Elems(s.healthy)
         /\ c[i] \in steady[w].open => c[i] \in Elems(s.aside)
  BY <1>1, <1>2, <1>3
<1>5. /\ \A m \in Elems(c) \cap steady[w].closed : m \in Elems(s.healthy)
      /\ \A m \in Elems(c) \cap steady[w].open : m \in Elems(s.aside)
  BY <1>4 DEF Elems
<1> QED
  BY <1>5 DEF s, c

LEMMA NeitherLost ==
  ASSUME TypeOK, NEW w \in Worker, ScreenInv(w), OrderDone(w),
         NEW m \in Elems(task[w].cand), m \in steady[w].open \cup steady[w].closed
  PROVE  m \in Elems(Placed(w))
<1>1. screen[w].healthy \in Seq(Model) /\ screen[w].aside \in Seq(Model)
  BY DEF TypeOK, ScreenType
<1> QED
  BY <1>1, BothLists, ElemsConcat DEF Placed, Order

LEMMA ScreenGivesOrder ==
  ASSUME TypeOK, \A w \in Worker : ScreenInv(w)
  PROVE  SteadyOrder
<1> SUFFICES
      ASSUME NEW w \in Worker, OrderDone(w)
      PROVE  LET c == task[w].cand
                 o == Placed(w)
                 open == steady[w].open
                 closed == steady[w].closed
             IN /\ \A m \in Elems(c) \cap (open \cup closed) : m \in Elems(o)
                /\ \A m \in Elems(c) \cap closed, n \in Elems(c) \cap open : Before(o, m, n)
                /\ \A i, j \in DOMAIN c :
                     i < j /\ ({c[i], c[j]} \subseteq open \/ {c[i], c[j]} \subseteq closed)
                       => Before(o, c[i], c[j])
  BY DEF SteadyOrder
<1> DEFINE h == screen[w].healthy
           a == screen[w].aside
           c == task[w].cand
           open == steady[w].open
           closed == steady[w].closed
<1>1. h \in Seq(Model) /\ a \in Seq(Model) /\ c \in Seq(Model) /\ Len(c) \in Nat
  BY DEF TypeOK, ScreenType, TaskType
<1>2. /\ \A m \in Elems(c) \cap closed : m \in Elems(h)
      /\ \A m \in Elems(c) \cap open : m \in Elems(a)
  BY BothLists
<1>3. \A m \in Elems(c) \cap (open \cup closed) : m \in Elems(Placed(w))
  BY NeitherLost
<1>4. \A m \in Elems(c) \cap closed, n \in Elems(c) \cap open : Before(Placed(w), m, n)
  BY <1>1, <1>2, ElemsConcat DEF Placed, Order
<1>5. /\ Distinct(c)
      /\ Follows(h, c, Len(c)) /\ Follows(a, c, Len(c))
  <2>1. /\ Distinct(c) /\ Follows(h, c, Lesser(screen[w].asked, Len(c)))
        /\ Follows(a, c, SecondPass(screen[w].asked, Len(c)))
    BY DEF ScreenInv
  <2>2. screen[w].asked = 2 * Len(c)
    BY DEF OrderDone
  <2> DEFINE n == Len(c)
  <2>3. Lesser(2 * n, n) = n /\ SecondPass(2 * n, n) = n
    <3>1. n \in Nat
      BY <1>1
    <3> HIDE DEF n
    <3> QED
      BY <3>1 DEF Lesser, SecondPass
  <2> QED
    BY <2>1, <2>2, <2>3
<1>6. ASSUME NEW i \in DOMAIN c, NEW j \in DOMAIN c, i < j,
             {c[i], c[j]} \subseteq open \/ {c[i], c[j]} \subseteq closed
      PROVE  Before(Placed(w), c[i], c[j])
  <2>1. c[i] \in Elems(c) /\ c[j] \in Elems(c)
    BY DEF Elems
  <2>2. Len(c) <= Len(c)
    BY <1>1
  <2>3. CASE {c[i], c[j]} \subseteq open
    <3>1. c[i] \in Elems(a) /\ c[j] \in Elems(a)
      BY <1>2, <2>1, <2>3
    <3>2. Before(a, c[i], c[j])
      <4> HIDE DEF a, c
      <4> QED
        BY <1>1, <1>5, <1>6, <2>2, <3>1, FollowsOrder
    <3> QED
      BY <1>1, <3>2, ElemsConcat DEF Placed, Order
  <2>4. CASE {c[i], c[j]} \subseteq closed
    <3>1. c[i] \in Elems(h) /\ c[j] \in Elems(h)
      BY <1>2, <2>1, <2>4
    <3>2. Before(h, c[i], c[j])
      <4> HIDE DEF h, c
      <4> QED
        BY <1>1, <1>5, <1>6, <2>2, <3>1, FollowsOrder
    <3> QED
      BY <1>1, <3>2, ElemsConcat DEF Placed, Order
  <2> QED
    BY <1>6, <2>3, <2>4
<1> QED
  BY <1>3, <1>4, <1>6

LEMMA ScreenInit == Init => \A w \in Worker : ScreenInv(w)
<1> SUFFICES ASSUME Init, NEW w \in Worker PROVE ScreenInv(w)
  OBVIOUS
<1>1. task[w].cand = <<>> /\ screen[w] = NoScreen /\ pc[w] = "idle"
  BY DEF Init, NoTask
<1>2. /\ screen[w].asked = 0 /\ screen[w].healthy = <<>> /\ screen[w].aside = <<>>
      /\ Len(task[w].cand) = 0 /\ Distinct(task[w].cand)
  BY <1>1 DEF NoScreen, Distinct
<1>3. Lesser(0, 0) = 0 /\ SecondPass(0, 0) = 0 /\ \A i \in 1..0 : FALSE /\ 0 <= 2 * 0
  BY DEF Lesser, SecondPass
<1> QED
  BY <1>1, <1>2, <1>3, FollowsNothing DEF ScreenInv

\* A thread whose request is not being ordered, or not by this step.
LEMMA ScreenLeftAlone ==
  ASSUME TypeOK, Step, NEW w \in Worker, ~Start(w), ~Screen(w)
  PROVE  /\ pc[w] # "idle" \/ pc'[w] # "screen"
         /\ task'[w] = task[w] /\ screen'[w] = screen[w]
<1> USE DEF health, bucket, request, history, quietC, Goto, End
<1>1. CASE Tick
  BY <1>1 DEF Tick
<1>2. ASSUME NEW v \in Worker, Start(v) \/ Screen(v), v # w
      PROVE  pc'[w] = pc[w] /\ task'[w] = task[w] /\ screen'[w] = screen[w]
  BY <1>2 DEF Start, Screen, TypeOK
<1>3. ASSUME NEW v \in Worker,
             Ordered(v) \/ ReadClock(v) \/ ReadStamp(v) \/ Refill(v) \/ Take(v)
      PROVE  /\ pc'[v] # "screen" /\ (v # w => pc'[w] = pc[w])
             /\ task' = task /\ screen' = screen
  BY <1>3 DEF Ordered, ReadClock, ReadStamp, Refill, Take, TypeOK
<1>4. ASSUME NEW v \in Worker,
             Skip(v) \/ Call(v) \/ BuildFails(v) \/ Exhausted(v) \/ Fragment(v)
               \/ Abandon(v) \/ CallFails(v) \/ CallSucceeds(v)
      PROVE  /\ pc'[v] # "screen" /\ (v # w => pc'[w] = pc[w])
             /\ task' = task /\ screen' = screen
  BY <1>4 DEF Skip, Call, BuildFails, Exhausted, Fragment, Abandon, CallFails,
     CallSucceeds, TypeOK
<1>5. ASSUME pc'[w] = pc[w] PROVE pc[w] # "idle" \/ pc'[w] # "screen"
  BY <1>5
<1> QED
  BY <1>1, <1>2, <1>3, <1>4, <1>5 DEF Step, Serve

LEMMA ScreenStart ==
  ASSUME TypeOK, Watch, NEW w \in Worker, Start(w) PROVE ScreenInv(w)'
<1>1. PICK q \in Request : task' = [task EXCEPT ![w] = q]
  BY DEF Start
<1>2. task'[w] = q /\ screen'[w] = NoScreen /\ pc'[w] = "screen"
  BY <1>1 DEF Start, Goto, TypeOK
<1>3. Distinct(q.cand) /\ Len(q.cand) \in Nat
  BY ModelAssumption DEF TaskType
<1>4. PICK n \in Nat : n = Len(task'[w].cand)
  BY <1>2, <1>3
<1>5. Lesser(0, n) = 0 /\ SecondPass(0, n) = 0
      /\ \A i \in 1..n : ~(i <= 0) /\ ~(n + i <= 0)
  BY DEF Lesser, SecondPass
<1>6. /\ screen'[w].asked = 0 /\ screen'[w].healthy = <<>> /\ screen'[w].aside = <<>>
  BY <1>2 DEF NoScreen
<1>7. 0 <= 2 * n
  OBVIOUS
<1>8. steady'[w].open = Open' /\ steady'[w].closed = Model \ Open'
  BY <1>2 DEF Watch, Start
<1> QED
  BY <1>2, <1>3, <1>4, <1>5, <1>6, <1>7, <1>8, FollowsNothing DEF ScreenInv

LEMMA ScreenStep ==
  ASSUME TypeOK, \A w \in Worker : ScreenInv(w), [Next]_vars
  PROVE  \A w \in Worker : ScreenInv(w)'
<1>1. CASE UNCHANGED vars
  BY <1>1 DEF vars, health, request, ScreenInv, Open, SetAside
<1>2. CASE Next
  <2> TAKE w \in Worker
  <2>1. Step /\ Watch
    BY <1>2 DEF Next
  <2>2. CASE Start(w)
    BY <2>1, <2>2, ScreenStart
  <2>3. CASE Screen(w)
    BY <2>1, <2>3, ScreenKeeps
  <2>4. CASE ~Start(w) /\ ~Screen(w)
    <3>1. /\ pc[w] # "idle" \/ pc'[w] # "screen"
          /\ task'[w] = task[w] /\ screen'[w] = screen[w]
      BY <2>1, <2>4, ScreenLeftAlone
    <3> QED
      BY <2>1, <3>1, ScreenFrame
  <2> QED
    BY <2>2, <2>3, <2>4
<1> QED
  BY <1>1, <1>2

----------------------------------------------------------------------------
(* What becomes of the ordered candidates.                                 *)

LEMMA ElemsHeadTail ==
  ASSUME NEW s \in Seq(Model), s # <<>>, NEW m \in Elems(s), m # Head(s)
  PROVE  m \in Elems(Tail(s))
<1>1. PICK i \in DOMAIN s : s[i] = m
  BY DEF Elems
<1>2. i \in 1..Len(s) /\ i # 1 /\ Len(s) \in Nat
  BY <1>1
<1>3. i - 1 \in 1..(Len(s) - 1) /\ i - 1 + 1 = i
  BY <1>2
<1>4. DOMAIN Tail(s) = 1..(Len(s) - 1) /\ \A j \in 1..(Len(s) - 1) : Tail(s)[j] = s[j + 1]
  BY <1>2, HeadTailProperties
<1> QED
  BY <1>1, <1>3, <1>4 DEF Elems

LEMMA QueueInit == Init => (\A w \in Worker : QueueInv(w)) /\ FailsOnlyAfterTrying
BY DEF Init, QueueInv, FailsOnlyAfterTrying

\* The thread has taken no step of its own, or one that keeps its queue.
LEMMA QueueKept ==
  ASSUME TypeOK, NEW w \in Worker, QueueInv(w), pc[w] \notin {"idle", "screen"},
         outcome'[w] = outcome[w], task'[w] = task[w], screen'[w] = screen[w],
         queue'[w] = queue[w], tried[w] \subseteq tried'[w]
  PROVE  QueueInv(w)'
BY DEF QueueInv, OrderDone, Placed, Suitable

\* The first candidate of the queue is dropped: not suitable, or called.
LEMMA QueueDrops ==
  ASSUME TypeOK, NEW w \in Worker, QueueInv(w), pc[w] \notin {"idle", "screen"},
         queue[w] # <<>>, ~Suitable(w, Head(queue[w])) \/ Head(queue[w]) \in tried[w],
         outcome'[w] = outcome[w], task'[w] = task[w], screen'[w] = screen[w],
         queue'[w] = Tail(queue[w]), tried'[w] = tried[w]
  PROVE  QueueInv(w)'
<1>1. queue[w] \in Seq(Model)
  BY DEF TypeOK
<1>2. \A m \in Elems(queue[w]) : m = Head(queue[w]) \/ m \in Elems(queue'[w])
  BY <1>1, ElemsHeadTail
<1>3. \A m : Suitable(w, m)' <=> Suitable(w, m)
  BY DEF Suitable
<1>4. OrderDone(w)' /\ Placed(w)' = Placed(w) /\ outcome'[w] = "none"
  BY DEF QueueInv, OrderDone, Placed
<1>5. \A m \in Elems(Placed(w)) :
         m \in Elems(queue[w]) \/ ~Suitable(w, m) \/ m \in tried[w]
  BY DEF QueueInv
<1>6. \A m \in Elems(Placed(w)) :
         m \in Elems(queue'[w]) \/ ~Suitable(w, m) \/ m \in tried[w]
  BY <1>2, <1>5
<1> QED
  BY <1>3, <1>4, <1>6 DEF QueueInv

LEMMA QueueStep ==
  ASSUME TypeOK, VoiceInv, NEW w \in Worker, QueueInv(w), [Next]_vars
  PROVE  QueueInv(w)'
<1> USE DEF health, bucket, request, history, quietC, Goto, End
<1>1. CASE UNCHANGED vars
  BY <1>1 DEF vars, QueueInv, OrderDone, Placed, Suitable
<1>2. CASE Tick
  BY <1>2, QueueFrame DEF Tick
<1>3. ASSUME NEW v \in Worker, Start(v) \/ Serve(v) \/ Fragment(v) \/ Abandon(v), v # w
      PROVE  QueueInv(w)'
  <2>1. CASE Start(v) \/ Screen(v) \/ Ordered(v) \/ Skip(v) \/ Call(v) \/ Fragment(v)
               \/ Abandon(v)
    BY <1>3, <2>1, QueueFrame DEF Start, Screen, Ordered, Skip, Call, Fragment, Abandon, TypeOK
  <2>2. CASE ReadClock(v) \/ ReadStamp(v) \/ Refill(v) \/ Take(v)
    BY <1>3, <2>2, QueueFrame DEF ReadClock, ReadStamp, Refill, Take, TypeOK
  <2>3. CASE BuildFails(v) \/ Exhausted(v) \/ CallFails(v) \/ CallSucceeds(v)
    BY <1>3, <2>3, QueueFrame DEF BuildFails, Exhausted, CallFails, CallSucceeds, TypeOK
  <2> QED
    BY <1>3, <2>1, <2>2, <2>3 DEF Serve
<1>4. CASE Start(w)
  BY <1>4 DEF Start, QueueInv, TypeOK
<1>5. CASE Screen(w)
  BY <1>5 DEF Screen, QueueInv, TypeOK
<1>6. CASE Ordered(w)
  <2>1. pc'[w] = "idle" \/ (pc'[w] = "clock" /\ outcome'[w] = outcome[w])
    BY <1>6 DEF Ordered, TypeOK
  <2>2. OrderDone(w)' /\ queue'[w] = Placed(w)' /\ pc[w] = "screen"
    BY <1>6 DEF Ordered, OrderDone, Placed, TypeOK
  <2> QED
    BY <2>1, <2>2 DEF QueueInv
<1>7. CASE ReadClock(w) \/ ReadStamp(w) \/ Refill(w)
  <2>1. pc[w] \notin {"idle", "screen"} /\ UNCHANGED <<outcome, task, screen, queue, tried>>
    BY <1>7 DEF ReadClock, ReadStamp, Refill
  <2> QED
    BY <2>1, QueueKept
<1>8. ASSUME pc'[w] = "idle" PROVE QueueInv(w)'
  BY <1>8 DEF QueueInv
<1>9. CASE Take(w)
  <2>1. pc[w] = "take" /\ UNCHANGED <<task, screen, queue, tried>>
    BY <1>9 DEF Take
  <2>2. pc'[w] = "idle" \/ outcome' = outcome
    BY <1>9 DEF Take, TypeOK
  <2> QED
    BY <1>8, <2>1, <2>2, QueueKept
<1>10. CASE Skip(w)
  <2>1. /\ pc[w] = "next" /\ queue[w] # <<>> /\ ~Suitable(w, Head(queue[w]))
        /\ UNCHANGED <<outcome, task, screen, tried>> /\ queue'[w] = Tail(queue[w])
    BY <1>10 DEF Skip, TypeOK
  <2> QED
    BY <2>1, QueueDrops
<1>11. CASE Call(w)
  <2>1. /\ pc[w] = "next" /\ UNCHANGED <<outcome, task, screen, queue>>
        /\ tried[w] \subseteq tried'[w]
    BY <1>11 DEF Call, TypeOK
  <2> QED
    BY <2>1, QueueKept
<1>12. CASE BuildFails(w) \/ Exhausted(w) \/ Abandon(w) \/ CallSucceeds(w)
  <2>1. pc'[w] = "idle"
    BY <1>12 DEF BuildFails, Exhausted, Abandon, CallSucceeds, TypeOK
  <2> QED
    BY <1>8, <2>1
<1>13. CASE Fragment(w)
  <2>1. pc[w] = "call" /\ UNCHANGED <<outcome, task, screen, queue, tried>>
    BY <1>13 DEF Fragment
  <2> QED
    BY <2>1, QueueKept
<1>14. CASE CallFails(w)
  <2>1. pc[w] = "call" /\ UNCHANGED <<task, screen, tried>>
    BY <1>14 DEF CallFails
  <2>2. queue[w] # <<>> /\ Head(queue[w]) \in tried[w]
    BY <2>1 DEF VoiceInv
  <2>3. pc'[w] = "idle" \/ (outcome' = outcome /\ queue'[w] = Tail(queue[w]))
    BY <1>14 DEF CallFails, TypeOK
  <2> QED
    BY <1>8, <2>1, <2>2, <2>3, QueueDrops
<1> QED
  BY <1>1, <1>2, <1>3, <1>4, <1>5, <1>6, <1>7, <1>9, <1>10, <1>11, <1>12, <1>13,
     <1>14 DEF Next, Step, Serve

LEMMA TriedStep ==
  ASSUME TypeOK, VoiceInv, OrderInv, [Next]_vars PROVE FailsOnlyAfterTrying'
<1> USE DEF health, bucket, request, history, quietC, Goto, End
<1>1. CASE UNCHANGED vars
  BY <1>1 DEF vars, OrderInv, FailsOnlyAfterTrying, Suitable
<1>2. CASE Next
  <2> SUFFICES ASSUME NEW w \in Worker, outcome'[w] \in {"allfailed", "nomodel"},
                      NEW m \in Elems(task'[w].cand),
                      m \in steady'[w].open \cup steady'[w].closed, Suitable(w, m)'
               PROVE  m \in tried'[w]
    BY DEF FailsOnlyAfterTrying
  <2>1. QueueInv(w) /\ ScreenInv(w) /\ FailsOnlyAfterTrying
    BY DEF OrderInv
  <2>2. QueueInv(w)'
    BY <1>2, <2>1, QueueStep
  <2>3. pc'[w] = "idle"
    BY <2>2 DEF QueueInv
  <2>4. steady'[w] = steady[w]
    BY <1>2, <2>3 DEF Next, Watch
  <2>5. ASSUME task'[w] = task[w]
        PROVE  /\ m \in Elems(task[w].cand) /\ Suitable(w, m)
               /\ m \in steady[w].open \cup steady[w].closed
    BY <2>4, <2>5 DEF Suitable
  <2>6. ASSUME outcome'[w] = outcome[w], task'[w] = task[w], tried'[w] = tried[w]
        PROVE  m \in tried'[w]
    BY <2>1, <2>5, <2>6 DEF FailsOnlyAfterTrying
  <2>7. CASE Tick
    BY <2>6, <2>7 DEF Tick
  <2>8. ASSUME NEW v \in Worker, Start(v) \/ Serve(v) \/ Fragment(v) \/ Abandon(v), v # w
        PROVE  outcome'[w] = outcome[w] /\ task'[w] = task[w] /\ tried'[w] = tried[w]
    <3>1. CASE Start(v) \/ Screen(v) \/ Ordered(v) \/ Skip(v) \/ Call(v) \/ Fragment(v)
                 \/ Abandon(v)
      BY <2>8, <3>1 DEF Start, Screen, Ordered, Skip, Call, Fragment, Abandon, TypeOK
    <3>2. CASE ReadClock(v) \/ ReadStamp(v) \/ Refill(v) \/ Take(v)
      BY <2>8, <3>2 DEF ReadClock, ReadStamp, Refill, Take, TypeOK
    <3>3. CASE BuildFails(v) \/ Exhausted(v) \/ CallFails(v) \/ CallSucceeds(v)
      BY <2>8, <3>3 DEF BuildFails, Exhausted, CallFails, CallSucceeds, TypeOK
    <3> QED
      BY <2>8, <3>1, <3>2, <3>3 DEF Serve
  <2>9. ASSUME Start(w) \/ Screen(w) \/ ReadClock(w) \/ ReadStamp(w) \/ Refill(w)
                 \/ Skip(w) \/ Call(w) \/ Fragment(w)
        PROVE  FALSE
    BY <2>3, <2>9 DEF Start, Screen, ReadClock, ReadStamp, Refill, Skip, Call,
       Fragment, TypeOK
  <2>10. ASSUME Take(w) \/ BuildFails(w) \/ CallFails(w) \/ CallSucceeds(w) \/ Abandon(w)
         PROVE  FALSE
    BY <2>3, <2>10 DEF Take, BuildFails, CallFails, CallSucceeds, Abandon, TypeOK
  <2>11. CASE Ordered(w)
    <3>1. task'[w] = task[w] /\ OrderDone(w)
      BY <2>11 DEF Ordered, OrderDone
    <3>2. m \in Elems(Placed(w))
      BY <2>1, <2>5, <3>1, NeitherLost
    <3>3. Placed(w) = <<>>
      BY <2>3, <2>11 DEF Ordered, Placed, TypeOK
    <3> QED
      BY <3>2, <3>3 DEF Elems
  <2>12. CASE Exhausted(w)
    <3>1. /\ task'[w] = task[w] /\ tried'[w] = tried[w] /\ pc[w] = "next"
          /\ queue[w] = <<>>
      BY <2>12 DEF Exhausted
    <3>2. OrderDone(w)
      BY <2>1, <3>1 DEF QueueInv
    <3>3. m \in Elems(Placed(w))
      BY <2>1, <2>5, <3>1, <3>2, NeitherLost
    <3>4. m \notin Elems(queue[w])
      BY <3>1 DEF Elems
    <3> QED
      BY <2>1, <2>5, <3>1, <3>3, <3>4 DEF QueueInv
  <2> QED
    BY <1>2, <2>6, <2>7, <2>8, <2>9, <2>10, <2>11, <2>12 DEF Next, Step, Serve
<1> QED
  BY <1>1, <1>2

LEMMA OrderStep == TypeOK /\ VoiceInv /\ OrderInv /\ [Next]_vars => OrderInv'
<1> SUFFICES ASSUME TypeOK, VoiceInv, OrderInv, [Next]_vars PROVE OrderInv'
  OBVIOUS
<1>1. \A w \in Worker : ScreenInv(w)'
  BY ScreenStep DEF OrderInv
<1>2. \A w \in Worker : QueueInv(w)'
  BY QueueStep DEF OrderInv
<1> QED
  BY <1>1, <1>2, TriedStep DEF OrderInv

----------------------------------------------------------------------------
(* The theorems.                                                           *)

LEMMA Inductive == Spec => [](TypeOK /\ RouterInv /\ OrderInv)
<1>1. Init => TypeOK /\ RouterInv /\ OrderInv
  BY InitType, VoiceInit, BucketInit, ScreenInit, QueueInit DEF RouterInv, OrderInv
<1>2. TypeOK /\ RouterInv /\ OrderInv /\ [Next]_vars => (TypeOK /\ RouterInv /\ OrderInv)'
  BY NextType, VoiceStep, BucketStep, OrderStep DEF RouterInv
<1> QED
  BY <1>1, <1>2, PTL DEF Spec

\* Every variable keeps its type; the bucket never exceeds its capacity, though
\* RateLimiter.acquire takes no lock.
THEOREM TypeCorrect == Spec => []TypeOK
BY Inductive, PTL

\* The inductive invariant of the router.
THEOREM Invariance == Spec => []RouterInv
BY Inductive, PTL

\* No caller is ever given an answer glued together from two models
\* (complete_stream), however often the models fail.
THEOREM VoiceSafe == Spec => []OneVoice
<1>1. RouterInv => OneVoice
  BY DEF RouterInv, VoiceInv, OneVoice
<1> QED
  BY <1>1, Inductive, PTL

\* The token bucket admits no more than its capacity and what time adds, as
\* long as no two threads have met in it.
THEOREM LimitSafe == Spec => []LimitHolds
<1>1. TypeOK /\ RouterInv => LimitHolds
  BY LimitAssumption DEF RouterInv, BucketInv, LimitHolds, TypeOK
<1> QED
  BY <1>1, Inductive, PTL

\* The candidates keep the order of the selection, the closed circuits before the
\* open ones, and none is lost (uporzadkuj), whatever the other threads report
\* between its questions.
THEOREM OrderSafe == Spec => []SteadyOrder
<1>1. TypeOK /\ OrderInv => SteadyOrder
  BY ScreenGivesOrder DEF OrderInv
<1> QED
  BY <1>1, Inductive, PTL

\* A request is given up, or turned away for want of a model, only when each
\* suitable candidate whose circuit stayed as it was has been called.
THEOREM TriedSafe == Spec => []FailsOnlyAfterTrying
<1>1. OrderInv => FailsOnlyAfterTrying
  BY DEF OrderInv
<1> QED
  BY <1>1, Inductive, PTL

\* The breaker learns from nothing but calls that were made.
THEOREM BreakerSafe == Spec => OnlyCallsCount
<1>1. TypeOK /\ [Next]_vars =>
        [\A m \in Model :
           <<fails[m], lastFail[m]>>' # <<fails[m], lastFail[m]>> =>
             \E w \in Worker :
               pc[w] = "call" /\ Head(queue[w]) = m /\ pc'[w] # "call"]_vars
  <2> SUFFICES ASSUME TypeOK, [Next]_vars, NEW m \in Model,
                      ~(fails'[m] = fails[m] /\ lastFail'[m] = lastFail[m])
               PROVE  \E w \in Worker :
                        pc[w] = "call" /\ Head(queue[w]) = m /\ pc'[w] # "call"
    OBVIOUS
  <2>1. ~UNCHANGED health
    BY DEF health
  <2>2. PICK w \in Worker : CallFails(w) \/ CallSucceeds(w)
    BY <2>1 DEF Next, Step, Serve, vars, health, quietC, Tick, Start, Screen, Ordered,
       ReadClock, ReadStamp, Refill, Take, Skip, Call, BuildFails, Exhausted,
       Fragment, Abandon
  <2>3. pc[w] = "call" /\ pc'[w] # "call"
    BY <2>2 DEF CallFails, CallSucceeds, Goto, End, TypeOK
  <2>4. Head(queue[w]) = m
    BY <2>2 DEF CallFails, CallSucceeds, ReportFailure, ReportSuccess, TypeOK
  <2> QED
    BY <2>3, <2>4
<1> QED
  BY <1>1, Inductive, PTL DEF OnlyCallsCount, Spec
============================================================================
