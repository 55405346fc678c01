------------------------- MODULE OrchestratorProofs -------------------------
(***************************************************************************)
(* Proofs about Orchestrator, for any number of steps, threads, agents,    *)
(* tool calls and requests.                                                *)
(***************************************************************************)
EXTENDS OrchestratorInv, SequenceTheorems, FiniteSetTheorems, TLAPS

LEMMA SlotSource == Slot \subseteq Source /\ 0 \in Source /\ 0 \notin Slot
BY BoundAssumption DEF Slot, Source

LEMMA PaidFinite == IsFiniteSet(Paid) /\ Cardinality(Paid) \in Nat
<1>1. IsFiniteSet(Slot)
  BY BoundAssumption, FS_Interval DEF Slot
<1>2. IsFiniteSet(Paid)
  BY <1>1, FS_Subset DEF Paid
<1> QED
  BY <1>2, FS_CardinalityType

\* With the request back at its orchestrator the pool is empty.
LEMMA PoolEmpty ==
  ASSUME OrchestratorInv, phase \notin {"delegate", "unwind"}
  PROVE  /\ \A i \in Slot : stage[i] = "none" /\ seen[i] = None /\ own[i] = 0
         /\ Paid = {}
BY DEF OrchestratorInv, StageInv, LockInv, OwnInv, Paid

\* With an empty pool the books agree when the budget is full.
LEMMA EmptyBooks ==
  ASSUME \A i \in Slot : stage'[i] = "none" /\ seen'[i] = None /\ own'[i] = 0,
         \/ phase' = "idle"
         \/ /\ budget' \in Nat /\ calls' \in Nat /\ budget' + calls' = MaxCalls
            /\ meter' = used' /\ meter' \in [Source -> Nat]
  PROVE  OrchestratorInv'
<1>1. Paid' = {}
  BY DEF Paid
<1>2. Cardinality(Paid') = 0
  BY <1>1, FS_EmptySet
<1>3. BudgetExact'
  BY <1>2 DEF BudgetExact
<1>4. MeterExact'
  BY DEF MeterExact
<1> QED
  BY <1>3, <1>4 DEF OrchestratorInv, StageInv, LockInv, OwnInv

\* A step that goes on without touching the budget, the meter or its tokens.
LEMMA QuietMove ==
  ASSUME TypeOK, OrchestratorInv, NEW i \in Slot, NEW to \in Stage,
         stage[i] \notin {"none", "spend", "dispatch", "ready"},
         to \notin {"none", "queued", "dispatch"},
         to = "ready" => own[i] = 0,
         stage[i] = "meter" => own[i] = 0,
         stage' = [stage EXCEPT ![i] = to],
         UNCHANGED <<phase, steps, next, own, seen, lock, budget, meter, used, calls>>
  PROVE  OrchestratorInv'
<1>0. stage \in [Slot -> Stage]
  BY DEF TypeOK, PoolType
<1>1. StageInv'
  BY <1>0 DEF OrchestratorInv, StageInv
<1>2. LockInv'
  BY <1>0 DEF OrchestratorInv, LockInv
<1>3. OwnInv'
  BY <1>0 DEF OrchestratorInv, OwnInv
<1>4. Paid' = Paid
  BY <1>0 DEF Paid
<1>5. BudgetExact'
  BY <1>4 DEF OrchestratorInv, BudgetExact
<1>6. MeterExact'
  BY DEF OrchestratorInv, MeterExact
<1> QED
  BY <1>1, <1>2, <1>3, <1>5, <1>6 DEF OrchestratorInv

\* A step whose question was answered.
LEMMA CostsMove ==
  ASSUME TypeOK, OrchestratorInv, NEW i \in Slot, NEW t \in Nat, NEW to \in Stage,
         stage[i] \in {"ask", "loop"},
         to \notin {"none", "queued", "dispatch", "ready"},
         Costs(i, t),
         stage' = [stage EXCEPT ![i] = to],
         UNCHANGED <<phase, steps, next, seen, lock, budget, meter, calls>>
  PROVE  OrchestratorInv'
<1>0. /\ stage \in [Slot -> Stage] /\ own \in [Slot -> Nat]
      /\ used \in [Source -> Nat] /\ meter \in [Source -> Nat]
  BY DEF TypeOK, PoolType, BookType, HistoryType
<1>1. StageInv'
  BY <1>0 DEF OrchestratorInv, StageInv
<1>2. LockInv'
  BY <1>0 DEF OrchestratorInv, LockInv, Costs
<1>3. OwnInv'
  BY <1>0 DEF OrchestratorInv, OwnInv, Costs
<1>4. Paid' = Paid
  BY <1>0 DEF Paid
<1>5. BudgetExact'
  BY <1>4 DEF OrchestratorInv, BudgetExact
<1>6. MeterExact'
  <2>1. own' = [own EXCEPT ![i] = own[i] + t] /\ used' = [used EXCEPT ![i] = used[i] + t]
    BY DEF Costs
  <2> SUFFICES ASSUME phase # "idle", NEW s \in Source
               PROVE  meter[s] + (IF s \in Slot THEN own'[s] ELSE 0) = used'[s]
    BY DEF MeterExact
  <2>2. meter[s] + (IF s \in Slot THEN own[s] ELSE 0) = used[s]
    BY DEF OrchestratorInv, MeterExact
  <2> QED
    BY <1>0, <2>1, <2>2, SlotSource
<1> QED
  BY <1>1, <1>2, <1>3, <1>5, <1>6 DEF OrchestratorInv

LEMMA SpendReadKeeps ==
  ASSUME TypeOK, OrchestratorInv, NEW i \in Slot, SpendRead(i)
  PROVE  OrchestratorInv'
<1>1. StageInv' /\ OwnInv' /\ MeterExact'
  BY DEF OrchestratorInv, StageInv, OwnInv, MeterExact, SpendRead, apart, history
<1>2. LockInv'
  <2>1. lock \in [{"budget", "meter"} -> {0} \cup Slot] /\ DOMAIN seen = Slot
    BY DEF TypeOK, PoolType
  <2> SUFFICES ASSUME NEW j \in Slot, seen'[j] # None
               PROVE  \/ stage[j] = "spend" /\ lock'["budget"] = j /\ seen'[j] = budget
                      \/ /\ stage[j] = "meter" /\ lock'["meter"] = j
                         /\ seen'[j] = meter /\ own[j] > 0
    BY DEF LockInv, SpendRead, apart
  <2>2. CASE j = i
    BY <2>1, <2>2 DEF SpendRead
  <2>3. CASE j # i
    <3>1. seen'[j] = seen[j]
      BY <2>1, <2>3 DEF SpendRead
    <3>2. lock["budget"] # j
      BY SlotSource DEF SpendRead
    <3> QED
      BY <2>1, <3>1, <3>2 DEF OrchestratorInv, LockInv, SpendRead
  <2> QED
    BY <2>2, <2>3
<1>3. BudgetExact'
  BY DEF OrchestratorInv, BudgetExact, Paid, SpendRead, apart, history
<1> QED
  BY <1>1, <1>2, <1>3 DEF OrchestratorInv

LEMMA SpendWriteKeeps ==
  ASSUME TypeOK, OrchestratorInv, NEW i \in Slot, SpendWrite(i)
  PROVE  OrchestratorInv'
<1>0. stage \in [Slot -> Stage] /\ budget \in Nat /\ calls \in Nat
  BY DEF TypeOK, PoolType, BookType, HistoryType
<1>1. StageInv' /\ OwnInv' /\ MeterExact'
  BY <1>0 DEF OrchestratorInv, StageInv, OwnInv, MeterExact, SpendWrite, apart, history
<1>2. LockInv'
  BY <1>0 DEF OrchestratorInv, LockInv, SpendWrite, apart, TypeOK, PoolType
<1>3. seen[i] = budget
  BY DEF OrchestratorInv, LockInv, SpendWrite
<1>4. BudgetExact'
  <2>1. CASE budget > 0
    <3>1. Paid' = Paid \cup {i} /\ i \notin Paid
      BY <1>0, <1>3, <2>1 DEF Paid, SpendWrite
    <3>2. Cardinality(Paid') = Cardinality(Paid) + 1
      BY <3>1, PaidFinite, FS_AddElement
    <3> QED
      BY <1>0, <1>3, <2>1, <3>2, PaidFinite, BoundAssumption
      DEF OrchestratorInv, BudgetExact, SpendWrite, apart, history
  <2>2. CASE ~(budget > 0)
    <3>1. Paid' = Paid
      BY <1>0, <1>3, <2>2 DEF Paid, SpendWrite
    <3> QED
      BY <1>3, <2>2, <3>1 DEF OrchestratorInv, BudgetExact, SpendWrite, apart, history
  <2> QED
    BY <2>1, <2>2
<1> QED
  BY <1>1, <1>2, <1>4 DEF OrchestratorInv

LEMMA DispatchKeeps ==
  ASSUME TypeOK, OrchestratorInv, NEW i \in Slot, Dispatch(i)
  PROVE  OrchestratorInv' /\ calls < MaxCalls
<1>0. stage \in [Slot -> Stage] /\ budget \in Nat /\ calls \in Nat
  BY DEF TypeOK, PoolType, BookType, HistoryType
<1>1. StageInv' /\ OwnInv' /\ LockInv' /\ MeterExact'
  BY <1>0 DEF OrchestratorInv, StageInv, OwnInv, LockInv, MeterExact, Dispatch, Fails, apart
<1>2. Paid' = Paid \ {i} /\ i \in Paid
  BY <1>0 DEF Paid, Dispatch, Fails
<1>3. Cardinality(Paid') = Cardinality(Paid) - 1 /\ Cardinality(Paid') \in Nat
  <2>1. Cardinality(Paid') = Cardinality(Paid) - 1 /\ IsFiniteSet(Paid')
    BY <1>2, PaidFinite, FS_RemoveElement
  <2> QED
    BY <2>1, FS_CardinalityType
<1>4. phase # "idle"
  BY <1>2 DEF OrchestratorInv, StageInv, Dispatch
<1>5. BudgetExact' /\ calls < MaxCalls
  BY <1>0, <1>3, <1>4, PaidFinite, BoundAssumption
  DEF OrchestratorInv, BudgetExact, Dispatch, apart
<1> QED
  BY <1>1, <1>5 DEF OrchestratorInv

LEMMA MeterReadKeeps ==
  ASSUME TypeOK, OrchestratorInv, NEW i \in Slot, MeterRead(i)
  PROVE  OrchestratorInv'
<1>1. StageInv' /\ OwnInv' /\ MeterExact'
  BY DEF OrchestratorInv, StageInv, OwnInv, MeterExact, MeterRead, apart, history
<1>2. LockInv'
  <2>1. lock \in [{"budget", "meter"} -> {0} \cup Slot] /\ DOMAIN seen = Slot
    BY DEF TypeOK, PoolType
  <2> SUFFICES ASSUME NEW j \in Slot, seen'[j] # None
               PROVE  \/ stage[j] = "spend" /\ lock'["budget"] = j /\ seen'[j] = budget
                      \/ /\ stage[j] = "meter" /\ lock'["meter"] = j
                         /\ seen'[j] = meter /\ own[j] > 0
    BY DEF LockInv, MeterRead, apart
  <2>2. CASE j = i
    BY <2>1, <2>2 DEF MeterRead
  <2>3. CASE j # i
    <3>1. seen'[j] = seen[j]
      BY <2>1, <2>3 DEF MeterRead
    <3>2. lock["meter"] # j
      BY SlotSource DEF MeterRead
    <3> QED
      BY <2>1, <3>1, <3>2 DEF OrchestratorInv, LockInv, MeterRead
  <2> QED
    BY <2>2, <2>3
<1>3. BudgetExact'
  BY DEF OrchestratorInv, BudgetExact, Paid, MeterRead, apart, history
<1> QED
  BY <1>1, <1>2, <1>3 DEF OrchestratorInv

LEMMA MeterWriteKeeps ==
  ASSUME TypeOK, OrchestratorInv, NEW i \in Slot, MeterWrite(i)
  PROVE  OrchestratorInv'
<1>0. /\ stage \in [Slot -> Stage] /\ own \in [Slot -> Nat]
      /\ used \in [Source -> Nat] /\ meter \in [Source -> Nat]
  BY DEF TypeOK, PoolType, BookType, HistoryType
<1>1. StageInv' /\ OwnInv'
  BY <1>0 DEF OrchestratorInv, StageInv, OwnInv, MeterWrite, apart
<1>2. LockInv'
  BY <1>0 DEF OrchestratorInv, LockInv, MeterWrite, apart, TypeOK, PoolType
<1>3. seen[i] = meter
  BY DEF OrchestratorInv, LockInv, MeterWrite
<1>4. Paid' = Paid
  BY <1>0 DEF Paid, MeterWrite
<1>5. BudgetExact'
  BY <1>4 DEF OrchestratorInv, BudgetExact, MeterWrite, apart, history
<1>6. MeterExact'
  <2>1. /\ meter' = [meter EXCEPT ![i] = meter[i] + own[i]]
        /\ own' = [own EXCEPT ![i] = 0] /\ used' = used /\ phase' = phase
    BY <1>3 DEF MeterWrite, apart, history
  <2> SUFFICES ASSUME phase # "idle", NEW s \in Source
               PROVE  meter'[s] + (IF s \in Slot THEN own'[s] ELSE 0) = used[s]
    BY <2>1 DEF MeterExact
  <2>2. meter[s] + (IF s \in Slot THEN own[s] ELSE 0) = used[s]
    BY DEF OrchestratorInv, MeterExact
  <2> QED
    BY <1>0, <2>1, <2>2, SlotSource
<1> QED
  BY <1>1, <1>2, <1>5, <1>6 DEF OrchestratorInv

LEMMA DelegateKeeps ==
  ASSUME TypeOK, OrchestratorInv, NEW i \in Slot, Delegate(i)
  PROVE  OrchestratorInv'
<1>0. Tokens \subseteq Nat /\ stage \in [Slot -> Stage] /\ own \in [Slot -> Nat]
  BY BoundAssumption DEF TypeOK, PoolType
<1>1. stage[i] \in {"queued"} => own[i] = 0
  BY DEF OrchestratorInv, OwnInv
<1>2. CASE SkipUnknown(i) \/ Withhold(i)
  BY <1>1, <1>2, QuietMove
  DEF SkipUnknown, Withhold, Turn, Ready, history, Stage
<1>3. CASE GateFails(i) \/ Start(i)
  <2>1. PICK to \in {"failed", "loop", "ask"} : stage' = [stage EXCEPT ![i] = to]
    BY <1>3 DEF GateFails, Start, Fails
  <2> QED
    BY <1>3, <2>1, QuietMove DEF GateFails, Start, Turn, history, Stage
<1>4. CASE RaiseInStep(i)
  BY <1>4, QuietMove DEF RaiseInStep, Fails, apart, history, Stage
<1>5. ASSUME NEW t \in Tokens, Ask(i, t) \/ Final(i, t)
      PROVE  OrchestratorInv'
  <2>1. /\ stage[i] \in {"ask", "loop"} /\ Costs(i, t)
        /\ stage' = [stage EXCEPT ![i] = "meter"]
        /\ UNCHANGED <<phase, steps, next, seen, lock, budget, meter, calls>>
    BY <1>5 DEF Ask, Final, apart, unspent
  <2> QED
    BY <1>0, <2>1, CostsMove DEF Stage
<1>6. ASSUME NEW t \in Tokens, Malformed(i, t) \/ Action(i, t)
      PROVE  OrchestratorInv'
  <2>1. /\ stage[i] = "loop" /\ Costs(i, t)
        /\ UNCHANGED <<phase, steps, next, seen, lock, budget, meter, calls>>
    BY <1>6 DEF Malformed, Action, apart, unspent
  <2>2. PICK to \in {"loop", "limit", "deny", "spend"} : stage' = [stage EXCEPT ![i] = to]
    BY <1>6 DEF Malformed, Action, Turned
  <2> QED
    BY <1>0, <2>1, <2>2, CostsMove DEF Stage
<1>7. CASE Deny(i) \/ Note(i)
  <2>1. PICK to \in {"loop", "limit", "failed"} : stage' = [stage EXCEPT ![i] = to]
    BY <1>7 DEF Deny, Note, Turned, Fails
  <2>2. /\ stage[i] \in {"deny", "note"}
        /\ UNCHANGED <<phase, steps, next, own, seen, lock, budget, meter, used, calls>>
    BY <1>7 DEF Deny, Note, apart, history
  <2> QED
    BY <2>1, <2>2, QuietMove DEF Stage
<1>8. CASE Stop(i)
  <2>1. PICK to \in {"meter", "failed"} : stage' = [stage EXCEPT ![i] = to]
    BY <1>8 DEF Stop, Fails
  <2>2. /\ stage[i] \in {"cut", "limit"}
        /\ UNCHANGED <<phase, steps, next, own, seen, lock, budget, meter, used, calls>>
    BY <1>8 DEF Stop, apart, history
  <2> QED
    BY <2>1, <2>2, QuietMove DEF Stage
<1>9. CASE MeterNothing(i)
  BY <1>9, QuietMove DEF MeterNothing, apart, history, Stage
<1> QED
  BY <1>2, <1>3, <1>4, <1>5, <1>6, <1>7, <1>8, <1>9, SpendReadKeeps, SpendWriteKeeps,
     DispatchKeeps, MeterReadKeeps, MeterWriteKeeps DEF Delegate

----------------------------------------------------------------------------
(* The thread of the request.                                              *)

LEMMA AskedBooks ==
  ASSUME TypeOK, OrchestratorInv, phase \in {"plan", "reflect", "synth", "charge"}
  PROVE  /\ meter = used /\ budget + calls = MaxCalls
         /\ \A t \in Nat : Asked(t) => meter' = used' /\ meter' \in [Source -> Nat]
<1>0. meter \in [Source -> Nat] /\ used \in [Source -> Nat] /\ budget \in Nat /\ calls \in Nat
  BY DEF TypeOK, BookType, HistoryType
<1>1. (\A i \in Slot : own[i] = 0) /\ Cardinality(Paid) = 0
  BY PoolEmpty, FS_EmptySet
<1>2. \A s \in Source : meter[s] = used[s]
  BY <1>0, <1>1 DEF OrchestratorInv, MeterExact
<1>3. meter = used
  BY <1>0, <1>2
<1>4. budget + calls = MaxCalls
  BY <1>0, <1>1 DEF OrchestratorInv, BudgetExact
<1> QED
  BY <1>0, <1>3, <1>4, SlotSource DEF Asked

LEMMA BatchKeeps ==
  ASSUME TypeOK, OrchestratorInv, phase \in {"plan", "reflect"},
         NEW t \in Nat, NEW plan, NEW of, Asked(t), Batch(plan, of),
         UNCHANGED <<lock, budget, calls>>
  PROVE  OrchestratorInv'
<1>1. meter' = used' /\ meter' \in [Source -> Nat] /\ budget + calls = MaxCalls
  BY AskedBooks
<1>2. \A i \in Slot : /\ stage'[i] = IF i <= Len(steps') THEN "queued" ELSE "none"
                      /\ seen'[i] = None /\ own'[i] = 0
  BY DEF Batch
<1>3. StageInv' /\ LockInv' /\ OwnInv'
  BY <1>2 DEF StageInv, LockInv, OwnInv, Batch, Slot
<1>4. Cardinality(Paid') = 0
  <2>1. Paid' = {}
    BY <1>2 DEF Paid
  <2> QED
    BY <2>1, FS_EmptySet
<1>5. BudgetExact'
  BY <1>1, <1>4 DEF BudgetExact, TypeOK, BookType, HistoryType
<1>6. MeterExact'
  BY <1>1, <1>2 DEF MeterExact
<1> QED
  BY <1>3, <1>5, <1>6 DEF OrchestratorInv

LEMMA ServeKeeps ==
  ASSUME TypeOK, OrchestratorInv, Serve
  PROVE  OrchestratorInv'
<1>0. /\ Tokens \subseteq Nat /\ stage \in [Slot -> Stage] /\ own \in [Slot -> Nat]
      /\ budget \in Nat /\ calls \in Nat
  BY BoundAssumption DEF TypeOK, PoolType, BookType, HistoryType
<1>1. CASE AskFails \/ Charge \/ ChargeFails
  BY <1>1, PoolEmpty, EmptyBooks DEF AskFails, Charge, ChargeFails, End, pool
<1>2. ASSUME NEW t \in Tokens, NEW p \in Plans, Plan(p, t)
      PROVE  OrchestratorInv'
  BY <1>0, <1>2, BatchKeeps DEF Plan
<1>3. ASSUME NEW t \in Tokens, NEW e \in Extras, Reflect(e, t)
      PROVE  OrchestratorInv'
  <2>1. CASE e # <<>>
    BY <1>0, <1>3, <2>1, BatchKeeps DEF Reflect
  <2>2. CASE e = <<>>
    <3>1. phase = "reflect" /\ UNCHANGED <<stage, seen, own, budget, calls>> /\ Asked(t)
      BY <1>3, <2>2 DEF Reflect
    <3> QED
      BY <1>0, <3>1, PoolEmpty, AskedBooks, EmptyBooks
  <2> QED
    BY <2>1, <2>2
<1>4. ASSUME NEW t \in Tokens, Synthesize(t)
      PROVE  OrchestratorInv'
  <2>1. phase = "synth" /\ UNCHANGED <<stage, seen, own, budget, calls>> /\ Asked(t)
    BY <1>4 DEF Synthesize, pool
  <2> QED
    BY <1>0, <2>1, PoolEmpty, AskedBooks, EmptyBooks
<1>5. CASE Collect
  <2>0. next \in Slot /\ next \in Nat
    BY <1>5, BoundAssumption DEF Collect, TypeOK, PoolType, Slot
  <2>1. StageInv' /\ LockInv' /\ OwnInv'
    BY <1>0, <1>5, <2>0
    DEF Collect, OrchestratorInv, StageInv, LockInv, OwnInv, Slot
  <2>2. Paid' = Paid
    BY <1>0, <1>5, <2>0 DEF Collect, Paid
  <2>3. BudgetExact' /\ MeterExact'
    BY <1>5, <2>2 DEF Collect, OrchestratorInv, BudgetExact, MeterExact, history
  <2> QED
    BY <2>1, <2>3 DEF OrchestratorInv
<1>6. CASE RoundOver
  <2>1. \A i \in Slot : stage[i] = "none" /\ own[i] = 0 /\ seen[i] = None
    BY <1>6 DEF RoundOver, OrchestratorInv, StageInv, OwnInv, LockInv, TypeOK, PoolType, Slot
  <2>2. \A i \in Slot : stage'[i] = "none" /\ own'[i] = 0 /\ seen'[i] = None
    BY <1>6, <2>1 DEF RoundOver, Forget
  <2>3. Paid = {} /\ Paid' = {}
    BY <2>1, <2>2 DEF Paid
  <2>4. BudgetExact' /\ MeterExact'
    BY <1>6, <2>1, <2>2, <2>3
    DEF RoundOver, OrchestratorInv, BudgetExact, MeterExact, history
  <2> QED
    BY <2>2, <2>4 DEF OrchestratorInv, StageInv, LockInv, OwnInv
<1>7. CASE NoticeFailure
  <2>1. StageInv' /\ LockInv' /\ OwnInv'
    BY <1>0, <1>7 DEF NoticeFailure, OrchestratorInv, StageInv, LockInv, OwnInv, books
  <2>2. Paid' = Paid
    BY <1>0, <1>7 DEF NoticeFailure, Paid
  <2>3. BudgetExact' /\ MeterExact'
    BY <1>7, <2>2
    DEF NoticeFailure, OrchestratorInv, BudgetExact, MeterExact, books, history
  <2> QED
    BY <2>1, <2>3 DEF OrchestratorInv
<1>8. CASE Unwind
  <2>1. \A i \in Slot : seen[i] = None
    BY <1>8 DEF Unwind, Running, OrchestratorInv, LockInv
  <2>2. \A i \in Slot : stage'[i] = "none" /\ own'[i] = 0 /\ seen'[i] = None
    BY <1>8, <2>1 DEF Unwind, Forget
  <2> QED
    BY <1>8, <2>2, EmptyBooks DEF Unwind, End
<1> QED
  BY <1>1, <1>2, <1>3, <1>4, <1>5, <1>6, <1>7, <1>8 DEF Serve

LEMMA RequestKeeps ==
  ASSUME TypeOK, OrchestratorInv, Request
  PROVE  OrchestratorInv'
<1>1. \A i \in Slot : stage'[i] = "none" /\ own'[i] = 0 /\ seen'[i] = None
  BY PoolEmpty DEF Request, pool
<1>2. /\ budget' \in Nat /\ calls' \in Nat /\ budget' + calls' = MaxCalls
      /\ meter' = used' /\ meter' \in [Source -> Nat]
  BY BoundAssumption DEF Request, NoTokens
<1> QED
  BY <1>1, <1>2, EmptyBooks

----------------------------------------------------------------------------
(* Type correctness.                                                       *)

LEMMA InitType == Init => TypeOK /\ OrchestratorInv
<1> SUFFICES ASSUME Init PROVE TypeOK /\ OrchestratorInv
  OBVIOUS
<1>1. PoolType
  BY BoundAssumption DEF Init, PoolType, Stage, Result
<1>2. NoTokens \in [Source -> Nat] /\ NoTally \in Counts
  BY DEF NoTokens, NoTally, Counts
<1>3. BookType
  BY <1>2, BoundAssumption DEF Init, BookType
<1>4. HistoryType
  BY <1>2 DEF Init, HistoryType
<1>5. TypeOK
  BY <1>1, <1>3, <1>4 DEF Init, TypeOK, Phase
<1>6. OrchestratorInv
  <2>1. Cardinality(Paid) = 0
    <3>1. Paid = {}
      BY DEF Init, Paid
    <3> QED
      BY <3>1, FS_EmptySet
  <2> QED
    BY DEF Init, OrchestratorInv, StageInv, LockInv, OwnInv, BudgetExact, MeterExact
<1> QED
  BY <1>5, <1>6

\* The stage of a step, its result and its log after a turn.
LEMMA TurnedType ==
  ASSUME TypeOK, NEW i \in Slot, NEW kind \in Kind, Turned(i, kind)
  PROVE  stage' \in [Slot -> Stage] /\ log' \in [Slot -> Seq(Kind)]
BY DEF TypeOK, PoolType, Turned, Stage

LEMMA OutcomeType ==
  ASSUME TypeOK, NEW i \in Slot, NEW how \in Result, Ready(i, how) \/ Fails(i, how)
  PROVE  stage' \in [Slot -> Stage] /\ result' \in [Slot -> Result]
<1>1. stage \in [Slot -> Stage] /\ result \in [Slot -> Result]
  BY DEF TypeOK, PoolType
<1>2. "ready" \in Stage /\ "failed" \in Stage
  BY DEF Stage
<1> QED
  BY <1>1, <1>2 DEF Ready, Fails

LEMMA TalliedType ==
  ASSUME TypeOK, NEW fields, Tallied(fields)
  PROVE  tally' \in Counts
<1> DEFINE Field == {"delegations", "planUnknown", "unknown", "skippedRoe", "roeDenied"}
<1>1. tally \in Counts
  BY DEF TypeOK, BookType
<1>2. DOMAIN tally = Field /\ \A f \in Field : tally[f] \in Nat
  BY <1>1 DEF Counts
<1>3. tally' = [f \in Field |-> tally[f] + IF f \in fields \cup {"delegations"} THEN 1 ELSE 0]
  BY <1>2 DEF Tallied
<1>4. tally' \in [Field -> Nat]
  BY <1>2, <1>3
<1>5. tally' = [delegations |-> tally'["delegations"], planUnknown |-> tally'["planUnknown"],
                unknown |-> tally'["unknown"], skippedRoe |-> tally'["skippedRoe"],
                roeDenied |-> tally'["roeDenied"]]
  BY <1>4
<1>6. \A f \in Field : tally'[f] \in Nat
  BY <1>4
<1> QED
  BY <1>5, <1>6 DEF Counts

LEMMA RecordedType ==
  ASSUME TypeOK, NEW turns \in Seq(Kind), Recorded(turns)
  PROVE  records' \in [toolCalls : Nat, run : {None} \cup Run]
<1> DEFINE C == {k \in DOMAIN turns : turns[k] = "call"}
<1>1. Len(turns) \in Nat /\ DOMAIN turns = 1..Len(turns)
  BY LenProperties
<1>2. IsFiniteSet(1..Len(turns)) /\ C \in SUBSET (1..Len(turns))
  BY <1>1, FS_Interval
<1>3. IsFiniteSet(C)
  BY <1>2, FS_Subset
<1>4. Cardinality(C) \in Nat
  BY <1>3, FS_CardinalityType
<1>5. records' = [records EXCEPT !.toolCalls = records.toolCalls + Cardinality(C)]
  BY DEF Recorded
<1> HIDE DEF C
<1>6. records \in [toolCalls : Nat, run : {None} \cup Run]
  BY DEF TypeOK, BookType
<1> QED
  BY <1>4, <1>5, <1>6

LEMMA CostsType ==
  ASSUME TypeOK, NEW i \in Slot, NEW t \in Nat, Costs(i, t), UNCHANGED unspent
  PROVE  own' \in [Slot -> Nat] /\ HistoryType'
<1>1. own \in [Slot -> Nat] /\ used \in [Source -> Nat] /\ i \in Source
  BY SlotSource DEF TypeOK, PoolType, HistoryType
<1>2. own[i] + t \in Nat /\ used[i] + t \in Nat
  BY <1>1
<1>3. own' \in [Slot -> Nat] /\ used' \in [Source -> Nat]
  BY <1>1, <1>2 DEF Costs
<1> QED
  BY <1>3 DEF TypeOK, HistoryType, unspent

\* What a step leaves alone keeps its type.
LEMMA ApartType ==
  ASSUME TypeOK, UNCHANGED apart,
         stage' \in [Slot -> Stage], result' \in [Slot -> Result],
         own' \in [Slot -> Nat], log' \in [Slot -> Seq(Kind)], DOMAIN seen' = Slot,
         lock' \in [{"budget", "meter"} -> {0} \cup Slot],
         budget' \in Nat, meter' \in [Source -> Nat],
         records' \in [toolCalls : Nat, run : {None} \cup Run], HistoryType'
  PROVE  TypeOK'
<1>1. PoolType'
  BY DEF TypeOK, PoolType, apart
<1>2. BookType'
  BY DEF TypeOK, BookType, apart
<1> QED
  BY <1>1, <1>2 DEF TypeOK, apart

\* The pieces of the type that the actions of a step change.
LEMMA Pieces ==
  ASSUME TypeOK
  PROVE  /\ stage \in [Slot -> Stage] /\ result \in [Slot -> Result]
         /\ own \in [Slot -> Nat] /\ log \in [Slot -> Seq(Kind)] /\ DOMAIN seen = Slot
         /\ lock \in [{"budget", "meter"} -> {0} \cup Slot]
         /\ budget \in Nat /\ meter \in [Source -> Nat]
         /\ records \in [toolCalls : Nat, run : {None} \cup Run]
         /\ (UNCHANGED history => HistoryType')
BY DEF TypeOK, PoolType, BookType, HistoryType, history

LEMMA DelegateType ==
  ASSUME TypeOK, OrchestratorInv, NEW i \in Slot, Delegate(i)
  PROVE  TypeOK'
<1>0. Tokens \subseteq Nat /\ i \in Source
  BY BoundAssumption, SlotSource
<1>1. CASE SkipUnknown(i) \/ Withhold(i) \/ GateFails(i)
  <2>1. stage' \in [Slot -> Stage] /\ result' \in [Slot -> Result]
    BY <1>1, OutcomeType DEF SkipUnknown, Withhold, GateFails, Result
  <2>2. tally' \in Counts
    BY <1>1, TalliedType DEF SkipUnknown, Withhold, GateFails
  <2> QED
    BY <1>1, <2>1, <2>2 DEF TypeOK, PoolType, BookType, HistoryType,
       SkipUnknown, Withhold, GateFails, history
<1>2. CASE Start(i)
  <2>1. tally' \in Counts
    BY <1>2, TalliedType DEF Start
  <2> QED
    BY <1>2, <2>1 DEF TypeOK, PoolType, BookType, HistoryType, Start, history, Stage
<1>3. CASE RaiseInStep(i)
  <2>1. stage' \in [Slot -> Stage] /\ result' \in [Slot -> Result]
    BY <1>3, OutcomeType DEF RaiseInStep, Result
  <2> QED
    BY <1>3, <2>1, Pieces, ApartType DEF RaiseInStep
<1>4. ASSUME NEW t \in Tokens, Ask(i, t)
      PROVE  TypeOK'
  <2>1. own' \in [Slot -> Nat] /\ HistoryType'
    BY <1>0, <1>4, CostsType DEF Ask
  <2>2. stage' \in [Slot -> Stage] /\ result' \in [Slot -> Result]
    BY <1>4, Pieces DEF Ask, Stage, Result
  <2> QED
    BY <1>4, <2>1, <2>2, Pieces, ApartType DEF Ask
<1>5. ASSUME NEW t \in Tokens, Final(i, t)
      PROVE  TypeOK'
  <2>1. records' \in [toolCalls : Nat, run : {None} \cup Run]
    BY <1>5, RecordedType, Pieces DEF Final
  <2>2. own' \in [Slot -> Nat] /\ HistoryType'
    BY <1>0, <1>5, CostsType DEF Final
  <2>3. /\ stage' \in [Slot -> Stage] /\ result' \in [Slot -> Result]
        /\ log' \in [Slot -> Seq(Kind)]
    BY <1>5, Pieces DEF Final, Stage, Result
  <2> QED
    BY <1>5, <2>1, <2>2, <2>3, Pieces, ApartType DEF Final
<1>6. ASSUME NEW t \in Tokens, Malformed(i, t)
      PROVE  TypeOK'
  <2>1. stage' \in [Slot -> Stage] /\ log' \in [Slot -> Seq(Kind)]
    BY <1>6, TurnedType DEF Malformed, Kind
  <2>2. own' \in [Slot -> Nat] /\ HistoryType'
    BY <1>0, <1>6, CostsType DEF Malformed
  <2> QED
    BY <1>6, <2>1, <2>2, Pieces, ApartType DEF Malformed
<1>7. ASSUME NEW t \in Tokens, Action(i, t)
      PROVE  TypeOK'
  <2>1. stage' \in [Slot -> Stage]
    BY <1>7, Pieces DEF Action, Stage
  <2>2. own' \in [Slot -> Nat] /\ HistoryType'
    BY <1>0, <1>7, CostsType DEF Action
  <2> QED
    BY <1>7, <2>1, <2>2, Pieces, ApartType DEF Action
<1>8. CASE Deny(i) \/ Note(i)
  <2>1. stage' \in [Slot -> Stage] /\ log' \in [Slot -> Seq(Kind)] /\ result' \in [Slot -> Result]
    <3>1. CASE (Turned(i, "denied") \/ Turned(i, "call")) /\ UNCHANGED result
      BY <3>1, TurnedType, Pieces DEF Kind
    <3>2. CASE Fails(i, "audit") /\ UNCHANGED log
      BY <3>2, OutcomeType, Pieces DEF Result
    <3> QED
      BY <1>8, <3>1, <3>2 DEF Deny, Note
  <2>2. HistoryType'
    BY <1>8 DEF TypeOK, HistoryType, Deny, Note, history
  <2> QED
    BY <1>8, <2>1, <2>2, Pieces, ApartType DEF Deny, Note
<1>9. CASE SpendRead(i) \/ MeterRead(i) \/ MeterNothing(i)
  <2>1. stage' \in [Slot -> Stage]
    BY <1>9, Pieces DEF SpendRead, MeterRead, MeterNothing, Stage
  <2>2. DOMAIN seen' = Slot /\ lock' \in [{"budget", "meter"} -> {0} \cup Slot]
    BY <1>9, Pieces DEF SpendRead, MeterRead, MeterNothing
  <2> QED
    BY <1>9, <2>1, <2>2, Pieces, ApartType DEF SpendRead, MeterRead, MeterNothing
<1>10. CASE SpendWrite(i)
  <2>1. seen[i] = budget
    BY <1>10 DEF OrchestratorInv, LockInv, SpendWrite
  <2>2. stage' \in [Slot -> Stage] /\ budget' \in Nat
    <3>1. \E to \in {"dispatch", "cut"} : stage' = [stage EXCEPT ![i] = to]
      BY <1>10 DEF SpendWrite
    <3>2. budget' = IF budget > 0 THEN budget - 1 ELSE budget
      BY <1>10, <2>1 DEF SpendWrite
    <3>3. stage \in [Slot -> Stage] /\ budget \in Nat
      BY Pieces
    <3> QED
      BY <3>1, <3>2, <3>3 DEF Stage
  <2>3. DOMAIN seen' = Slot /\ lock' \in [{"budget", "meter"} -> {0} \cup Slot]
    BY <1>10, Pieces DEF SpendWrite
  <2> QED
    BY <1>10, <2>2, <2>3, Pieces, ApartType DEF SpendWrite
<1>11. CASE Dispatch(i)
  <2>1. stage' \in [Slot -> Stage]
    BY <1>11, Pieces DEF Dispatch, Fails, Stage
  <2>2. result' \in [Slot -> Result]
    BY <1>11, Pieces DEF Dispatch, Fails, Result
  <2>3. HistoryType'
    BY <1>11 DEF Dispatch, TypeOK, HistoryType
  <2> QED
    BY <1>11, <2>1, <2>2, <2>3, Pieces, ApartType DEF Dispatch
<1>12. CASE Stop(i)
  <2>1. stage' \in [Slot -> Stage] /\ result' \in [Slot -> Result]
    <3>1. CASE Fails(i, "audit")
      BY <3>1, OutcomeType DEF Result
    <3>2. CASE ~Fails(i, "audit")
      <4>1. stage[i] \in Result /\ "meter" \in Stage
        BY <1>12 DEF Stop, Result, Stage
      <4> QED
        <5>1. /\ stage' = [stage EXCEPT ![i] = "meter"]
              /\ result' = [result EXCEPT ![i] = stage[i]]
          BY <1>12, <3>2 DEF Stop
        <5>2. stage \in [Slot -> Stage] /\ result \in [Slot -> Result]
          BY Pieces
        <5> QED
          BY <4>1, <5>1, <5>2
    <3> QED
      BY <3>1, <3>2
  <2>2. CASE Fails(i, "audit") /\ UNCHANGED <<log, records>>
    BY <1>12, <2>1, <2>2, Pieces, ApartType DEF Stop
  <2>3. CASE ~(Fails(i, "audit") /\ UNCHANGED <<log, records>>)
    <3>1. records' \in [toolCalls : Nat, run : {None} \cup Run]
      BY <1>12, <2>3, RecordedType, Pieces DEF Stop
    <3>2. log' \in [Slot -> Seq(Kind)]
      <4>1. log' = [log EXCEPT ![i] = <<>>] /\ <<>> \in Seq(Kind)
        BY <1>12, <2>3 DEF Stop
      <4>2. log \in [Slot -> Seq(Kind)]
        BY Pieces
      <4> QED
        BY <4>1, <4>2
    <3> QED
      BY <1>12, <2>1, <3>1, <3>2, Pieces, ApartType DEF Stop
  <2> QED
    BY <2>2, <2>3
<1>13. CASE MeterWrite(i)
  <2>1. seen[i] = meter
    BY <1>13 DEF OrchestratorInv, LockInv, MeterWrite
  <2>2. meter' \in [Source -> Nat] /\ own' \in [Slot -> Nat] /\ stage' \in [Slot -> Stage]
    BY <1>0, <1>13, <2>1, Pieces DEF MeterWrite, Stage
  <2>3. DOMAIN seen' = Slot /\ lock' \in [{"budget", "meter"} -> {0} \cup Slot]
    BY <1>13, Pieces DEF MeterWrite
  <2> QED
    BY <1>13, <2>2, <2>3, Pieces, ApartType DEF MeterWrite
<1> QED
  BY <1>1, <1>2, <1>3, <1>4, <1>5, <1>6, <1>7, <1>8, <1>9, <1>10, <1>11, <1>12, <1>13
  DEF Delegate

LEMMA CutType ==
  ASSUME NEW plan \in Seq(Name)
  PROVE  Cut(plan) \in Seq(Name) /\ Len(Cut(plan)) <= MaxPlanSteps
<1>1. Len(plan) \in Nat /\ MaxPlanSteps \in Nat
  BY LenProperties, BoundAssumption
<1>2. CASE Len(plan) <= MaxPlanSteps
  BY <1>2 DEF Cut
<1>3. CASE ~(Len(plan) <= MaxPlanSteps)
  <2>1. \A k \in 1..MaxPlanSteps : plan[k] \in Name
    BY <1>1, <1>3, ElementOfSeq
  <2>2. /\ SubSeq(plan, 1, MaxPlanSteps) \in Seq(Name)
        /\ Len(SubSeq(plan, 1, MaxPlanSteps)) = MaxPlanSteps
    BY <1>1, <1>3, <2>1, SubSeqProperties, BoundAssumption
  <2> QED
    BY <1>1, <1>3, <2>2 DEF Cut
<1> QED
  BY <1>2, <1>3

LEMMA BatchType ==
  ASSUME TypeOK, NEW plan \in Seq(Name), NEW of \in BOOLEAN, Batch(plan, of), UNCHANGED lock
  PROVE  PoolType' /\ phase' \in Phase /\ planned' \in Seq(Name)
<1>1. Cut(plan) \in Seq(Name) /\ Len(Cut(plan)) <= MaxPlanSteps
  BY CutType
<1>2. planned \o Cut(plan) \in Seq(Name)
  BY <1>1, ConcatProperties DEF TypeOK, HistoryType
<1> QED
  BY <1>1, <1>2 DEF Batch, TypeOK, PoolType, Phase, Stage, Result

LEMMA ForgetType ==
  ASSUME TypeOK, Forget, UNCHANGED <<seen, lock>>
  PROVE  PoolType'
BY BoundAssumption DEF Forget, TypeOK, PoolType, Stage, Result

LEMMA EndType ==
  ASSUME TypeOK, NEW how \in {"refused", "crashed"}, End(how)
  PROVE  HistoryType'
<1>1. count \in [orchestrations : Nat, failures : Nat]
  BY DEF TypeOK, HistoryType
<1>2. count' \in [orchestrations : Nat, failures : Nat]
  BY <1>1 DEF End
<1> QED
  BY <1>2 DEF End, TypeOK, HistoryType

LEMMA AskedType ==
  ASSUME TypeOK, NEW t \in Nat, Asked(t)
  PROVE  used' \in [Source -> Nat] /\ meter' \in [Source -> Nat]
<1>1. used \in [Source -> Nat] /\ meter \in [Source -> Nat] /\ 0 \in Source
  BY SlotSource DEF TypeOK, BookType, HistoryType
<1>2. used[0] + t \in Nat /\ meter[0] + t \in Nat
  BY <1>1
<1> QED
  BY <1>1, <1>2 DEF Asked

LEMMA ServeType ==
  ASSUME TypeOK, OrchestratorInv, Serve
  PROVE  TypeOK'
<1>0. Tokens \subseteq Nat /\ 0 \in Source
  BY BoundAssumption, SlotSource
<1>1. CASE AskFails
  <2>1. PoolType' /\ BookType' /\ phase' \in Phase /\ wired' \in BOOLEAN
    BY <1>1 DEF AskFails, End, TypeOK, PoolType, BookType, Phase, pool, books
  <2> QED
    BY <1>1, <2>1, EndType DEF AskFails, TypeOK
<1>2. ASSUME NEW t \in Tokens, NEW p \in Plans, Plan(p, t)
      PROVE  TypeOK'
  <2>1. p \in Seq(Name)
    BY AgentAssumption
  <2>2. PoolType' /\ phase' \in Phase /\ planned' \in Seq(Name)
    BY <1>2, <2>1, BatchType DEF Plan
  <2>3. first' \in Nat
    BY <1>2, <2>1, CutType, LenProperties DEF Plan
  <2> QED
    BY <1>0, <1>2, <2>2, <2>3 DEF Plan, Asked, TypeOK, BookType, HistoryType
<1>3. ASSUME NEW t \in Tokens, NEW e \in Extras, Reflect(e, t)
      PROVE  TypeOK'
  <2>1. e \in Seq(Name)
    BY AgentAssumption
  <2>2. PoolType' /\ phase' \in Phase /\ planned' \in Seq(Name)
    <3>1. CASE e # <<>>
      BY <1>3, <2>1, <3>1, BatchType DEF Reflect
    <3>2. CASE e = <<>>
      BY <1>3, <3>2 DEF Reflect, TypeOK, PoolType, HistoryType, Phase
    <3> QED
      BY <3>1, <3>2
  <2> QED
    BY <1>0, <1>3, <2>2 DEF Reflect, Asked, TypeOK, BookType, HistoryType
<1>4. ASSUME NEW t \in Tokens, Synthesize(t)
      PROVE  TypeOK'
  <2>1. meter' \in [Source -> Nat] /\ used' \in [Source -> Nat]
    BY <1>0, <1>4, AskedType DEF Synthesize
  <2>2. records' \in [toolCalls : Nat, run : {None} \cup Run]
    BY <1>4, <2>1 DEF Synthesize, TypeOK, BookType, Run
  <2> QED
    BY <1>4, <2>1, <2>2 DEF Synthesize, TypeOK, PoolType, BookType, HistoryType, pool, Phase
<1>5. CASE Charge \/ ChargeFails
  BY <1>5 DEF Charge, ChargeFails, TypeOK, PoolType, BookType, HistoryType, Phase, pool, books
<1>6. CASE Collect
  <2>1. next \in Slot /\ next + 1 \in Nat \ {0} /\ next \in 1..Len(steps)
    BY <1>6, BoundAssumption DEF Collect, TypeOK, PoolType, Slot
  <2>2. [agent |-> steps[next], as |-> result[next]] \in [agent : Name, as : Result]
    BY <2>1, ElementOfSeq DEF TypeOK, PoolType
  <2>3. observations' \in Seq([agent : Name, as : Result])
    BY <1>6, <2>2, AppendProperties DEF Collect, TypeOK, BookType
  <2> QED
    BY <1>6, <2>1, <2>3 DEF Collect, TypeOK, PoolType, BookType, HistoryType, history, Stage
<1>7. CASE RoundOver
  <2>1. PoolType'
    BY <1>7, ForgetType DEF RoundOver
  <2> QED
    BY <1>7, <2>1 DEF RoundOver, TypeOK, BookType, HistoryType, Phase, history
<1>8. CASE NoticeFailure
  BY <1>8 DEF NoticeFailure, TypeOK, PoolType, BookType, HistoryType, Phase, books,
     history, Stage
<1>9. CASE Unwind
  <2>1. PoolType'
    BY <1>9, ForgetType DEF Unwind
  <2> QED
    <3>1. HistoryType'
      BY <1>9, EndType DEF Unwind, Fate
    <3>2. BookType' /\ phase' \in Phase /\ wired' \in BOOLEAN
      BY <1>9 DEF Unwind, End, TypeOK, BookType, Phase, books
    <3> QED
      BY <2>1, <3>1, <3>2 DEF TypeOK
<1> QED
  BY <1>1, <1>2, <1>3, <1>4, <1>5, <1>6, <1>7, <1>8, <1>9 DEF Serve

LEMMA RequestType ==
  ASSUME TypeOK, Request
  PROVE  TypeOK'
<1>1. NoTokens \in [Source -> Nat] /\ NoTally \in Counts
  BY DEF NoTokens, NoTally, Counts
<1>2. BookType'
  BY <1>1, BoundAssumption DEF Request, TypeOK, BookType
<1>3. HistoryType'
  <2>1. count \in [orchestrations : Nat, failures : Nat]
    BY DEF TypeOK, HistoryType
  <2>2. count' \in [orchestrations : Nat, failures : Nat]
    BY <2>1 DEF Request
  <2> QED
    BY <1>1, <2>2 DEF Request, TypeOK, HistoryType
<1> QED
  BY <1>2, <1>3 DEF Request, TypeOK, PoolType, Phase, pool

----------------------------------------------------------------------------
(* The agreement: what was begun.                                          *)

LEMMA SlotFinite == IsFiniteSet(Slot) /\ Slot \subseteq Nat
BY BoundAssumption, FS_Interval DEF Slot

\* The parts of the type that the agreement speaks about.
LEMMA BookPieces ==
  ASSUME TypeOK
  PROVE  /\ steps \in Seq(Name) /\ Len(steps) \in Nat /\ Len(steps) <= MaxPlanSteps
         /\ planned \in Seq(Name) /\ Len(planned) \in Nat /\ DOMAIN planned = 1..Len(planned)
         /\ next \in Nat \ {0} /\ first \in Nat /\ tally \in Counts
         /\ observations \in Seq([agent : Name, as : Result])
         /\ Len(observations) \in Nat /\ DOMAIN observations = 1..Len(observations)
         /\ trail \in Nat /\ calls \in Nat
         /\ records \in [toolCalls : Nat, run : {None} \cup Run]
BY DEF TypeOK, PoolType, BookType, HistoryType

LEMMA BegunFinite ==
  ASSUME TypeOK
  PROVE  /\ IsFiniteSet(Begun) /\ Cardinality(Begun) \in Nat
         /\ \A S \in SUBSET Begun : IsFiniteSet(S) /\ Cardinality(S) \in Nat
<1>1. IsFiniteSet(1..Len(planned))
  BY BookPieces, FS_Interval
<1>2. IsFiniteSet(Begun)
  BY <1>1, FS_Subset DEF Begun
<1> QED
  BY <1>2, FS_Subset, FS_CardinalityType

\* A step of the pool that goes on, or comes to its result, leaves the books of
\* the whole request alone.
LEMMA AgreeFrame ==
  ASSUME TypeOK, OrchestratorInv, AgreementInv, NEW i \in Slot,
         stage[i] \notin {"none", "queued"}, stage'[i] \notin {"none", "queued"},
         \A j \in Slot : j # i => stage'[j] = stage[j],
         UNCHANGED <<apart, planned, outcome>>
  PROVE  RoundInv' /\ ObservationInv' /\ TallyInv' /\ EndInv' /\ Agreement'
<1>1. phase \in {"delegate", "unwind"}
  BY DEF OrchestratorInv, StageInv
<1>2. /\ phase' = phase /\ fromPlan' = fromPlan /\ steps' = steps /\ next' = next
      /\ tally' = tally /\ first' = first /\ observations' = observations
      /\ planned' = planned /\ outcome' = outcome
  BY DEF apart
<1>3. outcome # "answered" /\ phase \notin {"idle", "plan", "reflect", "synth", "charge"}
  BY <1>1 DEF AgreementInv, EndInv
<1>4. EndInv' /\ Agreement'
  BY <1>2, <1>3 DEF EndInv, Agreement
<1>5. Base' = Base
  BY <1>2 DEF Base
<1>6. RoundInv'
  BY <1>1, <1>2, <1>3, <1>5 DEF AgreementInv, RoundInv
<1>7. ObservationInv'
  BY <1>2, <1>5 DEF AgreementInv, ObservationInv, Sound
<1>8. TallyInv'
  <2>1. ASSUME Sound PROVE Begun' = Begun
    <3>1. phase = "delegate"
      BY <1>1, <2>1 DEF Sound
    <3>2. \A k \in 1..Len(planned) : k <= Base \/ k - Base \in Slot
      <4>1. Base \in Nat /\ Len(planned) = Base + Len(steps)
        BY <3>1, BookPieces DEF Base, AgreementInv, RoundInv
      <4>2. Len(steps) \in Nat /\ Len(steps) <= MaxPlanSteps /\ MaxPlanSteps \in Nat
        BY BookPieces, BoundAssumption
      <4> QED
        BY <4>1, <4>2 DEF Slot
    <3>3. \A k \in 1..Len(planned) :
             k <= Base \/ (stage'[k - Base] = "queued" <=> stage[k - Base] = "queued")
      BY <3>2
    <3> QED
      BY <1>2, <1>5, <3>3 DEF Begun
  <2>2. Sound' <=> Sound
    BY <1>2 DEF Sound
  <2>3. ASSUME Sound PROVE Strangers(Begun)' = Strangers(Begun)
    BY <1>2, <2>1, <2>3 DEF Strangers
  <2>4. ASSUME Sound
        PROVE  Strangers(Begun \cap (1..first))' = Strangers(Begun \cap (1..first))
    BY <1>2, <2>1, <2>4 DEF Strangers
  <2> QED
    BY <1>2, <2>1, <2>2, <2>3, <2>4 DEF AgreementInv, TallyInv
<1> QED
  BY <1>4, <1>6, <1>7, <1>8

\* The next step of the queue has its turn: it is tallied.
LEMMA AgreeTurn ==
  ASSUME TypeOK, OrchestratorInv, AgreementInv, NEW i \in Slot, NEW fields,
         Turn(i), Tallied(fields), "delegations" \notin fields,
         "unknown" \in fields <=> steps[i] = Stranger,
         "planUnknown" \in fields <=> fromPlan /\ steps[i] = Stranger,
         stage'[i] \notin {"none", "queued"},
         \A j \in Slot : j # i => stage'[j] = stage[j],
         UNCHANGED <<phase, fromPlan, steps, next, first, observations, planned, outcome>>
  PROVE  RoundInv' /\ ObservationInv' /\ TallyInv' /\ EndInv' /\ Agreement'
<1>1. stage[i] = "queued"
  BY DEF Turn
<1>2. phase \in {"delegate", "unwind"} /\ next <= i /\ i <= Len(steps)
  BY <1>1 DEF OrchestratorInv, StageInv
<1>3. outcome # "answered" /\ phase \notin {"idle", "plan", "reflect", "synth", "charge"}
  BY <1>2 DEF AgreementInv, EndInv
<1>4. EndInv' /\ Agreement'
  BY <1>3 DEF EndInv, Agreement
<1>5. Base' = Base
  BY DEF Base
<1>6. RoundInv'
  BY <1>1, <1>2, <1>3, <1>5 DEF AgreementInv, RoundInv
<1>7. ObservationInv'
  BY <1>5 DEF AgreementInv, ObservationInv, Sound
<1>8. TallyInv'
  <2> SUFFICES ASSUME Sound PROVE TallyInv'
    BY DEF TallyInv, Sound
  <2>1. phase = "delegate"
    BY <1>2 DEF Sound
  <2> DEFINE b == Base
             p == b + i
  <2>2. /\ b \in Nat /\ Len(planned) = b + Len(steps)
        /\ Len(steps) \in Nat /\ Len(steps) <= MaxPlanSteps /\ MaxPlanSteps \in Nat
        /\ i \in 1..Len(steps) /\ first \in Nat
    BY <1>2, <2>1, BookPieces, BoundAssumption DEF Base, AgreementInv, RoundInv, Slot
  <2>3. planned[p] = steps[i] /\ (IF fromPlan THEN b = 0 /\ first = Len(steps) ELSE first <= b)
    BY <2>1, <2>2 DEF AgreementInv, RoundInv
  <2>4. p \in 1..Len(planned) /\ ~(p <= b) /\ p - b = i
    BY <2>2
  <2>5. p \notin Begun
    BY <1>1, <2>4 DEF Begun
  <2>6. \A k \in 1..Len(planned) : k <= b \/ k - b \in Slot
    BY <2>2 DEF Slot
  <2>7. \A k \in 1..Len(planned) : k - b = i => k = p
    BY <2>2
  <2>8. Begun' = Begun \cup {p}
    <3> HIDE DEF p
    <3>1. \A k \in 1..Len(planned) : k # p =>
             (k <= b \/ (stage'[k - b] = "queued" <=> stage[k - b] = "queued"))
      BY <2>6, <2>7
    <3>2. Begun' = {k \in 1..Len(planned) : k <= b \/ stage'[k - b] # "queued"}
      BY <1>5 DEF Begun
    <3>3. Begun = {k \in 1..Len(planned) : k <= b \/ stage[k - b] # "queued"}
      BY DEF Begun
    <3>4. stage'[p - b] # "queued"
      BY <2>4
    <3> QED
      BY <2>4, <3>1, <3>2, <3>3, <3>4
  <2>9. steps[i] = Stranger => (p \in 1..first <=> fromPlan)
    BY <2>2, <2>3
  <2> DEFINE S == Strangers(Begun)
             F == Strangers(Begun \cap (1..first))
  <2>10. S \in SUBSET Begun /\ F \in SUBSET Begun /\ p \notin S /\ p \notin F
    BY <2>5 DEF Strangers
  <2>11. /\ S' = IF steps[i] = Stranger THEN S \cup {p} ELSE S
         /\ F' = IF fromPlan /\ steps[i] = Stranger THEN F \cup {p} ELSE F
    <3>1. S' = {k \in Begun \cup {p} : planned[k] = Stranger}
      BY <2>8 DEF Strangers
    <3>2. F' = {k \in (Begun \cup {p}) \cap (1..first) : planned[k] = Stranger}
      BY <2>8 DEF Strangers
    <3> HIDE DEF p
    <3> QED
      BY <2>3, <2>9, <3>1, <3>2 DEF Strangers
  <2>12. /\ IsFiniteSet(Begun) /\ IsFiniteSet(S) /\ IsFiniteSet(F)
         /\ Cardinality(Begun) \in Nat /\ Cardinality(S) \in Nat /\ Cardinality(F) \in Nat
    BY <2>10, BegunFinite
  <2> HIDE DEF S, F, p, b
  <2>13. /\ Cardinality(Begun') = Cardinality(Begun) + 1
         /\ Cardinality(S') = Cardinality(S) + (IF steps[i] = Stranger THEN 1 ELSE 0)
         /\ Cardinality(F') =
              Cardinality(F) + (IF fromPlan /\ steps[i] = Stranger THEN 1 ELSE 0)
    <3>1. Cardinality(Begun') = Cardinality(Begun) + 1
      BY <2>5, <2>8, <2>12, FS_AddElement
    <3>2. Cardinality(S \cup {p}) = Cardinality(S) + 1
      BY <2>10, <2>12, FS_AddElement
    <3>3. Cardinality(F \cup {p}) = Cardinality(F) + 1
      BY <2>10, <2>12, FS_AddElement
    <3>4. Cardinality(S') = Cardinality(S) + (IF steps[i] = Stranger THEN 1 ELSE 0)
      BY <2>11, <2>12, <3>2
    <3>5. Cardinality(F') =
            Cardinality(F) + (IF fromPlan /\ steps[i] = Stranger THEN 1 ELSE 0)
      BY <2>11, <2>12, <3>3
    <3> QED
      BY <3>1, <3>4, <3>5
  <2>14. /\ tally'.delegations = tally.delegations + 1
         /\ tally'.unknown = tally.unknown + (IF steps[i] = Stranger THEN 1 ELSE 0)
         /\ tally'.planUnknown =
              tally.planUnknown + (IF fromPlan /\ steps[i] = Stranger THEN 1 ELSE 0)
    <3>1. DOMAIN tally = {"delegations", "planUnknown", "unknown", "skippedRoe", "roeDenied"}
      BY BookPieces DEF Counts
    <3>2. \A f \in DOMAIN tally :
             tally'[f] = tally[f] + IF f \in fields \cup {"delegations"} THEN 1 ELSE 0
      BY DEF Tallied
    <3> QED
      BY <3>1, <3>2
  <2> QED
    BY <2>13, <2>14 DEF AgreementInv, TallyInv, S, F
<1> QED
  BY <1>4, <1>6, <1>7, <1>8

----------------------------------------------------------------------------
(* The agreement: what was called, noted and recorded.                     *)

LEMMA LoggedPairs ==
  \A p : p \in Logged <=> \E j \in Slot : p \in {j} \X CallTurns(log[j])
BY DEF Logged

LEMMA CallTurnsFinite ==
  ASSUME NEW turns \in Seq(Kind)
  PROVE  IsFiniteSet(CallTurns(turns)) /\ Cardinality(CallTurns(turns)) \in Nat
<1>1. Len(turns) \in Nat /\ DOMAIN turns = 1..Len(turns)
  BY LenProperties
<1>2. IsFiniteSet(1..Len(turns)) /\ CallTurns(turns) \in SUBSET (1..Len(turns))
  BY <1>1, FS_Interval DEF CallTurns
<1> QED
  BY <1>2, FS_Subset, FS_CardinalityType

LEMMA LoggedFinite ==
  ASSUME log \in [Slot -> Seq(Kind)]
  PROVE  IsFiniteSet(Logged) /\ Cardinality(Logged) \in Nat
<1> DEFINE row == [i \in Slot |-> {i} \X CallTurns(log[i])]
           rows == {{i} \X CallTurns(log[i]) : i \in Slot}
<1>1. row \in Surjection(Slot, rows)
  BY DEF Surjection
<1>2. IsFiniteSet(rows)
  BY <1>1, SlotFinite, FS_Surjection
<1>3. \A i \in Slot : IsFiniteSet({i} \X CallTurns(log[i]))
  BY CallTurnsFinite, FS_Singleton, FS_Product
<1>4. \A T \in rows : IsFiniteSet(T)
  BY <1>3
<1> HIDE DEF row, rows
<1>5. IsFiniteSet(UNION rows)
  BY <1>2, <1>4, FS_UNION
<1>6. UNION rows = Logged
  BY DEF rows, Logged
<1> QED
  BY <1>5, <1>6, FS_CardinalityType

\* A turn of the loop is one more tool call of it, or none.
LEMMA LoggedTurn ==
  ASSUME log \in [Slot -> Seq(Kind)], NEW i \in Slot, NEW kind \in Kind,
         log' = [log EXCEPT ![i] = Append(@, kind)]
  PROVE  Cardinality(Logged') = Cardinality(Logged) + (IF kind = "call" THEN 1 ELSE 0)
<1> DEFINE s == log[i]
           t == log'[i]
           n == Len(s) + 1
<1>1. s \in Seq(Kind) /\ t = Append(s, kind) /\ \A j \in Slot : j # i => log'[j] = log[j]
  OBVIOUS
<1>2. /\ Len(s) \in Nat /\ DOMAIN s = 1..Len(s) /\ DOMAIN t = 1..n /\ t[n] = kind
      /\ \A k \in 1..Len(s) : t[k] = s[k]
  BY <1>1, AppendProperties
<1>3. n \notin 1..Len(s) /\ 1..n = 1..Len(s) \cup {n}
  BY <1>2
<1> HIDE DEF s, t, n
<1>4. /\ n \notin CallTurns(s)
      /\ CallTurns(t) = IF kind = "call" THEN CallTurns(s) \cup {n} ELSE CallTurns(s)
  BY <1>2, <1>3 DEF CallTurns
<1>5. \A p : p \in Logged' <=> \E j \in Slot : p \in {j} \X CallTurns(log'[j])
  BY DEF Logged
<1>6. \A j \in Slot : CallTurns(log'[j]) = IF j = i THEN CallTurns(t) ELSE CallTurns(log[j])
  BY <1>1 DEF t
<1>7. Logged' = IF kind = "call" THEN Logged \cup {<<i, n>>} ELSE Logged
  <2>1. CASE kind = "call"
    <3>1. \A p : p \in {i} \X CallTurns(t) <=> p \in {i} \X CallTurns(s) \/ p = <<i, n>>
      BY <1>4, <2>1
    <3>2. \A p : p \in Logged' <=> p \in Logged \/ p = <<i, n>>
      BY <1>5, <1>6, <3>1, LoggedPairs DEF s
    <3> QED
      BY <2>1, <3>2
  <2>2. CASE kind # "call"
    <3>1. \A j \in Slot : CallTurns(log'[j]) = CallTurns(log[j])
      BY <1>4, <1>6, <2>2 DEF s
    <3>2. \A p : p \in Logged' <=> p \in Logged
      BY <1>5, <3>1, LoggedPairs
    <3> QED
      BY <2>2, <3>2
  <2> QED
    BY <2>1, <2>2
<1>8. <<i, n>> \notin Logged
  <2>1. \A j \in Slot : <<i, n>> \in {j} \X CallTurns(log[j]) => n \in CallTurns(s)
    BY DEF s
  <2> QED
    BY <1>4, <2>1, LoggedPairs
<1>9. IsFiniteSet(Logged) /\ Cardinality(Logged) \in Nat
  BY LoggedFinite
<1>10. Cardinality(Logged \cup {<<i, n>>}) = Cardinality(Logged) + 1
  BY <1>8, <1>9, FS_AddElement
<1> QED
  BY <1>7, <1>9, <1>10

\* The loop is over: what its log held goes to the record.
LEMMA LoggedCleared ==
  ASSUME log \in [Slot -> Seq(Kind)], NEW i \in Slot, log' = [log EXCEPT ![i] = <<>>]
  PROVE  /\ Cardinality(Logged') + Cardinality(CallTurns(log[i])) = Cardinality(Logged)
         /\ Cardinality(Logged') \in Nat /\ Cardinality(CallTurns(log[i])) \in Nat
<1> DEFINE row == {i} \X CallTurns(log[i])
<1>1. CallTurns(log'[i]) = {} /\ \A j \in Slot : j # i => log'[j] = log[j]
  BY DEF CallTurns
<1>2. \A p : p \in Logged' <=> \E j \in Slot : p \in {j} \X CallTurns(log'[j])
  BY DEF Logged
<1>3. \A p : p \in Logged' <=> p \in Logged /\ p \notin row
  <2>1. \A p : p \in Logged' <=> \E j \in Slot \ {i} : p \in {j} \X CallTurns(log[j])
    BY <1>1, <1>2
  <2>2. \A p : \A j \in Slot \ {i} : p \in {j} \X CallTurns(log[j]) => p \notin row
    OBVIOUS
  <2> QED
    BY <2>1, <2>2, LoggedPairs
<1>4. row \subseteq Logged
  BY LoggedPairs
<1>5. IsFiniteSet(CallTurns(log[i])) /\ Cardinality(CallTurns(log[i])) \in Nat
  BY CallTurnsFinite
<1>6. IsFiniteSet(row) /\ Cardinality(row) = Cardinality(CallTurns(log[i]))
  <2>1. IsFiniteSet({i}) /\ Cardinality({i}) = 1
    BY FS_Singleton
  <2>2. IsFiniteSet(row) /\ Cardinality(row) = 1 * Cardinality(CallTurns(log[i]))
    BY <1>5, <2>1, FS_Product
  <2> QED
    BY <1>5, <2>2
<1> HIDE DEF row
<1>7. IsFiniteSet(Logged) /\ Cardinality(Logged) \in Nat
  BY LoggedFinite
<1>8. Logged' = Logged \ row /\ Logged \cap row = row
  BY <1>3, <1>4
<1>9. Cardinality(Logged') = Cardinality(Logged) - Cardinality(row) /\ IsFiniteSet(Logged')
  BY <1>7, <1>8, FS_Difference
<1>10. Cardinality(Logged') \in Nat
  BY <1>9, FS_CardinalityType
<1> QED
  BY <1>5, <1>6, <1>7, <1>9, <1>10

LEMMA NotingFinite == IsFiniteSet(Noting) /\ Cardinality(Noting) \in Nat
BY SlotFinite, FS_Subset, FS_CardinalityType DEF Noting

\* A step that neither calls a tool nor notes a call nor ends a loop.
LEMMA TrailFrame ==
  ASSUME TypeOK, OrchestratorInv, AgreementInv, NEW i \in Slot,
         stage[i] \notin {"none", "note"}, stage'[i] # "note", stage[i] # "failed",
         \A j \in Slot : j # i => stage'[j] = stage[j],
         log' = log \/ (\E kind \in Kind \ {"call"} : log' = [log EXCEPT ![i] = Append(@, kind)]),
         UNCHANGED <<phase, trail, calls, records>>
  PROVE  TrailInv'
<1>1. Noting' = Noting
  BY DEF Noting
<1>2. log \in [Slot -> Seq(Kind)] /\ Cardinality(Logged) \in Nat
  BY LoggedFinite DEF TypeOK, PoolType
<1>3. Cardinality(Logged') = Cardinality(Logged)
  <2>1. CASE log' = log
    BY <2>1 DEF Logged
  <2>2. ASSUME NEW kind \in Kind, kind # "call", log' = [log EXCEPT ![i] = Append(@, kind)]
        PROVE  Cardinality(Logged') = Cardinality(Logged)
    <3>1. Cardinality(Logged') = Cardinality(Logged) + (IF kind = "call" THEN 1 ELSE 0)
      BY <1>2, <2>2, LoggedTurn
    <3> QED
      BY <1>2, <2>2, <3>1
  <2> QED
    BY <2>1, <2>2
<1> QED
  BY <1>1, <1>3 DEF AgreementInv, TrailInv, Sound

\* With a step that has failed the request will not be answered.
LEMMA TrailFailed ==
  ASSUME NEW i \in Slot, stage'[i] = "failed" PROVE TrailInv'
BY DEF TrailInv

\* What the agreement needs to know of the log of a step.
LEMMA LogKept ==
  ASSUME TypeOK, AgreementInv, NEW i \in Slot,
         \A j \in Slot : j # i => stage'[j] = stage[j] /\ log'[j] = log[j],
         \/ stage'[i] \notin {"none", "queued", "ready", "meter", "ask"}
         \/ log'[i] = <<>>
  PROVE  LogInv'
BY DEF AgreementInv, LogInv

LEMMA DelegateAgrees ==
  ASSUME TypeOK, OrchestratorInv, AgreementInv, NEW i \in Slot, Delegate(i)
  PROVE  AgreementInv'
<1>0. /\ stage \in [Slot -> Stage] /\ log \in [Slot -> Seq(Kind)]
      /\ Tokens \subseteq Nat /\ trail \in Nat /\ calls \in Nat
      /\ records \in [toolCalls : Nat, run : {None} \cup Run]
      /\ Cardinality(Noting) \in Nat /\ Cardinality(Logged) \in Nat
  BY BoundAssumption, Pieces, BookPieces, NotingFinite, LoggedFinite
<1>00. /\ LogInv /\ RoundInv
       /\ Sound /\ (\A j \in Slot : stage[j] # "failed") =>
            /\ trail + Cardinality(Noting) = calls
            /\ records.toolCalls + Cardinality(Logged) = trail
  BY DEF AgreementInv, TrailInv
<1> DEFINE Books == RoundInv' /\ ObservationInv' /\ TallyInv' /\ EndInv' /\ Agreement'
<1>1. ASSUME Books, TrailInv', LogInv' PROVE AgreementInv'
  BY <1>1 DEF AgreementInv
<1>2. CASE SkipUnknown(i) \/ Withhold(i) \/ GateFails(i) \/ Start(i)
  <2>1. /\ Turn(i) /\ stage[i] = "queued" /\ log' = log
        /\ UNCHANGED <<phase, fromPlan, steps, next, first, observations, planned, outcome,
                       trail, calls, records>>
    BY <1>2 DEF SkipUnknown, Withhold, GateFails, Start, Turn, history
  <2>2. PICK to \in {"ready", "failed", "loop", "ask"} : stage' = [stage EXCEPT ![i] = to]
    BY <1>2 DEF SkipUnknown, Withhold, GateFails, Start, Ready, Fails
  <2>3. PICK fields : /\ Tallied(fields) /\ "delegations" \notin fields
                      /\ "unknown" \in fields <=> steps[i] = Stranger
                      /\ "planUnknown" \in fields <=> fromPlan /\ steps[i] = Stranger
    <3>1. CASE SkipUnknown(i)
      <4>1. Tallied({"unknown"} \cup IF fromPlan THEN {"planUnknown"} ELSE {})
        BY <3>1 DEF SkipUnknown
      <4>2. steps[i] = Stranger
        BY <3>1 DEF SkipUnknown
      <4> WITNESS {"unknown"} \cup IF fromPlan THEN {"planUnknown"} ELSE {}
      <4> QED
        BY <4>1, <4>2
    <3>2. ASSUME NEW f \in {{}, {"roeDenied"}, {"skippedRoe"}}, Tallied(f), steps[i] # Stranger
          PROVE  \E fields : /\ Tallied(fields) /\ "delegations" \notin fields
                             /\ "unknown" \in fields <=> steps[i] = Stranger
                             /\ "planUnknown" \in fields <=> fromPlan /\ steps[i] = Stranger
      <4> WITNESS f
      <4> QED
        BY <3>2
    <3>3. CASE Withhold(i) \/ GateFails(i) \/ Start(i)
      <4>1. steps[i] # Stranger
        BY <3>3, AgentAssumption DEF Withhold, GateFails, Start
      <4>2. Tallied({}) \/ Tallied({"roeDenied"}) \/ Tallied({"skippedRoe"})
        BY <3>3 DEF Withhold, GateFails, Start
      <4> QED
        BY <3>2, <4>1, <4>2
    <3> QED
      BY <1>2, <3>1, <3>3
  <2>4. stage'[i] = to /\ \A j \in Slot : j # i => stage'[j] = stage[j]
    BY <1>0, <2>2
  <2>5. Books
    BY <2>1, <2>3, <2>4, AgreeTurn
  <2>6. TrailInv'
    BY <2>1, <2>4, TrailFrame
  <2>7. LogInv'
    BY <1>00, <2>1, <2>4 DEF LogInv
  <2> QED
    BY <1>1, <2>5, <2>6, <2>7
<1>3. ASSUME UNCHANGED <<apart, planned, outcome>>, stage[i] \notin {"none", "queued"},
             NEW to \in Stage \ {"none", "queued"}, stage' = [stage EXCEPT ![i] = to],
             TrailInv', LogInv'
      PROVE  AgreementInv'
  <2>1. stage'[i] = to /\ \A j \in Slot : j # i => stage'[j] = stage[j]
    BY <1>0, <1>3
  <2>2. Books
    BY <1>3, <2>1, AgreeFrame
  <2> QED
    BY <1>1, <1>3, <2>2
\* A step that is not about tool calls, or fails.
<1>4. ASSUME UNCHANGED <<apart, planned, outcome>>, stage[i] \notin {"none", "queued", "failed"},
             NEW to \in Stage \ {"none", "queued", "note"}, stage' = [stage EXCEPT ![i] = to],
             \/ to = "failed"
             \/ stage[i] # "note" /\ UNCHANGED <<trail, calls, records>>,
             \/ log' = log /\ (to \in {"ready", "meter", "ask"} =>
                                  stage[i] \in {"ready", "meter", "ask"})
             \/ /\ to \notin {"ready", "meter", "ask"}
                /\ \E kind \in Kind \ {"call"} : log' = [log EXCEPT ![i] = Append(@, kind)]
      PROVE  AgreementInv'
  <2>1. stage'[i] = to /\ \A j \in Slot : j # i => stage'[j] = stage[j]
    BY <1>0, <1>4
  <2>2. \A j \in Slot : j # i => log'[j] = log[j]
    <3>1. ASSUME NEW kind, log' = [log EXCEPT ![i] = Append(@, kind)]
          PROVE  \A j \in Slot : j # i => log'[j] = log[j]
      BY <1>0, <3>1
    <3> QED
      BY <1>4, <3>1
  <2>3. to \notin {"none", "queued", "ready", "meter", "ask"} \/ log'[i] = <<>>
    BY <1>4, <1>00 DEF LogInv
  <2>4. LogInv'
    BY <2>1, <2>2, <2>3, LogKept
  <2>5. TrailInv'
    <3>1. CASE to = "failed"
      BY <2>1, <3>1, TrailFailed
    <3>2. CASE to # "failed"
      <4>1. log' = log \/ (\E kind \in Kind \ {"call"} : log' = [log EXCEPT ![i] = Append(@, kind)])
        BY <1>4
      <4>2. stage[i] \notin {"none", "note"} /\ stage'[i] # "note" /\ stage[i] # "failed"
        BY <1>4, <2>1, <3>2
      <4>3. UNCHANGED <<phase, trail, calls, records>>
        BY <1>4, <3>2 DEF apart
      <4> QED
        BY <2>1, <4>1, <4>2, <4>3, TrailFrame
    <3> QED
      BY <3>1, <3>2
  <2> QED
    BY <1>3, <1>4, <2>4, <2>5
<1>5. CASE RaiseInStep(i)
  BY <1>4, <1>5 DEF RaiseInStep, Fails, history, Stage
<1>6. ASSUME NEW t \in Tokens, Ask(i, t) PROVE AgreementInv'
  <2>1. /\ UNCHANGED <<apart, planned, outcome>> /\ stage[i] = "ask"
        /\ stage' = [stage EXCEPT ![i] = "meter"] /\ UNCHANGED <<log, trail, calls, records>>
    BY <1>6 DEF Ask, unspent
  <2> QED
    BY <1>4, <2>1 DEF Stage
<1>7. ASSUME NEW t \in Tokens, Malformed(i, t) PROVE AgreementInv'
  <2>1. /\ UNCHANGED <<apart, planned, outcome>> /\ stage[i] = "loop"
        /\ UNCHANGED <<trail, calls, records>>
        /\ log' = [log EXCEPT ![i] = Append(@, "malformed")]
    BY <1>7 DEF Malformed, unspent, Turned
  <2>2. PICK to \in {"loop", "limit"} : stage' = [stage EXCEPT ![i] = to]
    BY <1>7 DEF Malformed, Turned
  <2> QED
    BY <1>4, <2>1, <2>2 DEF Stage, Kind
<1>8. ASSUME NEW t \in Tokens, Action(i, t) PROVE AgreementInv'
  <2>1. /\ UNCHANGED <<apart, planned, outcome>> /\ stage[i] = "loop"
        /\ UNCHANGED <<log, trail, calls, records>>
    BY <1>8 DEF Action, unspent
  <2>2. PICK to \in {"deny", "spend"} : stage' = [stage EXCEPT ![i] = to]
    BY <1>8 DEF Action
  <2> QED
    BY <1>4, <2>1, <2>2 DEF Stage
<1>9. CASE Deny(i)
  <2>1. /\ UNCHANGED <<apart, planned, outcome>> /\ stage[i] = "deny"
        /\ UNCHANGED <<trail, calls, records>>
    BY <1>9 DEF Deny, history
  <2>2. CASE Turned(i, "denied")
    <3>1. log' = [log EXCEPT ![i] = Append(@, "denied")]
      BY <2>2 DEF Turned
    <3>2. PICK to \in {"loop", "limit"} : stage' = [stage EXCEPT ![i] = to]
      BY <2>2 DEF Turned
    <3> QED
      BY <1>4, <2>1, <3>1, <3>2 DEF Stage, Kind
  <2>3. CASE Fails(i, "audit") /\ UNCHANGED log
    BY <1>4, <2>1, <2>3 DEF Fails, Stage
  <2> QED
    BY <1>9, <2>2, <2>3 DEF Deny
<1>10. CASE SpendRead(i) \/ MeterRead(i)
  <2>1. /\ UNCHANGED <<apart, planned, outcome>> /\ stage[i] \in {"spend", "meter"}
        /\ stage' = stage /\ UNCHANGED <<log, trail, calls, records>>
    BY <1>10 DEF SpendRead, MeterRead, history
  <2>2. stage' = [stage EXCEPT ![i] = stage[i]]
    BY <1>0, <2>1
  <2> QED
    BY <1>4, <2>1, <2>2 DEF Stage
<1>11. CASE SpendWrite(i)
  <2>1. /\ UNCHANGED <<apart, planned, outcome>> /\ stage[i] = "spend"
        /\ UNCHANGED <<log, trail, calls, records>>
    BY <1>11 DEF SpendWrite, history
  <2>2. PICK to \in {"dispatch", "cut"} : stage' = [stage EXCEPT ![i] = to]
    BY <1>11 DEF SpendWrite
  <2> QED
    BY <1>4, <2>1, <2>2 DEF Stage
<1>12. CASE MeterWrite(i) \/ MeterNothing(i)
  <2>1. /\ UNCHANGED <<apart, planned, outcome>> /\ stage[i] = "meter"
        /\ stage' = [stage EXCEPT ![i] = "ready"] /\ UNCHANGED <<log, trail, calls, records>>
    BY <1>12 DEF MeterWrite, MeterNothing, history
  <2> QED
    BY <1>4, <2>1 DEF Stage
<1>18. CASE Dispatch(i) /\ Fails(i, "tool")
  <2>1. UNCHANGED <<apart, planned, outcome>> /\ stage[i] = "dispatch" /\ UNCHANGED log
    BY <1>18 DEF Dispatch
  <2> QED
    BY <1>4, <1>18, <2>1 DEF Fails, Stage
<1>13. CASE Dispatch(i) /\ ~Fails(i, "tool")
  <2>1. /\ UNCHANGED <<apart, planned, outcome>> /\ stage[i] = "dispatch" /\ calls' = calls + 1
        /\ stage' = [stage EXCEPT ![i] = "note"] /\ UNCHANGED <<log, trail, records>>
    BY <1>13 DEF Dispatch
  <2>2. stage'[i] = "note" /\ \A j \in Slot : j # i => stage'[j] = stage[j]
    BY <1>0, <2>1
  <2>3. LogInv'
    BY <2>1, <2>2, LogKept
  <2>4. Noting' = Noting \cup {i} /\ i \notin Noting
    BY <2>1, <2>2 DEF Noting
  <2>5. Cardinality(Noting') = Cardinality(Noting) + 1
    BY <2>4, NotingFinite, FS_AddElement
  <2>6. Logged' = Logged
    BY <2>1 DEF Logged
  <2>7. TrailInv'
    <3> SUFFICES ASSUME Sound', \A j \in Slot : stage'[j] # "failed"
                 PROVE  /\ trail + Cardinality(Noting') = calls'
                        /\ records.toolCalls + Cardinality(Logged') = trail
      BY <2>1 DEF TrailInv
    <3>1. Sound /\ \A j \in Slot : stage[j] # "failed"
      BY <2>1, <2>2 DEF Sound, apart
    <3>2. trail + Cardinality(Noting) = calls /\ records.toolCalls + Cardinality(Logged) = trail
      BY <1>00, <3>1
    <3>3. /\ trail \in Nat /\ calls \in Nat /\ Cardinality(Noting) \in Nat
          /\ calls' = calls + 1
      BY <1>0, <2>1
    <3> QED
      BY <2>5, <2>6, <3>2, <3>3
  <2> QED
    BY <1>3, <2>1, <2>3, <2>7 DEF Stage
<1>14. CASE Note(i)
  <2>1. UNCHANGED <<apart, planned, outcome>> /\ stage[i] = "note" /\ UNCHANGED <<calls, records>>
    BY <1>14 DEF Note
  <2>2. CASE Fails(i, "audit") /\ UNCHANGED <<trail, log>>
    BY <1>4, <2>1, <2>2 DEF Fails, Stage
  <2>3. CASE trail' = trail + 1 /\ Turned(i, "call")
    <3>1. log' = [log EXCEPT ![i] = Append(@, "call")]
      BY <2>3 DEF Turned
    <3>2. PICK to \in {"loop", "limit"} : stage' = [stage EXCEPT ![i] = to]
      BY <2>3 DEF Turned
    <3>3. stage'[i] = to /\ \A j \in Slot : j # i => stage'[j] = stage[j]
      BY <1>0, <3>2
    <3>4. LogInv'
      BY <3>1, <3>3, LogKept
    <3>5. Cardinality(Logged') = Cardinality(Logged) + 1
      <4>1. "call" \in Kind
        BY DEF Kind
      <4>2. Cardinality(Logged') = Cardinality(Logged) + (IF "call" = "call" THEN 1 ELSE 0)
        BY <1>0, <3>1, <4>1, LoggedTurn
      <4> QED
        BY <4>2
    <3>6. Noting' = Noting \ {i} /\ i \in Noting
      BY <2>1, <3>3 DEF Noting
    <3>7. Cardinality(Noting') = Cardinality(Noting) - 1
      BY <3>6, NotingFinite, FS_RemoveElement
    <3>8. TrailInv'
      <4> SUFFICES ASSUME Sound', \A j \in Slot : stage'[j] # "failed"
                   PROVE  /\ trail' + Cardinality(Noting') = calls
                          /\ records.toolCalls + Cardinality(Logged') = trail'
        BY <2>1 DEF TrailInv
      <4>1. Sound /\ \A j \in Slot : stage[j] # "failed"
        BY <2>1, <3>3 DEF Sound, apart
      <4>2. /\ trail + Cardinality(Noting) = calls
            /\ records.toolCalls + Cardinality(Logged) = trail
        BY <1>00, <4>1
      <4>3. /\ records.toolCalls \in Nat /\ trail \in Nat /\ calls \in Nat
            /\ Cardinality(Noting) \in Nat /\ Cardinality(Logged) \in Nat
            /\ trail' = trail + 1
        BY <1>0, <2>3
      <4> QED
        BY <3>5, <3>7, <4>2, <4>3
    <3> QED
      BY <1>3, <2>1, <3>2, <3>4, <3>8 DEF Stage
  <2> QED
    BY <1>14, <2>2, <2>3 DEF Note
<1>15. ASSUME UNCHANGED <<apart, planned, outcome, trail, calls>>,
              stage[i] \in {"loop", "cut", "limit"}, stage' = [stage EXCEPT ![i] = "meter"],
              Recorded(log[i]), log' = [log EXCEPT ![i] = <<>>]
       PROVE  AgreementInv'
  <2>1. stage'[i] = "meter" /\ \A j \in Slot : j # i => stage'[j] = stage[j]
    BY <1>0, <1>15
  <2>2. log'[i] = <<>> /\ \A j \in Slot : j # i => log'[j] = log[j]
    BY <1>0, <1>15
  <2>3. LogInv'
    BY <2>1, <2>2, LogKept
  <2>4. /\ Cardinality(Logged') + Cardinality(CallTurns(log[i])) = Cardinality(Logged)
        /\ Cardinality(Logged') \in Nat /\ Cardinality(CallTurns(log[i])) \in Nat
    BY <1>0, <1>15, LoggedCleared
  <2>5. records'.toolCalls = records.toolCalls + Cardinality(CallTurns(log[i]))
    BY <1>0, <1>15 DEF Recorded, CallTurns
  <2>6. Noting' = Noting
    BY <1>15, <2>1 DEF Noting
  <2>7. TrailInv'
    <3>1. records.toolCalls \in Nat
      BY <1>0
    <3> QED
      BY <1>0, <1>00, <1>15, <2>1, <2>4, <2>5, <2>6, <3>1 DEF TrailInv, Sound, apart
  <2> QED
    BY <1>3, <1>15, <2>3, <2>7 DEF Stage
<1>16. ASSUME NEW t \in Tokens, Final(i, t) PROVE AgreementInv'
  BY <1>15, <1>16 DEF Final, unspent
<1>17. CASE Stop(i)
  <2>1. UNCHANGED <<apart, planned, outcome, trail, calls>> /\ stage[i] \in {"cut", "limit"}
    BY <1>17 DEF Stop, history
  <2>2. CASE Fails(i, "audit") /\ UNCHANGED <<log, records>>
    BY <1>4, <2>1, <2>2 DEF Fails, Stage
  <2>3. CASE ~(Fails(i, "audit") /\ UNCHANGED <<log, records>>)
    BY <1>15, <1>17, <2>1, <2>3 DEF Stop
  <2> QED
    BY <2>2, <2>3
<1> QED
  BY <1>2, <1>5, <1>6, <1>7, <1>8, <1>9, <1>10, <1>11, <1>12, <1>13, <1>14, <1>16,
     <1>17, <1>18 DEF Delegate

----------------------------------------------------------------------------
(* The agreement: the thread of the request.                               *)

LEMMA IntervalCardinality ==
  ASSUME NEW n \in Nat PROVE Cardinality(1..n) = n
BY FS_Interval

\* Between the rounds everything planned has been begun, noted and recorded.
LEMMA AtRest ==
  ASSUME TypeOK, OrchestratorInv, AgreementInv, phase \notin {"delegate", "unwind"}
  PROVE  /\ steps = <<>> /\ next = 1 /\ Base = Len(planned) /\ Begun = 1..Len(planned)
         /\ \A i \in Slot : stage[i] = "none" /\ log[i] = <<>>
         /\ Cardinality(Noting) = 0 /\ Cardinality(Logged) = 0
<1>1. steps = <<>> /\ next = 1
  BY DEF AgreementInv, RoundInv
<1>2. Base = Len(planned)
  <2>1. Len(steps) = 0 /\ Len(planned) \in Nat
    BY <1>1, BookPieces
  <2> QED
    BY <2>1 DEF Base
<1>3. Begun = 1..Len(planned)
  BY <1>2, BookPieces DEF Begun
<1>4. \A i \in Slot : stage[i] = "none" /\ log[i] = <<>>
  BY DEF OrchestratorInv, StageInv, AgreementInv, LogInv
<1>5. Noting = {}
  BY <1>4 DEF Noting
<1>6. \A i \in Slot : CallTurns(log[i]) = {}
  BY <1>4 DEF CallTurns
<1>7. Logged = {}
  BY <1>6, LoggedPairs
<1> QED
  BY <1>1, <1>2, <1>3, <1>4, <1>5, <1>7, FS_EmptySet

\* What the books say between the rounds.
LEMMA RestBooks ==
  ASSUME TypeOK, OrchestratorInv, AgreementInv, phase \in {"plan", "reflect", "synth", "charge"}
  PROVE  /\ Len(observations) = Len(planned)
         /\ \A k \in 1..Len(planned) : observations[k].agent = planned[k]
         /\ tally.delegations = Len(planned)
         /\ tally.unknown = Cardinality(Strangers(1..Len(planned)))
         /\ tally.planUnknown = Cardinality(Strangers(1..first))
         /\ first <= Len(planned)
         /\ trail = calls /\ records.toolCalls = calls
<1>1. Sound
  BY DEF Sound
<1>2. /\ next = 1 /\ Base = Len(planned) /\ Begun = 1..Len(planned)
      /\ Cardinality(Noting) = 0 /\ Cardinality(Logged) = 0
      /\ \A i \in Slot : stage[i] # "failed"
  BY AtRest
<1>3. Len(planned) \in Nat /\ first \in Nat /\ trail \in Nat /\ calls \in Nat
      /\ records.toolCalls \in Nat /\ DOMAIN observations = 1..Len(observations)
  BY BookPieces
<1>4. first <= Len(planned)
  <2>1. CASE phase = "plan"
    <3>1. first = 0
      BY <2>1 DEF AgreementInv, RoundInv
    <3> QED
      BY <1>3, <3>1
  <2>2. CASE phase # "plan"
    BY <2>2 DEF AgreementInv, RoundInv
  <2> QED
    BY <2>1, <2>2
<1>5. Len(observations) = Len(planned) + 1 - 1
  BY <1>1, <1>2 DEF AgreementInv, ObservationInv
<1>6. \A k \in DOMAIN observations : observations[k].agent = planned[k]
  BY <1>1 DEF AgreementInv, ObservationInv
<1>7. Cardinality(1..Len(planned)) = Len(planned)
  BY <1>3, IntervalCardinality
<1>8. (1..Len(planned)) \cap (1..first) = 1..first
  BY <1>3, <1>4
<1>9. /\ tally.delegations = Cardinality(1..Len(planned))
      /\ tally.unknown = Cardinality(Strangers(1..Len(planned)))
      /\ tally.planUnknown = Cardinality(Strangers(1..first))
  <2>1. /\ tally.delegations = Cardinality(Begun)
        /\ tally.unknown = Cardinality(Strangers(Begun))
        /\ tally.planUnknown = Cardinality(Strangers(Begun \cap (1..first)))
    BY <1>1 DEF AgreementInv, TallyInv
  <2> QED
    BY <1>2, <1>8, <2>1
<1>10. trail + 0 = calls /\ records.toolCalls + 0 = trail
  BY <1>1, <1>2 DEF AgreementInv, TrailInv
<1> QED
  BY <1>3, <1>4, <1>5, <1>6, <1>7, <1>9, <1>10

\* Where no request is under way, only the last one's agreement remains.
LEMMA AgreeEnds ==
  ASSUME phase' \in {"idle", "unwind"}, LogInv', Agreement',
         phase' = "idle" => steps' = <<>> /\ next' = 1,
         phase' = "unwind" => outcome' # "answered"
  PROVE  AgreementInv'
BY DEF AgreementInv, RoundInv, ObservationInv, TallyInv, TrailInv, EndInv, Sound

\* The books are the same and the request goes on to its next question.
LEMMA AgreeQuestion ==
  ASSUME TypeOK, OrchestratorInv, AgreementInv,
         phase \in {"reflect", "synth"}, phase' \in {"synth", "charge"},
         UNCHANGED <<steps, next, stage, log, planned, first, observations, tally, trail,
                     calls, outcome>>,
         records'.toolCalls = records.toolCalls, EndInv'
  PROVE  AgreementInv'
<1>1. Sound /\ Sound'
  BY DEF Sound
<1>2. Base' = Base /\ Begun' = Begun /\ Noting' = Noting /\ Logged' = Logged
  BY DEF Base, Begun, Noting, Logged
<1>3. \A S : Strangers(S)' = Strangers(S')
  BY DEF Strangers
<1>4. Strangers(Begun)' = Strangers(Begun)
      /\ Strangers(Begun \cap (1..first))' = Strangers(Begun \cap (1..first))
  BY <1>2 DEF Strangers
<1>5. RoundInv'
  BY DEF AgreementInv, RoundInv
<1>6. ObservationInv' /\ TallyInv' /\ TrailInv'
  BY <1>1, <1>2, <1>4 DEF AgreementInv, ObservationInv, TallyInv, TrailInv
<1>7. LogInv' /\ Agreement'
  BY DEF AgreementInv, LogInv, EndInv, Agreement
<1> QED
  BY <1>5, <1>6, <1>7 DEF AgreementInv

LEMMA CutLen ==
  ASSUME NEW plan \in Seq(Name)
  PROVE  Len(Cut(plan)) \in Nat /\ Len(Cut(plan)) <= MaxPlanSteps
BY CutType, LenProperties

\* A round begins: its steps are queued and none has been begun.
LEMMA BatchAgrees ==
  ASSUME TypeOK, OrchestratorInv, AgreementInv, phase \in {"plan", "reflect"},
         NEW plan \in Seq(Name), NEW of \in BOOLEAN, Batch(plan, of), of = (phase = "plan"),
         first' = IF of THEN Len(Cut(plan)) ELSE first,
         UNCHANGED <<observations, tally, trail, calls, records, outcome>>
  PROVE  AgreementInv'
<1> DEFINE cut == Cut(plan)
           b == Len(planned)
           l == Len(cut)
<1>1. /\ phase' = "delegate" /\ next' = 1 /\ fromPlan' = of /\ steps' = cut
      /\ planned' = planned \o cut
      /\ stage' = [i \in Slot |-> IF i <= l THEN "queued" ELSE "none"]
      /\ log' = [i \in Slot |-> <<>>]
  BY DEF Batch
<1>2. /\ cut \in Seq(Name) /\ l \in Nat /\ l <= MaxPlanSteps /\ MaxPlanSteps \in Nat
      /\ planned \in Seq(Name) /\ b \in Nat /\ first \in Nat
  BY BookPieces, CutType, CutLen, BoundAssumption
<1>3. /\ Len(planned') = b + l
      /\ \A k \in 1..b : planned'[k] = planned[k]
      /\ \A k \in 1..l : planned'[b + k] = cut[k]
  <2>1. /\ Len(planned') = b + l
        /\ \A k \in 1..(b + l) : planned'[k] = IF k <= b THEN planned[k] ELSE cut[k - b]
    BY <1>1, <1>2, ConcatProperties
  <2> HIDE DEF b, l, cut
  <2>2. \A k \in 1..b : k \in 1..(b + l) /\ k <= b
    BY <1>2
  <2>3. \A k \in 1..l : b + k \in 1..(b + l) /\ ~(b + k <= b) /\ b + k - b = k
    BY <1>2
  <2>4. ASSUME NEW k \in 1..l PROVE planned'[b + k] = cut[k]
    <3>1. b + k \in 1..(b + l) /\ ~(b + k <= b) /\ b + k - b = k
      BY <2>3
    <3>2. PICK x \in 1..(b + l) : x = b + k
      BY <3>1
    <3>3. planned'[x] = IF x <= b THEN planned[x] ELSE cut[x - b]
      BY <2>1
    <3>4. ~(x <= b) /\ x - b = k
      BY <1>2, <3>2
    <3> QED
      BY <3>2, <3>3, <3>4
  <2> QED
    BY <2>1, <2>2, <2>4
<1>4. /\ Len(observations) = b /\ \A k \in 1..b : observations[k].agent = planned[k]
      /\ tally.delegations = b
      /\ tally.unknown = Cardinality(Strangers(1..b))
      /\ tally.planUnknown = Cardinality(Strangers(1..first))
      /\ first <= b /\ trail = calls /\ records.toolCalls = calls
  BY RestBooks
<1>5. phase = "plan" => b = 0 /\ first = 0
  BY DEF AgreementInv, RoundInv
<1>6. outcome # "answered"
  BY DEF AgreementInv, EndInv
<1>7. Base' = b
  <2> HIDE DEF b, l, cut
  <2> QED
    BY <1>1, <1>2, <1>3 DEF Base, l
<1>8. Begun' = 1..b
  <2>1. Begun' = {k \in 1..(b + l) : k <= b \/ stage'[k - b] # "queued"}
    BY <1>3, <1>7 DEF Begun
  <2>2. ASSUME NEW k \in 1..(b + l), ~(k <= b) PROVE stage'[k - b] = "queued"
    <3> HIDE DEF b, l
    <3>1. k - b \in Slot /\ k - b <= l
      BY <1>2, <2>2 DEF Slot
    <3> QED
      BY <1>1, <3>1
  <2> HIDE DEF b, l
  <2>3. \A k \in 1..b : k \in 1..(b + l) /\ k <= b
    BY <1>2
  <2>4. \A k \in 1..(b + l) : k <= b => k \in 1..b
    BY <1>2
  <2> QED
    BY <2>1, <2>2, <2>3, <2>4
<1>9. /\ Strangers(Begun)' = Strangers(1..b)
      /\ Strangers(Begun \cap (1..first))' = Strangers(1..first)
  <2>1. (1..b) \cap (1..first') = 1..first
    <3>1. CASE of
      <4>1. b = 0 /\ first = 0
        BY <1>5, <3>1
      <4> QED
        BY <4>1
    <3>2. CASE ~of
      <4> HIDE DEF b
      <4> QED
        BY <1>2, <1>4, <3>2
    <3> QED
      BY <3>1, <3>2
  <2>2. 1..first \subseteq 1..b
    <3> HIDE DEF b
    <3> QED
      BY <1>2, <1>4
  <2> HIDE DEF b, l, cut
  <2> QED
    BY <1>3, <1>8, <2>1, <2>2 DEF Strangers
<1>10. TallyInv'
  <2>1. Cardinality(1..b) = b
    BY <1>2, IntervalCardinality
  <2> HIDE DEF b, l, cut
  <2> QED
    BY <1>4, <1>8, <1>9, <2>1 DEF TallyInv
<1>11. ObservationInv'
  <2>1. DOMAIN observations = 1..b
    BY <1>4, BookPieces
  <2>2. b + 1 - 1 = b
    BY <1>2
  <2> HIDE DEF b, l, cut
  <2> QED
    BY <1>1, <1>3, <1>4, <1>7, <2>1, <2>2 DEF ObservationInv
<1>12. Noting' = {} /\ Logged' = {}
  <2>1. Noting' = {}
    BY <1>1 DEF Noting
  <2>2. \A i \in Slot : CallTurns(log'[i]) = {}
    BY <1>1 DEF CallTurns
  <2>3. \A p : p \in Logged' <=> \E j \in Slot : p \in {j} \X CallTurns(log'[j])
    BY DEF Logged
  <2> QED
    BY <2>1, <2>2, <2>3
<1>13. TrailInv'
  <2>1. Cardinality(Noting') = 0 /\ Cardinality(Logged') = 0
    BY <1>12, FS_EmptySet
  <2>2. trail \in Nat /\ calls \in Nat /\ records.toolCalls \in Nat
    BY BookPieces
  <2> QED
    BY <1>4, <2>1, <2>2 DEF TrailInv
<1>14. RoundInv'
  <2>1. next' <= l + 1 /\ l <= b + l
    <3> HIDE DEF b, l
    <3> QED
      BY <1>1, <1>2
  <2>2. \A i \in Slot : next' <= i /\ i <= l => stage'[i] # "none"
    BY <1>1
  <2>3. IF fromPlan' THEN b = 0 /\ first' = l ELSE first' <= b
    BY <1>1, <1>4, <1>5
  <2> HIDE DEF b, l, cut
  <2>4. Len(steps') = l
    BY <1>1 DEF l
  <2> QED
    BY <1>1, <1>3, <1>7, <2>1, <2>2, <2>3, <2>4 DEF RoundInv
<1>15. LogInv' /\ EndInv' /\ Agreement'
  BY <1>1, <1>6 DEF LogInv, EndInv, Agreement
<1> QED
  BY <1>10, <1>11, <1>13, <1>14, <1>15 DEF AgreementInv

LEMMA RequestAgrees ==
  ASSUME TypeOK, OrchestratorInv, AgreementInv, Request
  PROVE  AgreementInv'
<1>1. /\ phase' = "plan" /\ outcome' = None /\ planned' = <<>> /\ first' = 0
      /\ observations' = <<>> /\ tally' = NoTally /\ trail' = 0 /\ calls' = 0
      /\ records'.toolCalls = 0 /\ UNCHANGED <<steps, next, stage, log>>
  BY DEF Request, pool
<1>2. /\ steps = <<>> /\ next = 1
      /\ \A i \in Slot : stage[i] = "none" /\ log[i] = <<>>
  BY AtRest DEF Request
<1>3. Base' = 0 /\ Begun' = {}
  <2>1. Base' = 0
    BY <1>1, <1>2 DEF Base
  <2> QED
    BY <1>1, <2>1 DEF Begun
<1>4. Noting' = {} /\ Logged' = {}
  <2>1. Noting' = {}
    BY <1>1, <1>2 DEF Noting
  <2>2. \A i \in Slot : CallTurns(log'[i]) = {}
    BY <1>1, <1>2 DEF CallTurns
  <2>3. \A p : p \in Logged' <=> \E j \in Slot : p \in {j} \X CallTurns(log'[j])
    BY DEF Logged
  <2> QED
    BY <2>1, <2>2, <2>3
<1>5. RoundInv'
  BY <1>1, <1>2 DEF RoundInv
<1>6. ObservationInv'
  BY <1>1, <1>2, <1>3 DEF ObservationInv
<1>7. TallyInv'
  <2>1. Strangers(Begun)' = {} /\ Strangers(Begun \cap (1..first))' = {}
    BY <1>3 DEF Strangers
  <2> QED
    BY <1>1, <1>3, <2>1, FS_EmptySet DEF TallyInv, NoTally
<1>8. TrailInv'
  BY <1>1, <1>4, FS_EmptySet DEF TrailInv
<1>9. LogInv'
  BY <1>1, <1>2 DEF LogInv
<1>10. EndInv' /\ Agreement'
  BY <1>1, NoneAssumption DEF EndInv, Agreement
<1> QED
  BY <1>5, <1>6, <1>7, <1>8, <1>9, <1>10 DEF AgreementInv

\* The books are closed on an answer: they agree.
LEMMA ChargeAgrees ==
  ASSUME TypeOK, OrchestratorInv, AgreementInv, Charge
  PROVE  AgreementInv'
<1>1. /\ phase = "charge" /\ phase' = "idle" /\ charged' = meter
      /\ UNCHANGED <<steps, next, stage, log, planned, first, observations, trail, calls,
                     budget, records, used>>
  BY DEF Charge, pool, books
<1>2. records.run = [steps |-> first, tally |-> tally, rounds |-> rounds, tokens |-> meter]
  BY <1>1 DEF AgreementInv, EndInv
<1>3. /\ Len(observations) = Len(planned)
      /\ \A k \in 1..Len(planned) : observations[k].agent = planned[k]
      /\ tally.delegations = Len(planned)
      /\ tally.unknown = Cardinality(Strangers(1..Len(planned)))
      /\ tally.planUnknown = Cardinality(Strangers(1..first))
      /\ trail = calls /\ records.toolCalls = calls
  BY <1>1, RestBooks
<1>4. meter = used /\ budget + calls = MaxCalls
  BY <1>1, AskedBooks
<1>5. MaxCalls - budget = calls
  <2>1. budget \in Nat /\ calls \in Nat
    BY BookPieces, Pieces
  <2> QED
    BY <1>4, <2>1
<1>6. DOMAIN planned = 1..Len(planned)
  BY BookPieces
<1>7. /\ records.run.steps = first /\ records.run.tally = tally /\ records.run.tokens = meter
  BY <1>2
<1>8. Agreement'
  BY <1>1, <1>3, <1>4, <1>5, <1>6, <1>7 DEF Agreement, Strangers
<1>9. steps' = <<>> /\ next' = 1 /\ LogInv'
  BY <1>1 DEF AgreementInv, RoundInv, LogInv
<1> QED
  BY <1>1, <1>8, <1>9, AgreeEnds

LEMMA CollectAgrees ==
  ASSUME TypeOK, OrchestratorInv, AgreementInv, Collect
  PROVE  AgreementInv'
<1>1. /\ phase = "delegate" /\ phase' = phase /\ next <= Len(steps) /\ stage[next] = "ready"
      /\ observations' = Append(observations, [agent |-> steps[next], as |-> result[next]])
      /\ stage' = [stage EXCEPT ![next] = "none"] /\ next' = next + 1
      /\ UNCHANGED <<fromPlan, steps, log, planned, first, tally, trail, calls, records, outcome>>
  BY DEF Collect, history
<1>2. /\ next \in Slot /\ next \in Nat \ {0} /\ Len(steps) \in Nat /\ next \in 1..Len(steps)
  BY <1>1, BookPieces, BoundAssumption DEF Slot
<1>3. /\ stage \in [Slot -> Stage] /\ stage'[next] = "none"
      /\ \A j \in Slot : j # next => stage'[j] = stage[j]
  BY <1>1, <1>2, Pieces
<1>4. /\ next <= Len(steps) + 1 /\ Len(steps) <= Len(planned)
      /\ \A k \in 1..Len(steps) : planned[Base + k] = steps[k]
      /\ \A i \in Slot : next <= i /\ i <= Len(steps) => stage[i] # "none"
      /\ IF fromPlan THEN Base = 0 /\ first = Len(steps) ELSE first <= Base
  BY <1>1 DEF AgreementInv, RoundInv
<1>5. Base' = Base /\ Base \in Nat
  BY <1>1, <1>4, BookPieces DEF Base
<1>6. Begun' = Begun
  <2>1. \A k \in 1..Len(planned) : k <= Base \/ k - Base \in Slot
    <3> DEFINE b == Base
               l == Len(steps)
               n == Len(planned)
    <3>1. b \in Nat /\ l \in Nat /\ n = b + l /\ l <= MaxPlanSteps /\ MaxPlanSteps \in Nat
      BY <1>4, <1>5, BookPieces, BoundAssumption DEF Base
    <3> HIDE DEF b, l, n
    <3>2. \A k \in 1..n : k <= b \/ k - b \in Slot
      BY <3>1 DEF Slot
    <3> QED
      BY <3>2 DEF b, n
  <2>2. \A k \in 1..Len(planned) :
           k <= Base \/ (stage'[k - Base] = "queued" <=> stage[k - Base] = "queued")
    BY <1>1, <1>3, <2>1
  <2> QED
    BY <1>1, <1>5, <2>2 DEF Begun
<1>7. TallyInv'
  <2>1. /\ Strangers(Begun)' = Strangers(Begun)
        /\ Strangers(Begun \cap (1..first))' = Strangers(Begun \cap (1..first))
    BY <1>1, <1>6 DEF Strangers
  <2> QED
    BY <1>1, <1>6, <2>1 DEF AgreementInv, TallyInv, Sound
<1>8. TrailInv'
  <2>1. Noting' = Noting
    BY <1>1, <1>3 DEF Noting
  <2>2. Logged' = Logged
    BY <1>1 DEF Logged
  <2>3. (\A i \in Slot : stage'[i] # "failed") => \A i \in Slot : stage[i] # "failed"
    BY <1>1, <1>3
  <2> QED
    BY <1>1, <2>1, <2>2, <2>3 DEF AgreementInv, TrailInv, Sound
<1>9. RoundInv'
  <2>1. next' <= Len(steps) + 1
    BY <1>1, <1>2
  <2>2. \A i \in Slot : next' <= i /\ i <= Len(steps) => stage'[i] # "none"
    <3>1. \A i \in Slot : next' <= i => i # next /\ next <= i
      BY <1>1, <1>2, SlotFinite
    <3> QED
      BY <1>3, <1>4, <3>1
  <2> QED
    BY <1>1, <1>4, <1>5, <2>1, <2>2 DEF RoundInv
<1>10. ObservationInv'
  <2> DEFINE o == observations
             e == [agent |-> steps[next], as |-> result[next]]
             n == Len(o)
  <2>1. /\ o \in Seq([agent : Name, as : Result]) /\ n \in Nat /\ DOMAIN o = 1..n
        /\ n = Base + next - 1
        /\ \A k \in DOMAIN o : o[k].agent = planned[k]
    BY <1>1, BookPieces DEF AgreementInv, ObservationInv, Sound
  <2>2. e \in [agent : Name, as : Result]
    BY <1>2, Pieces, BookPieces, ElementOfSeq
  <2>3. /\ Len(o') = n + 1 /\ DOMAIN o' = 1..(n + 1) /\ o'[n + 1] = e
        /\ \A k \in 1..n : o'[k] = o[k]
    BY <1>1, <2>1, <2>2, AppendProperties
  <2>4. planned[Base + next] = steps[next]
    BY <1>2, <1>4
  <2>5. n + 1 = Base + next
    BY <1>2, <1>5, <2>1
  <2>6. o'[n + 1].agent = planned[n + 1]
    BY <2>3, <2>4, <2>5
  <2> HIDE DEF o, e, n
  <2>7. \A k \in 1..(n + 1) : k \in 1..n \/ k = n + 1
    BY <2>1
  <2>8. \A k \in DOMAIN o' : o'[k].agent = planned[k]
    BY <2>1, <2>3, <2>6, <2>7
  <2>9. Len(o') = Base' + next' - 1
    BY <1>1, <1>2, <1>5, <2>3, <2>5
  <2> QED
    BY <1>1, <2>8, <2>9 DEF ObservationInv, o
<1>11. LogInv' /\ EndInv' /\ Agreement'
  <2>1. log[next] = <<>>
    BY <1>1, <1>2 DEF AgreementInv, LogInv
  <2>2. LogInv'
    BY <1>1, <1>3, <2>1 DEF AgreementInv, LogInv
  <2>3. outcome # "answered"
    BY <1>1 DEF AgreementInv, EndInv
  <2> QED
    BY <1>1, <2>2, <2>3 DEF EndInv, Agreement
<1> QED
  BY <1>7, <1>8, <1>9, <1>10, <1>11 DEF AgreementInv

LEMMA RoundOverAgrees ==
  ASSUME TypeOK, OrchestratorInv, AgreementInv, RoundOver
  PROVE  AgreementInv'
<1>1. /\ phase = "delegate" /\ next > Len(steps) /\ phase' \in {"reflect", "synth"}
      /\ steps' = <<>> /\ next' = 1
      /\ stage' = [i \in Slot |-> "none"] /\ log' = [i \in Slot |-> <<>>]
      /\ UNCHANGED <<planned, first, tally, observations, trail, calls, records, outcome>>
  BY DEF RoundOver, Forget, history
<1>2. /\ next <= Len(steps) + 1 /\ Len(steps) <= Len(planned)
      /\ IF fromPlan THEN Base = 0 /\ first = Len(steps) ELSE first <= Base
  BY <1>1 DEF AgreementInv, RoundInv
<1>3. \A i \in Slot : stage[i] = "none"
  <2>1. \A i \in Slot : ~(next <= i /\ i <= Len(steps))
    BY <1>1, BookPieces, SlotFinite
  <2> QED
    BY <2>1 DEF OrchestratorInv, StageInv
<1>4. /\ Len(steps) \in Nat /\ Len(planned) \in Nat /\ next \in Nat /\ first \in Nat
      /\ Len(steps) <= MaxPlanSteps /\ MaxPlanSteps \in Nat
  BY BookPieces, BoundAssumption
<1>5. Base \in Nat /\ Len(planned) = Base + Len(steps) /\ next = Len(steps) + 1
  BY <1>1, <1>2, <1>4 DEF Base
<1>6. Base' = Len(planned)
  BY <1>1, <1>4 DEF Base
<1>7. first <= Len(planned)
  <2>1. CASE fromPlan
    BY <1>2, <1>4, <2>1
  <2>2. CASE ~fromPlan
    BY <1>2, <1>4, <1>5, <2>2
  <2> QED
    BY <2>1, <2>2
<1>8. Begun = 1..Len(planned) /\ Begun' = 1..Len(planned)
  <2>1. \A k \in 1..Len(planned) : k <= Base \/ k - Base \in Slot
    <3> DEFINE b == Base
               l == Len(steps)
               n == Len(planned)
    <3>1. b \in Nat /\ l \in Nat /\ n = b + l /\ l <= MaxPlanSteps /\ MaxPlanSteps \in Nat
      BY <1>4, <1>5
    <3> HIDE DEF b, l, n
    <3>2. \A k \in 1..n : k <= b \/ k - b \in Slot
      BY <3>1 DEF Slot
    <3> QED
      BY <3>2 DEF b, n
  <2>2. Begun = 1..Len(planned)
    BY <1>3, <2>1 DEF Begun
  <2>3. Begun' = 1..Len(planned)
    BY <1>1, <1>6 DEF Begun
  <2> QED
    BY <2>2, <2>3
<1>9. Sound /\ Sound'
  BY <1>1 DEF Sound
<1>10. TallyInv'
  <2>1. /\ Strangers(Begun)' = Strangers(Begun)
        /\ Strangers(Begun \cap (1..first))' = Strangers(Begun \cap (1..first))
    BY <1>1, <1>8 DEF Strangers
  <2> QED
    BY <1>1, <1>8, <1>9, <2>1 DEF AgreementInv, TallyInv
<1>11. ObservationInv'
  <2>1. /\ Len(observations) = Base + next - 1
        /\ \A k \in DOMAIN observations : observations[k].agent = planned[k]
    BY <1>9 DEF AgreementInv, ObservationInv
  <2>2. Len(observations) = Base' + next' - 1
    BY <1>1, <1>4, <1>5, <1>6, <2>1
  <2> QED
    BY <1>1, <2>1, <2>2 DEF ObservationInv
<1>12. TrailInv'
  <2>1. Noting' = Noting
    BY <1>1, <1>3 DEF Noting
  <2>2. Logged' = Logged
    <3>1. \A i \in Slot : log'[i] = log[i]
      BY <1>1, <1>3 DEF AgreementInv, LogInv
    <3> QED
      BY <3>1 DEF Logged
  <2> QED
    BY <1>1, <1>3, <1>9, <2>1, <2>2 DEF AgreementInv, TrailInv
<1>13. RoundInv'
  BY <1>1, <1>7 DEF RoundInv
<1>14. LogInv' /\ EndInv' /\ Agreement'
  <2>1. outcome # "answered"
    BY <1>1 DEF AgreementInv, EndInv
  <2> QED
    BY <1>1, <2>1 DEF LogInv, EndInv, Agreement
<1> QED
  BY <1>10, <1>11, <1>12, <1>13, <1>14 DEF AgreementInv

LEMMA ServeAgrees ==
  ASSUME TypeOK, OrchestratorInv, AgreementInv, Serve
  PROVE  AgreementInv'
<1>0. Tokens \subseteq Nat /\ LogInv /\ RoundInv
  BY BoundAssumption DEF AgreementInv
<1>1. CASE AskFails
  <2>1. /\ phase \in {"plan", "reflect", "synth"} /\ phase' = "idle" /\ outcome' = "refused"
        /\ UNCHANGED <<steps, next, stage, log>>
    BY <1>1 DEF AskFails, End, pool
  <2>2. LogInv' /\ Agreement' /\ steps' = <<>> /\ next' = 1
    BY <1>0, <2>1 DEF LogInv, Agreement, RoundInv
  <2> QED
    BY <2>1, <2>2, AgreeEnds
<1>2. ASSUME NEW t \in Tokens, NEW p \in Plans, Plan(p, t) PROVE AgreementInv'
  <2>1. p \in Seq(Name)
    BY AgentAssumption
  <2>2. /\ phase = "plan" /\ Batch(p, TRUE) /\ first' = Len(Cut(p))
        /\ UNCHANGED <<observations, tally, trail, calls, records, outcome>>
    BY <1>2 DEF Plan
  <2> QED
    BY <2>1, <2>2, BatchAgrees
<1>3. ASSUME NEW t \in Tokens, NEW e \in Extras, Reflect(e, t) PROVE AgreementInv'
  <2>1. e \in Seq(Name)
    BY AgentAssumption
  <2>2. /\ phase = "reflect"
        /\ UNCHANGED <<first, observations, tally, trail, calls, records, outcome>>
    BY <1>3 DEF Reflect
  <2>3. CASE Batch(e, FALSE)
    BY <2>1, <2>2, <2>3, BatchAgrees
  <2>4. CASE ~Batch(e, FALSE)
    <3>1. phase' = "synth" /\ UNCHANGED <<steps, next, stage, log, planned>>
      BY <1>3, <2>4 DEF Reflect
    <3>2. EndInv'
      BY <2>2, <3>1 DEF AgreementInv, EndInv
    <3> QED
      BY <2>2, <3>1, <3>2, AgreeQuestion
  <2> QED
    BY <2>3, <2>4
<1>4. ASSUME NEW t \in Tokens, Synthesize(t) PROVE AgreementInv'
  <2>1. /\ phase = "synth" /\ phase' = "charge"
        /\ UNCHANGED <<steps, next, stage, log, planned, first, observations, tally, rounds,
                       trail, calls, outcome>>
        /\ records' = [records EXCEPT !.run =
             [steps |-> first, tally |-> tally, rounds |-> rounds, tokens |-> meter']]
    BY <1>4 DEF Synthesize, pool
  <2>2. /\ records'.toolCalls = records.toolCalls
        /\ records'.run = [steps |-> first, tally |-> tally, rounds |-> rounds,
                           tokens |-> meter']
    BY <2>1, BookPieces
  <2>3. EndInv'
    BY <2>1, <2>2 DEF AgreementInv, EndInv
  <2> QED
    BY <2>1, <2>2, <2>3, AgreeQuestion
<1>5. CASE NoticeFailure
  <2>1. /\ phase = "delegate" /\ phase' = "unwind" /\ outcome' = outcome /\ log' = log
        /\ \A i \in Slot : stage'[i] = stage[i] \/ stage[i] = "queued"
    BY <1>5 DEF NoticeFailure, history
  <2>2. outcome # "answered"
    BY <2>1 DEF AgreementInv, EndInv
  <2>3. LogInv' /\ Agreement'
    BY <1>0, <2>1, <2>2 DEF LogInv, Agreement
  <2> QED
    BY <2>1, <2>2, <2>3, AgreeEnds
<1>7. CASE ChargeFails
  <2>1. /\ phase = "charge" /\ phase' = "idle" /\ outcome' = "crashed"
        /\ steps' = steps /\ next' = next /\ log' = log /\ stage' = stage
    BY <1>7 DEF ChargeFails, pool
  <2>2. LogInv' /\ Agreement'
    BY <1>0, <2>1 DEF LogInv, Agreement
  <2>3. steps' = <<>> /\ next' = 1
    BY <1>0, <2>1 DEF RoundInv
  <2> QED
    BY <2>1, <2>2, <2>3, AgreeEnds
<1>6. CASE Unwind
  <2>1. /\ phase' = "idle" /\ outcome' \in {"refused", "crashed"} /\ steps' = <<>> /\ next' = 1
        /\ log' = [i \in Slot |-> <<>>]
    BY <1>6 DEF Unwind, End, Fate, Forget
  <2>2. LogInv' /\ Agreement'
    BY <2>1 DEF LogInv, Agreement
  <2> QED
    BY <2>1, <2>2, AgreeEnds
<1> QED
  BY <1>1, <1>2, <1>3, <1>4, <1>5, <1>6, <1>7, ChargeAgrees, CollectAgrees, RoundOverAgrees DEF Serve

LEMMA AgreementInit == Init => AgreementInv
<1> SUFFICES ASSUME Init PROVE AgreementInv
  OBVIOUS
<1>1. phase = "idle" /\ steps = <<>> /\ next = 1 /\ outcome = None /\ log = [i \in Slot |-> <<>>]
  BY DEF Init
<1> QED
  BY <1>1, NoneAssumption DEF AgreementInv, RoundInv, ObservationInv, TallyInv, TrailInv, LogInv,
     EndInv, Agreement, Sound

LEMMA AgreementStep ==
  ASSUME TypeOK, OrchestratorInv, AgreementInv, [Next]_vars
  PROVE  AgreementInv'
<1>1. CASE UNCHANGED vars
  <2>1. UNCHANGED <<phase, fromPlan, steps, stage, next, log, budget, tally, first, observations,
                    rounds, records, meter, planned, used, calls, trail, charged, outcome>>
    BY <1>1 DEF vars, pool, books, history
  <2>2. /\ Base' = Base /\ Noting' = Noting /\ Logged' = Logged
    BY <2>1 DEF Base, Noting, Logged
  <2>3. Begun' = Begun
    BY <2>1, <2>2 DEF Begun
  <2>4. /\ Strangers(Begun)' = Strangers(Begun)
        /\ Strangers(Begun \cap (1..first))' = Strangers(Begun \cap (1..first))
    BY <2>1, <2>3 DEF Strangers
  <2>5. RoundInv' /\ ObservationInv'
    BY <2>1, <2>2 DEF AgreementInv, RoundInv, ObservationInv, Sound
  <2>6. TallyInv' /\ TrailInv'
    BY <2>1, <2>2, <2>3, <2>4 DEF AgreementInv, TallyInv, TrailInv, Sound
  <2>7. LogInv' /\ EndInv' /\ Agreement'
    BY <2>1 DEF AgreementInv, LogInv, EndInv, Agreement
  <2> QED
    BY <2>5, <2>6, <2>7 DEF AgreementInv
<1> QED
  BY <1>1, RequestAgrees, ServeAgrees, DelegateAgrees DEF Next

----------------------------------------------------------------------------
(* The theorems.                                                           *)

LEMMA NextKeeps ==
  ASSUME TypeOK, OrchestratorInv, [Next]_vars
  PROVE  TypeOK' /\ OrchestratorInv'
<1>1. CASE Request
  BY <1>1, RequestType, RequestKeeps
<1>2. CASE Serve
  BY <1>2, ServeType, ServeKeeps
<1>3. ASSUME NEW i \in Slot, Delegate(i)
      PROVE  TypeOK' /\ OrchestratorInv'
  BY <1>3, DelegateType, DelegateKeeps
<1>4. CASE UNCHANGED vars
  <2>1. TypeOK'
    BY <1>4 DEF vars, pool, books, history, TypeOK, PoolType, BookType, HistoryType
  <2>2. OrchestratorInv'
    BY <1>4 DEF vars, pool, books, history, OrchestratorInv, StageInv, LockInv, OwnInv,
       BudgetExact, MeterExact, Paid
  <2> QED
    BY <2>1, <2>2
<1> QED
  BY <1>1, <1>2, <1>3, <1>4 DEF Next

LEMMA Invariance == Spec => [](TypeOK /\ OrchestratorInv /\ AgreementInv)
<1>1. Init => TypeOK /\ OrchestratorInv /\ AgreementInv
  BY InitType, AgreementInit
<1>2. TypeOK /\ OrchestratorInv /\ AgreementInv /\ [Next]_vars
        => (TypeOK /\ OrchestratorInv /\ AgreementInv)'
  BY NextKeeps, AgreementStep
<1> QED
  BY <1>1, <1>2, PTL DEF Spec

\* Every variable has its type, in every orchestration with any number of steps,
\* threads and requests.
THEOREM TypeCorrect == Spec => []TypeOK
BY Invariance, PTL

\* However the steps of a round interleave, the budget of tool calls is exact:
\* no two of them spend the same call.
THEOREM BudgetCorrect == Spec => []BudgetExact
<1>1. OrchestratorInv => BudgetExact
  BY DEF OrchestratorInv
<1> QED
  BY Invariance, <1>1, PTL

\* However the steps interleave, the meter loses no tokens and counts none twice.
THEOREM MeterCorrect == Spec => []MeterExact
<1>1. OrchestratorInv => MeterExact
  BY DEF OrchestratorInv
<1> QED
  BY Invariance, <1>1, PTL

\* No thread of the pool works on outside the round it belongs to, also after a
\* step has raised.
THEOREM NoStrayCorrect == Spec => []NoStray
<1>1. OrchestratorInv => NoStray
  BY DEF OrchestratorInv, StageInv, NoStray, Running
<1> QED
  BY Invariance, <1>1, PTL

\* The observations, the tally, the record, the audit log, the budget and the
\* account agree on every request that was answered.
THEOREM AgreementCorrect == Spec => []Agreement
<1>1. AgreementInv => Agreement
  BY DEF AgreementInv
<1> QED
  BY Invariance, <1>1, PTL

\* An orchestration begins as a bounded run does.
LEMMA InitBounded == Init => Bounded!Init
BY DEF Init, Bounded!Init, NoTokens, Bounded!Nothing

\* A step of the pool is a tool call, a use of tokens, or nothing of a bounded run.
LEMMA DelegateBounded ==
  ASSUME TypeOK, OrchestratorInv, NEW i \in Slot, Delegate(i)
  PROVE  [Bounded!Next]_Bounded!vars
<1> USE DEF Bounded!Next, Bounded!vars
<1>0. Tokens \subseteq Nat /\ i \in Source /\ used \in [Source -> Nat]
  BY BoundAssumption, SlotSource DEF TypeOK, HistoryType
<1>1. ASSUME NEW t \in Tokens, Ask(i, t) \/ Final(i, t) \/ Malformed(i, t) \/ Action(i, t)
      PROVE  Bounded!Use
  <2>1. stage[i] \in {"ask", "loop"} /\ Costs(i, t) /\ UNCHANGED <<phase, calls, charged>>
    BY <1>1 DEF Ask, Final, Malformed, Action, apart, unspent
  <2>2. phase # "idle"
    BY <2>1 DEF OrchestratorInv, StageInv
  <2>3. used' = [used EXCEPT ![i] = used[i] + t]
    BY <2>1 DEF Costs
  <2>4. used' \in [Source -> Nat] /\ \A s \in Source : used'[s] >= used[s]
    BY <1>0, <2>3
  <2> QED
    BY <2>1, <2>2, <2>4 DEF Bounded!Use, Bounded!Spend
<1>2. CASE Dispatch(i)
  <2>1. phase # "idle"
    BY <1>2 DEF Dispatch, OrchestratorInv, StageInv
  <2>2. Bounded!Call
    BY <1>2, <2>1, DispatchKeeps DEF Dispatch, apart, Bounded!Call
  <2> QED
    BY <2>2
<1>3. CASE \/ SkipUnknown(i) \/ Withhold(i) \/ GateFails(i) \/ Start(i) \/ RaiseInStep(i)
           \/ Deny(i) \/ SpendRead(i) \/ SpendWrite(i) \/ Note(i) \/ Stop(i)
           \/ MeterRead(i) \/ MeterWrite(i) \/ MeterNothing(i)
  <2>1. UNCHANGED <<phase, calls, used, charged>>
    BY <1>3 DEF SkipUnknown, Withhold, GateFails, Start, RaiseInStep, Deny, SpendRead,
       SpendWrite, Note, Stop, MeterRead, MeterWrite, MeterNothing, apart, history
  <2> QED
    BY <2>1
<1> QED
  BY <1>1, <1>2, <1>3 DEF Delegate

LEMMA ServeBounded ==
  ASSUME TypeOK, OrchestratorInv, Serve
  PROVE  [Bounded!Next]_Bounded!vars
<1> USE DEF Bounded!Next, Bounded!vars
<1>0. Tokens \subseteq Nat /\ used \in [Source -> Nat]
  BY BoundAssumption DEF TypeOK, HistoryType
<1>1. CASE AskFails \/ Unwind
  BY <1>1 DEF AskFails, Unwind, End, Bounded!Fail
<1>8. CASE ChargeFails
  BY <1>8, AskedBooks DEF ChargeFails, Bounded!Fail
<1>2. ASSUME NEW t \in Tokens, Asked(t), phase # "idle", phase' # "idle",
             UNCHANGED <<calls, charged>>
      PROVE  Bounded!Use
  <2>1. used' = [used EXCEPT ![0] = used[0] + t]
    BY <1>2 DEF Asked
  <2>2. used' \in [Source -> Nat] /\ \A s \in Source : used'[s] >= used[s]
    BY <1>0, <2>1, SlotSource
  <2> QED
    BY <1>2, <2>2 DEF Bounded!Use, Bounded!Spend
<1>3. ASSUME NEW t \in Tokens, NEW p \in Plans, Plan(p, t)
      PROVE  Bounded!Use
  BY <1>2, <1>3 DEF Plan, Batch
<1>4. ASSUME NEW t \in Tokens, NEW e \in Extras, Reflect(e, t)
      PROVE  Bounded!Use
  BY <1>2, <1>4 DEF Reflect, Batch
<1>5. ASSUME NEW t \in Tokens, Synthesize(t)
      PROVE  Bounded!Use
  BY <1>2, <1>5 DEF Synthesize
<1>6. CASE Charge
  <2>1. meter = used
    BY <1>6, AskedBooks DEF Charge
  <2> QED
    BY <1>0, <1>6, <2>1 DEF Charge, Bounded!Answer, Bounded!Spend
<1>7. CASE Collect \/ RoundOver \/ NoticeFailure
  BY <1>7 DEF Collect, RoundOver, NoticeFailure, history
<1> QED
  BY <1>1, <1>3, <1>4, <1>5, <1>6, <1>7, <1>8 DEF Serve

LEMMA NextBounded ==
  ASSUME TypeOK, OrchestratorInv, [Next]_vars
  PROVE  [Bounded!Next]_Bounded!vars
<1>1. CASE Request
  BY <1>1 DEF Request, NoTokens, Bounded!Nothing, Bounded!Begin, Bounded!Next
<1>2. CASE UNCHANGED vars
  BY <1>2 DEF vars, history, Bounded!vars
<1> QED
  BY <1>1, <1>2, ServeBounded, DelegateBounded DEF Next

\* An orchestration keeps the promise of a bounded run: it calls tools at most
\* MaxCalls times, and an answered one is charged all the tokens it used.
THEOREM RunImplemented == Spec => ImplementsRun
<1>1. TypeOK /\ OrchestratorInv /\ [Next]_vars => [Bounded!Next]_Bounded!vars
  BY NextBounded
<1> QED
  BY InitBounded, Invariance, <1>1, PTL DEF Spec, ImplementsRun, Bounded!Spec

=============================================================================
