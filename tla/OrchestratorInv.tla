--------------------------- MODULE OrchestratorInv ---------------------------
(***************************************************************************)
(* What an orchestration keeps true.                                       *)
(***************************************************************************)
EXTENDS Orchestrator

Stage == {"none", "queued", "loop", "ask", "deny", "spend", "dispatch", "note",
          "cut", "limit", "meter", "ready", "failed"}
Result == {None, "answer", "skipped", "denied", "cut", "limit", "router", "audit", "tool"}
Phase == {"idle", "plan", "delegate", "unwind", "reflect", "synth", "charge"}
Kind == {"malformed", "denied", "call"}
Counts == [delegations : Nat, planUnknown : Nat, unknown : Nat,
           skippedRoe : Nat, roeDenied : Nat]
Run == [steps : Nat, tally : Counts, rounds : Nat, tokens : [Source -> Nat]]

PoolType ==
  /\ fromPlan \in BOOLEAN /\ steps \in Seq(Name) /\ Len(steps) <= MaxPlanSteps
  /\ stage \in [Slot -> Stage] /\ next \in Nat \ {0} /\ result \in [Slot -> Result]
  /\ own \in [Slot -> Nat] /\ log \in [Slot -> Seq(Kind)] /\ DOMAIN seen = Slot
  /\ lock \in [{"budget", "meter"} -> {0} \cup Slot]
BookType ==
  /\ budget \in Nat /\ meter \in [Source -> Nat] /\ tally \in Counts /\ first \in Nat
  /\ observations \in Seq([agent : Name, as : Result]) /\ rounds \in Nat
  /\ records \in [toolCalls : Nat, run : {None} \cup Run]
HistoryType ==
  /\ planned \in Seq(Name) /\ used \in [Source -> Nat] /\ calls \in Nat
  /\ trail \in Nat /\ charged \in [Source -> Nat]
  /\ outcome \in {None, "refused", "crashed", "answered"}
  /\ count \in [orchestrations : Nat, failures : Nat]

\* Every variable of the orchestration has its type (what a step read under a
\* lock has that of what is behind the lock: LockInv).
TypeOK == phase \in Phase /\ wired \in BOOLEAN /\ PoolType /\ BookType /\ HistoryType

\* Who is in the middle of a tool call: the budget has paid and the tool has not run.
Paid == {i \in Slot : stage[i] = "dispatch"}

\* The budget of tool calls is exact at every step: what has been called, what
\* is about to be and what remains are the limit.  (ToolCallBudget.try_spend
\* under its lock, from threads that run in parallel.)
BudgetExact ==
  phase # "idle" => budget + calls + Cardinality(Paid) = MaxCalls

\* No tokens are lost or counted twice on the way from the answers of the models
\* to the meter of the orchestration.  (UsageMeter.add under its lock.)
MeterExact ==
  phase # "idle" =>
    \A s \in Source :
      meter[s] + (IF s \in Slot THEN own[s] ELSE 0) = used[s]

\* A step that has begun belongs to the round under way and has not been
\* collected.
StageInv ==
  \A i \in Slot : stage[i] # "none" =>
    phase \in {"delegate", "unwind"} /\ next <= i /\ i <= Len(steps)

\* What a step has read under a lock is what is there: it holds the lock.
LockInv ==
  \A i \in Slot : seen[i] # None =>
    \/ stage[i] = "spend" /\ lock["budget"] = i /\ seen[i] = budget
    \/ stage[i] = "meter" /\ lock["meter"] = i /\ seen[i] = meter /\ own[i] > 0

OwnInv == \A i \in Slot : stage[i] \in {"none", "queued", "ready"} => own[i] = 0

OrchestratorInv == StageInv /\ LockInv /\ OwnInv /\ BudgetExact /\ MeterExact

\* The answer, the record, the audit log and the account agree on a request that
\* was answered: as many observations as steps, in the order of the plans; every
\* delegation tallied once and the unknown agents of the plan apart from those of
\* the reflections; every tool call paid, in the audit log and in the records of
\* the agents; every token charged.
Agreement ==
  outcome = "answered" =>
    /\ Len(observations) = Len(planned)
    /\ \A k \in DOMAIN planned : observations[k].agent = planned[k]
    /\ records.run.tally.delegations = Len(planned)
    /\ records.run.tally.unknown = Cardinality({k \in DOMAIN planned : planned[k] = Stranger})
    /\ records.run.tally.planUnknown =
         Cardinality({k \in 1..records.run.steps : planned[k] = Stranger})
    /\ MaxCalls - budget = calls /\ trail = calls /\ records.toolCalls = calls
    /\ records.run.tokens = used /\ charged = used

\* The agreement grows with the request.  How many steps the rounds before this
\* one had, which steps of the plans have been begun, which tool calls wait for
\* their entry, and which turns of a loop that is under way were calls.
Base == Len(planned) - Len(steps)
Begun == {k \in 1..Len(planned) : k <= Base \/ stage[k - Base] # "queued"}
Strangers(S) == {k \in S : planned[k] = Stranger}
Noting == {i \in Slot : stage[i] = "note"}
CallTurns(turns) == {k \in DOMAIN turns : turns[k] = "call"}
Logged == UNION {{i} \X CallTurns(log[i]) : i \in Slot}

\* The round under way is the last part of what was planned, and each of its steps
\* stays on its thread until it is collected.
RoundInv ==
  /\ phase \notin {"delegate", "unwind"} => steps = <<>> /\ next = 1
  /\ phase = "plan" => planned = <<>> /\ first = 0
  /\ phase \in {"reflect", "synth", "charge"} => first <= Len(planned)
  /\ phase = "delegate" =>
       /\ next <= Len(steps) + 1 /\ Len(steps) <= Len(planned)
       /\ \A k \in 1..Len(steps) : planned[Base + k] = steps[k]
       /\ \A i \in Slot : next <= i /\ i <= Len(steps) => stage[i] # "none"
       /\ IF fromPlan THEN Base = 0 /\ first = Len(steps) ELSE first <= Base

Sound == phase \notin {"idle", "unwind"}

ObservationInv ==
  Sound =>
    /\ Len(observations) = Base + next - 1
    /\ \A k \in DOMAIN observations : observations[k].agent = planned[k]

TallyInv ==
  Sound =>
    /\ tally.delegations = Cardinality(Begun)
    /\ tally.unknown = Cardinality(Strangers(Begun))
    /\ tally.planUnknown = Cardinality(Strangers(Begun \cap (1..first)))

\* As long as no step has failed.
TrailInv ==
  Sound /\ (\A i \in Slot : stage[i] # "failed") =>
    /\ trail + Cardinality(Noting) = calls
    /\ records.toolCalls + Cardinality(Logged) = trail

LogInv ==
  \A i \in Slot : stage[i] \in {"none", "queued", "ready", "meter", "ask"} => log[i] = <<>>

EndInv ==
  /\ phase # "idle" => outcome # "answered"
  /\ phase = "charge" =>
       records.run = [steps |-> first, tally |-> tally, rounds |-> rounds, tokens |-> meter]

AgreementInv ==
  RoundInv /\ ObservationInv /\ TallyInv /\ TrailInv /\ LogInv /\ EndInv /\ Agreement

\* No thread of the pool outlives the round it belongs to: when the request is
\* with its orchestrator again, or answered, nothing runs on its behalf, even
\* after a step has raised.  (The with of ThreadPoolExecutor.)
NoStray == phase \notin {"delegate", "unwind"} => Running = {}

\* The orchestration keeps the promise of a bounded run.
Bounded == INSTANCE BoundedRun WITH open <- phase # "idle"
ImplementsRun == Bounded!Spec

\* Every request ends, with an answer or an error.
RunEnds == phase # "idle" ~> phase = "idle"

=============================================================================
