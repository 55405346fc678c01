---------------------------- MODULE Orchestrator ----------------------------
(***************************************************************************)
(* An orchestration: the handler of POST /api/orchestrate (api/app.py),    *)
(* Orchestrator.run with its pool of threads (orchestrator/husarz.py) and  *)
(* the tool loop of the delegated agents (agents/tool_loop.py).  The steps *)
(* of a round run in parallel and share a budget of tool calls and a meter *)
(* of tokens, each behind a lock of its own.                               *)
(*                                                                         *)
(* A reply of a model is what is read out of it: a plan, a reflection, a   *)
(* final text, a malformed or a proper action, and its tokens (0 when the  *)
(* backend reports none).  The meter is kept apart by who spent, its sum   *)
(* is the number of the code.  ModelRouter is behind each question: it     *)
(* answers or raises.                                                      *)
(***************************************************************************)
EXTENDS Integers, Sequences, FiniteSets

CONSTANTS
  Plain,          \* agents that ask their model once
  Looper,         \* agents in the tool loop (tool_loop_enabled, tools, no ROE)
  Guarded,        \* agents with roe_required
  Stranger,       \* a name that is no agent, or the orchestrator's own
  Plans,          \* the plans a model may give, as sequences of agents
  Extras,         \* the additional steps of a reflection, <<>> for done
  Tokens,         \* what an answer of a model may cost
  MaxPlanSteps, MaxParallel, MaxExtraRounds,
  MaxCalls,       \* security.tool_loop.max_total_calls
  MaxIterations,  \* max(1, agent.config.max_iterations)
  MaxRequests,    \* bound on the requests
  None

Name == Plain \cup Looper \cup Guarded \cup {Stranger}

ASSUME AgentAssumption ==
  /\ Stranger \notin Plain \cup Looper \cup Guarded
  /\ Plans \subseteq Seq(Name) /\ Extras \subseteq Seq(Name)
ASSUME BoundAssumption ==
  /\ MaxPlanSteps \in Nat \ {0} /\ MaxParallel \in Nat \ {0}
  /\ MaxExtraRounds \in Nat /\ MaxCalls \in Nat
  /\ MaxIterations \in Nat \ {0} /\ MaxRequests \in Nat
  /\ Tokens \subseteq Nat
ASSUME NoneAssumption == None # "answered"

VARIABLES
  phase,    \* of the thread of the request
  wired,    \* whether the orchestrator was built with a RoeRuntime
  first,    \* the number of steps of the plan (Plan.steps, cut)
  fromPlan, \* whether this round is the plan's
  steps,    \* the agents of this round, in the order of the plan
  stage,    \* where each step is
  next,     \* the step whose result pula.map hands over next
  result,   \* how each step came out
  own,      \* tokens of a step that are not on the meter yet
  log,      \* RunRecord.steps of a step in the tool loop
  seen,     \* what a step read under the lock it holds
  lock,     \* the step that holds each lock, 0 for none
  budget,   \* ToolCallBudget.remaining
  meter,    \* UsageMeter, by source
  tally,    \* _Tally
  observations, rounds,
  records,  \* what went to RunStore.save: tool calls of agents, orchestrations
  \* history
  planned,  \* the steps of all rounds so far
  used,     \* the tokens of every answer, by source
  calls,    \* tool calls made
  trail,    \* tool.call entries of the audit log
  charged,  \* tokens the account was charged, by source
  outcome,  \* of the last request
  count     \* state["orchestrations"], state["failures"]

Slot == 1..MaxPlanSteps
Source == 0..MaxPlanSteps  \* 0: the questions of the orchestrator itself

pool == <<fromPlan, steps, stage, next, result, own, log, seen, lock>>
books == <<budget, meter, tally, first, observations, rounds, records>>
history == <<planned, used, calls, trail, charged, outcome, count>>
vars == <<phase, wired, pool, books, history>>

NoTokens == [s \in Source |-> 0]
NoTally == [delegations |-> 0, planUnknown |-> 0, unknown |-> 0,
            skippedRoe |-> 0, roeDenied |-> 0]

Init ==
  /\ phase = "idle" /\ wired \in BOOLEAN
  /\ steps = <<>> /\ next = 1 /\ fromPlan = TRUE /\ first = 0
  /\ stage = [i \in Slot |-> "none"] /\ result = [i \in Slot |-> None]
  /\ own = [i \in Slot |-> 0] /\ log = [i \in Slot |-> <<>>]
  /\ seen = [i \in Slot |-> None] /\ lock = [l \in {"budget", "meter"} |-> 0]
  /\ budget = MaxCalls /\ meter = NoTokens /\ tally = NoTally
  /\ observations = <<>> /\ rounds = 0
  /\ records = [toolCalls |-> 0, run |-> None]
  /\ planned = <<>> /\ used = NoTokens /\ calls = 0 /\ trail = 0
  /\ charged = NoTokens /\ outcome = None
  /\ count = [orchestrations |-> 0, failures |-> 0]

----------------------------------------------------------------------------
(* The thread of the request.                                              *)

\* The handler, past quota and audit entry: it counts, and run starts with books
\* of its own.
Request ==
  /\ phase = "idle" /\ count.orchestrations < MaxRequests
  /\ count' = [count EXCEPT !.orchestrations = @ + 1]
  /\ phase' = "plan" /\ outcome' = None
  /\ budget' = MaxCalls /\ meter' = NoTokens /\ tally' = NoTally
  /\ observations' = <<>> /\ rounds' = 0 /\ first' = 0
  /\ records' = [toolCalls |-> 0, run |-> None]
  /\ planned' = <<>> /\ used' = NoTokens /\ calls' = 0 /\ trail' = 0
  /\ charged' = NoTokens
  /\ UNCHANGED <<wired, pool>>

\* An exception leaves run.  Those of the router become an HTTP error and a
\* failure on the counter, others (AuditError) pass the handler by; nothing is
\* charged.
End(how) ==
  /\ phase' = "idle" /\ outcome' = how
  /\ count' = [count EXCEPT !.failures = @ + IF how = "refused" THEN 1 ELSE 0]
  /\ UNCHANGED <<planned, used, calls, trail, charged>>

\* _ask_orchestrator: router.complete and meter.add.
Asked(t) ==
  /\ lock["meter"] = 0
  /\ used' = [used EXCEPT ![0] = @ + t]
  /\ meter' = [meter EXCEPT ![0] = @ + t]

AskFails ==
  /\ phase \in {"plan", "reflect", "synth"}
  /\ End("refused")
  /\ UNCHANGED <<wired, pool, books>>

\* _deleguj_wiele, with the cut to max_plan_steps of its callers.
Cut(plan) == IF Len(plan) <= MaxPlanSteps THEN plan ELSE SubSeq(plan, 1, MaxPlanSteps)

Batch(plan, of) ==
  LET cut == Cut(plan) IN
  /\ phase' = "delegate" /\ next' = 1 /\ fromPlan' = of
  /\ steps' = cut /\ planned' = planned \o cut
  /\ stage' = [i \in Slot |-> IF i <= Len(cut) THEN "queued" ELSE "none"]
  /\ result' = [i \in Slot |-> None]
  /\ own' = [i \in Slot |-> 0]
  /\ log' = [i \in Slot |-> <<>>] /\ seen' = [i \in Slot |-> None]

\* An answer that is no plan is the empty plan.
Plan(plan, t) ==
  /\ phase = "plan"
  /\ Asked(t) /\ Batch(plan, TRUE)
  /\ first' = Len(Cut(plan))
  /\ UNCHANGED <<wired, lock, budget, tally, observations, rounds, records,
                 calls, trail, charged, outcome, count>>

\* A reflection that is done, or has no steps, ends the loop.
Reflect(extra, t) ==
  /\ phase = "reflect"
  /\ Asked(t)
  /\ \/ extra = <<>> /\ phase' = "synth"
        /\ UNCHANGED <<fromPlan, steps, planned, stage, next, result, own, log, seen>>
     \/ extra # <<>> /\ Batch(extra, FALSE)
  /\ UNCHANGED <<wired, lock, budget, tally, first, observations, rounds, records,
                 calls, trail, charged, outcome, count>>

\* The synthesis; the record goes to RunStore.save, which does not raise.
Synthesize(t) ==
  /\ phase = "synth"
  /\ Asked(t)
  /\ records' = [records EXCEPT !.run =
       [steps |-> first, tally |-> tally, rounds |-> rounds, tokens |-> meter']]
  /\ phase' = "charge"
  /\ UNCHANGED <<wired, pool, budget, tally, first, observations, rounds, planned,
                 calls, trail, charged, outcome, count>>

\* _record_tokens with the snapshot of the meter, and the answer.
Charge ==
  /\ phase = "charge"
  /\ charged' = meter /\ phase' = "idle" /\ outcome' = "answered"
  /\ UNCHANGED <<wired, pool, books, planned, used, calls, trail, count>>

\* record_usage raises, with the account in memory charged or not: there is no
\* answer.
ChargeFails ==
  /\ phase = "charge"
  /\ charged' \in {charged, meter} /\ phase' = "idle" /\ outcome' = "crashed"
  /\ UNCHANGED <<wired, pool, books, planned, used, calls, trail, count>>

\* pula.map hands the results over in the order of the plan.
Collect ==
  /\ phase = "delegate" /\ next <= Len(steps) /\ stage[next] = "ready"
  /\ observations' = Append(observations, [agent |-> steps[next], as |-> result[next]])
  /\ stage' = [stage EXCEPT ![next] = "none"]
  /\ next' = next + 1
  /\ UNCHANGED <<phase, wired, fromPlan, steps, result, own, log, seen, lock, budget,
                 meter, tally, first, rounds, records, history>>

\* The call of _deleguj_wiele is over.
Forget ==
  /\ steps' = <<>> /\ next' = 1 /\ fromPlan' = TRUE
  /\ stage' = [i \in Slot |-> "none"] /\ result' = [i \in Slot |-> None]
  /\ own' = [i \in Slot |-> 0] /\ log' = [i \in Slot |-> <<>>]

\* The round is over; a round of reflection is counted.
RoundOver ==
  /\ phase = "delegate" /\ next > Len(steps)
  /\ rounds' = IF fromPlan THEN 0 ELSE rounds + 1
  /\ phase' = IF rounds' < MaxExtraRounds THEN "reflect" ELSE "synth"
  /\ Forget
  /\ UNCHANGED <<wired, seen, lock, budget, meter, tally, first, observations,
                 records, history>>

\* The result of a failed step raises in its turn: the futures that have not
\* started are cancelled.
NoticeFailure ==
  /\ phase = "delegate" /\ next <= Len(steps) /\ stage[next] = "failed"
  /\ phase' = "unwind"
  /\ stage' = [i \in Slot |-> IF stage[i] = "queued" THEN "none" ELSE stage[i]]
  /\ UNCHANGED <<wired, fromPlan, steps, next, result, own, log, seen, lock, books, history>>

Running == {i \in Slot : stage[i] \notin {"none", "queued", "ready", "failed"}}

Fate == IF result[next] = "router" THEN "refused" ELSE "crashed"

\* Bug: the exception does not wait for the threads.
UnwindAtOnce ==
  /\ phase = "unwind"
  /\ End(Fate)
  /\ UNCHANGED <<wired, pool, books>>

\* The with of the executor waits for the steps that run.
Unwind ==
  /\ phase = "unwind" /\ Running = {} /\ \A i \in Slot : stage[i] # "queued"
  /\ End(Fate) /\ Forget
  /\ UNCHANGED <<wired, seen, lock, books>>

Serve ==
  \/ AskFails
  \/ \E t \in Tokens : \/ \E p \in Plans : Plan(p, t)
                       \/ \E e \in Extras : Reflect(e, t)
                       \/ Synthesize(t)
  \/ Charge \/ ChargeFails \/ Collect \/ RoundOver \/ NoticeFailure \/ Unwind

----------------------------------------------------------------------------
(* A step of the plan, on a thread of the pool: _delegate.                 *)

Width == IF MaxParallel < Len(steps) THEN MaxParallel ELSE Len(steps)

\* A thread of the pool is free for the next step; without a pool, one step
\* follows the other.
Turn(i) ==
  /\ stage[i] = "queued"
  /\ \A j \in 1..(i - 1) : stage[j] # "queued"
  /\ IF Width <= 1 THEN next = i /\ phase = "delegate"
     ELSE Cardinality(Running) < Width

Ready(i, how) ==
  /\ stage' = [stage EXCEPT ![i] = "ready"]
  /\ result' = [result EXCEPT ![i] = how]

Fails(i, why) ==
  /\ stage' = [stage EXCEPT ![i] = "failed"]
  /\ result' = [result EXCEPT ![i] = why]

Tallied(fields) ==
  tally' = [f \in DOMAIN tally |->
              tally[f] + IF f \in fields \cup {"delegations"} THEN 1 ELSE 0]

\* Bug: every round counts for the plan.
SkipUnknownAlways(i) ==
  /\ Turn(i) /\ steps[i] = Stranger
  /\ Tallied({"unknown", "planUnknown"})
  /\ Ready(i, "skipped")
  /\ UNCHANGED <<phase, wired, fromPlan, steps, next, own, log, seen, lock, budget,
                 meter, first, observations, rounds, records, history>>

SkipUnknown(i) ==
  /\ Turn(i) /\ steps[i] = Stranger
  /\ Tallied({"unknown"} \cup IF fromPlan THEN {"planUnknown"} ELSE {})
  /\ Ready(i, "skipped")
  /\ UNCHANGED <<phase, wired, fromPlan, steps, next, own, log, seen, lock, budget,
                 meter, first, observations, rounds, records, history>>

\* The gate: without a runtime the step is skipped, with one it may be denied.
Withhold(i) ==
  /\ Turn(i) /\ steps[i] \in Guarded
  /\ Tallied({IF wired THEN "roeDenied" ELSE "skippedRoe"})
  /\ Ready(i, IF wired THEN "denied" ELSE "skipped")
  /\ UNCHANGED <<phase, wired, fromPlan, steps, next, own, log, seen, lock, budget,
                 meter, first, observations, rounds, records, history>>

\* The gate leaves an entry for each of its answers; the log may fail.
GateFails(i) ==
  /\ Turn(i) /\ steps[i] \in Guarded /\ wired
  /\ Tallied({})
  /\ Fails(i, "audit")
  /\ UNCHANGED <<phase, wired, fromPlan, steps, next, own, log, seen, lock, budget,
                 meter, first, observations, rounds, records, history>>

\* An agent that may work goes to its loop or asks its model once.
Start(i) ==
  /\ Turn(i) /\ steps[i] \in Plain \cup Looper \cup (IF wired THEN Guarded ELSE {})
  /\ Tallied({})
  /\ stage' = [stage EXCEPT ![i] = IF steps[i] \in Looper THEN "loop" ELSE "ask"]
  /\ UNCHANGED <<phase, wired, fromPlan, steps, next, result, own, log, seen, lock,
                 budget, meter, first, observations, rounds, records, history>>

\* What a step leaves alone while its agent works.
apart == <<phase, wired, fromPlan, steps, next, tally, first, observations, rounds>>
unspent == <<planned, calls, trail, charged, outcome, count>>

Costs(i, t) ==
  /\ own' = [own EXCEPT ![i] = @ + t]
  /\ used' = [used EXCEPT ![i] = @ + t]

\* The router raises in a question of a step.
RaiseInStep(i) ==
  /\ stage[i] \in {"ask", "loop"}
  /\ Fails(i, "router")
  /\ UNCHANGED <<apart, own, log, seen, lock, budget, meter, records, history>>

\* BaseAgent.run
Ask(i, t) ==
  /\ stage[i] = "ask"
  /\ Costs(i, t)
  /\ stage' = [stage EXCEPT ![i] = "meter"]
  /\ result' = [result EXCEPT ![i] = "answer"]
  /\ UNCHANGED <<apart, log, seen, lock, budget, meter, records, unspent>>

\* A turn is over: another one, or the limit.
Turned(i, kind) ==
  /\ log' = [log EXCEPT ![i] = Append(@, kind)]
  /\ stage' = [stage EXCEPT ![i] =
                 IF Len(log[i]) + 1 < MaxIterations THEN "loop" ELSE "limit"]

\* The record of an agent: RunRecord.tool_calls counts the turns that reached a
\* tool.
Recorded(turns) ==
  records' = [records EXCEPT !.toolCalls =
    @ + Cardinality({k \in DOMAIN turns : turns[k] = "call"})]

\* A turn of ToolLoop.run, as far as parse_action: the final answer, a malformed
\* block, a tool that is not on the agent's list, a tool that is.
Final(i, t) ==
  /\ stage[i] = "loop" /\ Costs(i, t)
  /\ Recorded(log[i])
  /\ log' = [log EXCEPT ![i] = <<>>]
  /\ stage' = [stage EXCEPT ![i] = "meter"]
  /\ result' = [result EXCEPT ![i] = "answer"]
  /\ UNCHANGED <<apart, seen, lock, budget, meter, unspent>>

Malformed(i, t) ==
  /\ stage[i] = "loop" /\ Costs(i, t)
  /\ Turned(i, "malformed")
  /\ UNCHANGED <<apart, result, seen, lock, budget, meter, records, unspent>>

Action(i, t) ==
  /\ stage[i] = "loop" /\ Costs(i, t)
  /\ \E to \in {"deny", "spend"} : stage' = [stage EXCEPT ![i] = to]
  /\ UNCHANGED <<apart, result, log, seen, lock, budget, meter, records, unspent>>

\* The entry "tool.deny" of a refused tool; the log may fail.
Deny(i) ==
  /\ stage[i] = "deny"
  /\ \/ Turned(i, "denied") /\ UNCHANGED result
     \/ Fails(i, "audit") /\ UNCHANGED log
  /\ UNCHANGED <<apart, own, seen, lock, budget, meter, records, history>>

\* Bug: no lock on the budget.
SpendReadUnlocked(i) ==
  /\ stage[i] = "spend" /\ seen[i] = None
  /\ seen' = [seen EXCEPT ![i] = budget]
  /\ lock' = [lock EXCEPT !["budget"] = i]
  /\ UNCHANGED <<apart, stage, result, own, log, budget, meter, records, history>>

\* ToolCallBudget.try_spend, under its lock: the reading ...
SpendRead(i) ==
  /\ stage[i] = "spend" /\ seen[i] = None /\ lock["budget"] = 0
  /\ seen' = [seen EXCEPT ![i] = budget]
  /\ lock' = [lock EXCEPT !["budget"] = i]
  /\ UNCHANGED <<apart, stage, result, own, log, budget, meter, records, history>>

\* Bug: the lock is kept by a call that finds nothing to spend.
SpendWriteHolding(i) ==
  /\ stage[i] = "spend" /\ seen[i] # None
  /\ IF seen[i] > 0
     THEN /\ budget' = seen[i] - 1
          /\ stage' = [stage EXCEPT ![i] = "dispatch"]
          /\ lock' = [lock EXCEPT !["budget"] = 0]
     ELSE /\ stage' = [stage EXCEPT ![i] = "cut"]
          /\ UNCHANGED <<budget, lock>>
  /\ seen' = [seen EXCEPT ![i] = None]
  /\ UNCHANGED <<apart, result, own, log, meter, records, history>>

\* ... and the writing.
SpendWrite(i) ==
  /\ stage[i] = "spend" /\ seen[i] # None
  /\ IF seen[i] > 0
     THEN /\ budget' = seen[i] - 1
          /\ stage' = [stage EXCEPT ![i] = "dispatch"]
     ELSE /\ stage' = [stage EXCEPT ![i] = "cut"]
          /\ UNCHANGED budget
  /\ seen' = [seen EXCEPT ![i] = None]
  /\ lock' = [lock EXCEPT !["budget"] = 0]
  /\ UNCHANGED <<apart, result, own, log, meter, records, history>>

\* ToolDispatcher.dispatch runs the tool.  The errors it knows become a result,
\* any other exception passes it by.
Dispatch(i) ==
  /\ stage[i] = "dispatch"
  /\ calls' = calls + 1
  /\ \/ stage' = [stage EXCEPT ![i] = "note"] /\ UNCHANGED result
     \/ Fails(i, "tool")
  /\ UNCHANGED <<apart, own, log, seen, lock, budget, meter, records,
                 planned, used, trail, charged, outcome, count>>

\* The entry "tool.call" after it; the log may fail.
Note(i) ==
  /\ stage[i] = "note"
  /\ \/ trail' = trail + 1 /\ Turned(i, "call") /\ UNCHANGED result
     \/ Fails(i, "audit") /\ UNCHANGED <<trail, log>>
  /\ UNCHANGED <<apart, own, seen, lock, budget, meter, records,
                 planned, used, calls, charged, outcome, count>>

\* The loop ends without an answer: the entry "toolloop.budget" or
\* "toolloop.limit", and the record.
Stop(i) ==
  /\ stage[i] \in {"cut", "limit"}
  /\ \/ /\ Recorded(log[i])
        /\ log' = [log EXCEPT ![i] = <<>>]
        /\ result' = [result EXCEPT ![i] = stage[i]]
        /\ stage' = [stage EXCEPT ![i] = "meter"]
     \/ Fails(i, "audit") /\ UNCHANGED <<log, records>>
  /\ UNCHANGED <<apart, own, seen, lock, budget, meter, history>>

\* meter.add(result.usage), under its lock: the reading ...
MeterRead(i) ==
  /\ stage[i] = "meter" /\ own[i] > 0 /\ seen[i] = None /\ lock["meter"] = 0
  /\ seen' = [seen EXCEPT ![i] = meter]
  /\ lock' = [lock EXCEPT !["meter"] = i]
  /\ UNCHANGED <<apart, stage, result, own, log, budget, meter, records, history>>

\* ... and the writing.
MeterWrite(i) ==
  /\ stage[i] = "meter" /\ seen[i] # None
  /\ meter' = [seen[i] EXCEPT ![i] = @ + own[i]]
  /\ own' = [own EXCEPT ![i] = 0]
  /\ seen' = [seen EXCEPT ![i] = None]
  /\ lock' = [lock EXCEPT !["meter"] = 0]
  /\ stage' = [stage EXCEPT ![i] = "ready"]
  /\ UNCHANGED <<apart, result, log, budget, records, history>>

\* A usage of None is not added.
MeterNothing(i) ==
  /\ stage[i] = "meter" /\ own[i] = 0
  /\ stage' = [stage EXCEPT ![i] = "ready"]
  /\ UNCHANGED <<apart, result, own, log, seen, lock, budget, meter, records, history>>

Delegate(i) ==
  \/ SkipUnknown(i) \/ Withhold(i) \/ GateFails(i) \/ Start(i) \/ RaiseInStep(i)
  \/ \E t \in Tokens : Ask(i, t) \/ Final(i, t) \/ Malformed(i, t) \/ Action(i, t)
  \/ Deny(i) \/ SpendRead(i) \/ SpendWrite(i) \/ Dispatch(i) \/ Note(i) \/ Stop(i)
  \/ MeterRead(i) \/ MeterWrite(i) \/ MeterNothing(i)

----------------------------------------------------------------------------
Next == Request \/ Serve \/ \E i \in Slot : Delegate(i)

\* The thread of the request and those of the pool go on; every question ends
\* with an answer or an exception (the transport has a timeout).
Fairness == WF_vars(Serve) /\ \A i \in Slot : WF_vars(Delegate(i))

Spec == Init /\ [][Next]_vars
FairSpec == Spec /\ Fairness

=============================================================================
