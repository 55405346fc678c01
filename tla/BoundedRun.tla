----------------------------- MODULE BoundedRun -----------------------------
(***************************************************************************)
(* What an orchestration promises to who pays for it, without a word about *)
(* plans, threads or tool loops: it calls tools at most MaxCalls times,    *)
(* works only while it is open, and what it is charged, when it is         *)
(* answered, is all it has used; one that fails is charged that or         *)
(* nothing.                                                                *)
(***************************************************************************)
EXTENDS Naturals

CONSTANTS
  Source,    \* who spends tokens
  MaxCalls   \* tool calls one orchestration may make

VARIABLES
  open,      \* whether an orchestration is under way
  calls,     \* tool calls it has made
  used,      \* tokens each source has used in it
  charged    \* tokens of each source that were charged to the account

vars == <<open, calls, used, charged>>

Nothing == [s \in Source |-> 0]

Init == open = FALSE /\ calls = 0 /\ used = Nothing /\ charged = Nothing

Begin ==
  /\ ~open /\ open' = TRUE
  /\ calls' = 0 /\ used' = Nothing /\ charged' = Nothing

Spend ==
  /\ used' \in [Source -> Nat]
  /\ \A s \in Source : used'[s] >= used[s]

Call ==
  /\ open /\ open' = TRUE
  /\ calls < MaxCalls /\ calls' = calls + 1
  /\ UNCHANGED <<used, charged>>

Use == open /\ open' = TRUE /\ Spend /\ UNCHANGED <<calls, charged>>

Answer == open /\ open' = FALSE /\ Spend /\ charged' = used' /\ UNCHANGED calls

Fail ==
  /\ open /\ open' = FALSE
  /\ charged' \in {charged, used}
  /\ UNCHANGED <<calls, used>>

Next == Begin \/ Call \/ Use \/ Answer \/ Fail

Spec == Init /\ [][Next]_vars

=============================================================================
