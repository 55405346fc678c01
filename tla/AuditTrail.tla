---------------------------- MODULE AuditTrail ----------------------------
(***************************************************************************)
(* What the audit log promises to its callers, with every mechanism left   *)
(* out: a trail of events that only grows, and a receipt for each caller   *)
(* whose record() returned.  A power failure may lose events at the end of *)
(* the trail, but never one for which a receipt was given.                 *)
(***************************************************************************)
EXTENDS Naturals, Sequences

CONSTANT Event  \* what can be recorded

VARIABLES
  trail,    \* the recorded events, oldest first
  receipts  \* the events whose record() has returned to its caller

trailVars == <<trail, receipts>>

Recorded == {trail[i] : i \in DOMAIN trail}

Init ==
  /\ trail = <<>>
  /\ receipts = {}

\* A new event reaches the end of the trail; nothing before it changes.
Record(e) ==
  /\ e \notin Recorded
  /\ trail' = Append(trail, e)
  /\ UNCHANGED receipts

\* The caller is told that its event has been recorded.
Acknowledge(e) ==
  /\ e \in Recorded
  /\ receipts' = receipts \cup {e}
  /\ UNCHANGED trail

\* Power is lost: what is kept is a prefix that holds every receipted event.
LosePower ==
  \E n \in 0..Len(trail) :
    /\ trail' = SubSeq(trail, 1, n)
    /\ receipts \subseteq {trail[i] : i \in 1..n}
    /\ UNCHANGED receipts

Next ==
  \/ \E e \in Event : Record(e) \/ Acknowledge(e)
  \/ LosePower

Spec == Init /\ [][Next]_trailVars
============================================================================
