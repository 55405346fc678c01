--------------------------------- MODULE Roe ---------------------------------
(***************************************************************************)
(* The rules of engagement: RoeRuntime.authorize_delegation                *)
(* (security/roe_runtime.py), RoeGate (roe_gate.py), the verifier that     *)
(* roe_builder.py makes of roe_signature.verify, and the two entrances of  *)
(* Puszkarz (puszkarz.py).                                                 *)
(*                                                                         *)
(* An engagement has terms and a signature over some terms.  Time passes,  *)
(* the key and the configuration change between the steps of a decision.   *)
(* A change of the configuration builds gates anew (_build_stack of        *)
(* api/app.py) for the orchestrations to come; one that runs keeps the     *)
(* gates it began with.  Targets, techniques and times are small values;   *)
(* how a host is written, a technique spelled and a request classified is  *)
(* left out: what _classify finds is the call's "offensive".               *)
(***************************************************************************)
EXTENDS Naturals, Sequences, SequencesExt

CONSTANTS
  Engagement,  \* how many engagements there may be: they are 1..Engagement, in
               \* the order of their identifiers
  Terms,       \* contents of engagements
  Targets, Techniques,
  MaxTime,     \* bound on the clock
  MaxAmends    \* bound on the changes of the configuration

Engagements == 1..Engagement

ASSUME RoeAssumption ==
  /\ Engagement \in Nat /\ MaxTime \in Nat /\ MaxAmends \in Nat
  /\ \A t \in Terms :
       /\ t.start \in Nat /\ t.end \in Nat /\ t.start < t.end
       /\ t.consent \in BOOLEAN /\ t.dry \in BOOLEAN
       /\ t.targets \subseteq Targets /\ t.out \subseteq Targets
       /\ t.allowed \subseteq Techniques /\ t.forbidden \subseteq Techniques

\* The keys that key_ref may resolve to: the signer's, another, nothing that can
\* be used.
KeysHeld == {"signer", "other", "lost"}

VARIABLES
  configured, \* the engagements of the configuration: id -> [terms, signed],
             \* signed holding the terms that the signature was made over, if any
  roe,       \* those of the gates that the caller's runtime was built with
  strict,    \* security.roe.verify_signature
  clock, key,
  phase,     \* where the call is
  call,      \* what was asked for
  at,        \* the engagement whose gate is asked
  moment,    \* the time that gate goes by
  decision,  \* the answer of the call
  entries,   \* what the call left in the audit: <<event, engagement or 0>>
  amends,
  \* history
  began,     \* when the call began
  keyThen    \* the key that the last verification used

roeVars == <<configured, roe, strict, clock, key, phase, call, at, moment, decision, entries,
             amends, began, keyThen>>

Configurations ==
  UNION {[D -> [terms : Terms, signed : {{}} \cup {{t} : t \in Terms}]] : D \in SUBSET Engagements}

\* build_roe_runtime builds the verifier when an engagement has consent; with
\* none, is_active refuses all of them.
HasVerifier == strict /\ \E i \in DOMAIN roe : roe[i].terms.consent

NoDecision == [allowed |-> FALSE, under |-> 0, dry |-> TRUE]
NoCall == [kind |-> "none"]

RoeInit ==
  /\ roe \in Configurations /\ configured = roe /\ strict \in BOOLEAN
  /\ clock = 0 /\ key \in KeysHeld
  /\ phase = "idle" /\ call = NoCall /\ at = 0 /\ moment = 0
  /\ decision = NoDecision /\ entries = <<>> /\ amends = 0
  /\ began = 0 /\ keyThen = "lost"

\* The gate after the one that refused, 0 when there is none.
NextGate(i) ==
  LET later == {j \in DOMAIN roe : j > i} IN
  IF later = {} THEN 0 ELSE CHOOSE j \in later : \A k \in later : j <= k

Left(events) == entries' = entries \o events

End(allowed, under, dry) ==
  phase' = "idle" /\ decision' = [allowed |-> allowed, under |-> under, dry |-> dry]

\* A delegation goes on to the next gate when one refuses, an action does not.
Deny(events) ==
  /\ Left(events)
  /\ IF call.kind = "delegation" /\ NextGate(at) # 0
     THEN phase' = "ask" /\ at' = NextGate(at) /\ UNCHANGED decision
     ELSE End(FALSE, 0, TRUE) /\ UNCHANGED at

Denied(i) == <<"roe.deny", i>>

Starts(c) ==
  /\ phase = "idle" /\ call = NoCall
  /\ call' = c /\ began' = clock
  /\ UNCHANGED <<configured, roe, strict, clock, key, moment, amends, keyThen>>

\* authorize_delegation: the review of the request, then the gates in order.
Delegate(offensive) ==
  /\ Starts([kind |-> "delegation"])
  /\ CASE offensive -> Left(<<<<"puszkarz.refuse", 0>>>>) /\ End(FALSE, 0, TRUE) /\ at' = 0
       [] ~offensive /\ DOMAIN roe = {} ->
            Left(<<<<"roe.delegation_deny", 0>>>>) /\ End(FALSE, 0, TRUE) /\ at' = 0
       [] OTHER -> phase' = "ask" /\ at' = NextGate(0) /\ UNCHANGED <<entries, decision>>

\* authorize_action, through the gate of the first engagement, and evaluate of
\* the gate that gate_for gives out.
Act(target, technique, authorized) ==
  /\ Starts([kind |-> "action", target |-> target, technique |-> technique,
             authorized |-> authorized])
  /\ IF DOMAIN roe = {}
     THEN Left(<<Denied(0)>>) /\ End(FALSE, 0, TRUE) /\ at' = 0
     ELSE phase' = "ask" /\ at' \in DOMAIN roe /\ UNCHANGED <<entries, decision>>

\* engagement_decision takes the time first, then asks for consent and the
\* presence of a signature.
Ask ==
  /\ phase = "ask" /\ moment' = clock
  /\ IF ~roe[at].terms.consent \/ roe[at].signed = {}
     THEN Deny(<<Denied(at)>>)
     ELSE /\ phase' = (IF HasVerifier THEN "verify" ELSE "window")
          /\ UNCHANGED <<at, decision, entries>>
  /\ UNCHANGED <<configured, roe, strict, clock, key, call, amends, began, keyThen>>

\* Bug: what the verifier raises leaves the gate, and the call with it.
VerifyRaising ==
  /\ phase = "verify" /\ keyThen' = key
  /\ CASE key = "lost" -> End(FALSE, 0, TRUE) /\ UNCHANGED <<at, entries>>
       [] key = "signer" /\ roe[at].signed = {roe[at].terms} ->
            phase' = "window" /\ UNCHANGED <<at, decision, entries>>
       [] OTHER -> Deny(<<Denied(at)>>)
  /\ UNCHANGED <<configured, roe, strict, clock, key, call, moment, amends, began>>

\* The key is resolved for each verification; that it cannot be had is a
\* refusal with an entry of its own.
Verify ==
  /\ phase = "verify" /\ keyThen' = key
  /\ CASE key = "lost" -> Deny(<<Denied(at), Denied(at)>>)
       [] key = "signer" /\ roe[at].signed = {roe[at].terms} ->
            phase' = "window" /\ UNCHANGED <<at, decision, entries>>
       [] OTHER -> Deny(<<Denied(at)>>)
  /\ UNCHANGED <<configured, roe, strict, clock, key, call, moment, amends, began>>

InWindow(terms, t) == terms.start <= t /\ t < terms.end

\* What evaluate asks of the target and the technique, once the engagement holds.
WithinTerms(terms) ==
  /\ call.target \notin terms.out /\ call.target \in terms.targets
  /\ call.technique \notin terms.forbidden
  /\ terms.allowed = {} \/ call.technique \in terms.allowed

\* Bug: the window is the one thing a delegation is not asked for.
DecideAnyTime ==
  /\ phase = "window"
  /\ LET terms == roe[at].terms IN
     CASE call.kind = "delegation" ->
            Left(<<<<"roe.delegation_allow", at>>>>) /\ End(TRUE, at, terms.dry) /\ UNCHANGED at
       [] ~InWindow(terms, moment) \/ ~WithinTerms(terms) -> Deny(<<Denied(at)>>)
       [] OTHER -> /\ Left(<<<<"roe.allow", at>>>>)
                   /\ End(TRUE, at, terms.dry \/ ~call.authorized) /\ UNCHANGED at
  /\ UNCHANGED <<configured, roe, strict, clock, key, call, moment, amends, began, keyThen>>

\* The window, at the time taken first, and the rest of the decision.
Decide ==
  /\ phase = "window"
  /\ LET terms == roe[at].terms IN
     CASE ~InWindow(terms, moment) -> Deny(<<Denied(at)>>)
       [] InWindow(terms, moment) /\ call.kind = "delegation" ->
            Left(<<<<"roe.delegation_allow", at>>>>) /\ End(TRUE, at, terms.dry) /\ UNCHANGED at
       [] OTHER ->
            IF WithinTerms(terms)
            THEN /\ Left(<<<<"roe.allow", at>>>>)
                 /\ End(TRUE, at, terms.dry \/ ~call.authorized) /\ UNCHANGED at
            ELSE Deny(<<Denied(at)>>)
  /\ UNCHANGED <<configured, roe, strict, clock, key, call, moment, amends, began, keyThen>>

\* The call is over and its caller has gone on with the answer.
Return ==
  /\ phase = "idle" /\ call # NoCall
  /\ call' = NoCall /\ decision' = NoDecision /\ entries' = <<>> /\ at' = 0
  /\ moment' = 0 /\ keyThen' = "lost" /\ began' = 0
  /\ UNCHANGED <<configured, roe, strict, clock, key, phase, amends>>

Tick ==
  /\ clock < MaxTime /\ clock' = clock + 1
  /\ UNCHANGED <<configured, roe, strict, key, phase, call, at, moment, decision, entries, amends,
                 began, keyThen>>

Rotate ==
  /\ key' \in KeysHeld \ {key}
  /\ UNCHANGED <<configured, roe, strict, clock, phase, call, at, moment, decision, entries, amends,
                 began, keyThen>>

\* The terms of an engagement are overridden; what was signed stays.  The gates of
\* the runtime in service are replaced, not those in the hands of a caller.
Amend ==
  /\ amends < MaxAmends /\ amends' = amends + 1
  /\ \E i \in DOMAIN configured, t \in Terms :
       configured' = [configured EXCEPT ![i].terms = t]
  /\ UNCHANGED <<roe, strict, clock, key, phase, call, at, moment, decision, entries,
                 began, keyThen>>

\* The caller is a new orchestration: it has the runtime in service.
Adopt ==
  /\ phase = "idle" /\ call = NoCall /\ roe # configured
  /\ roe' = configured
  /\ UNCHANGED <<configured, strict, clock, key, phase, call, at, moment, decision, entries,
                 amends, began, keyThen>>

RoeNext ==
  \/ \E offensive \in BOOLEAN : Delegate(offensive)
  \/ \E t \in Targets, q \in Techniques, a \in BOOLEAN : Act(t, q, a)
  \/ Ask \/ Verify \/ Decide \/ Return \/ Tick \/ Rotate \/ Amend \/ Adopt

RoeSpec == RoeInit /\ [][RoeNext]_roeVars

-----------------------------------------------------------------------------

Settled == phase = "idle" /\ call # NoCall

\* What is allowed is allowed by an engagement with consent whose terms, as the
\* caller's gates have them, were signed under the key held while the call ran, and
\* whose window was open at a time since the call began; an action is moreover
\* within those terms, and active only when the operator authorized it and the
\* engagement does not ask for a dry run (RoeGate.engagement_decision, evaluate).
\* That the terms may have been changed in the configuration since the caller took
\* its gates is not ruled out by the code.
UnderEngagement ==
  Settled /\ decision.allowed =>
    LET e == roe[decision.under] IN
    /\ e.terms.consent /\ e.signed # {}
    /\ strict => e.signed = {e.terms} /\ keyThen = "signer"
    /\ began <= moment /\ moment <= clock /\ InWindow(e.terms, moment)
    /\ call.kind = "action" => WithinTerms(e.terms)
    /\ ~decision.dry => ~e.terms.dry /\ (call.kind = "action" => call.authorized)

\* Every answer can be told from the audit: the last entry names it, and a
\* delegation leaves a refusal for each engagement that was asked before, for
\* all of them when it is refused; that holds when the key cannot be had too
\* (RoeGate._verified: "KAZDA decyzja jest logowana").
TraceComplete ==
  Settled =>
    /\ entries # <<>>
    /\ decision.allowed <=>
         Last(entries) \in {<<"roe.allow", decision.under>>, <<"roe.delegation_allow", decision.under>>}
    /\ call.kind = "delegation" /\ entries[1] # <<"puszkarz.refuse", 0>> =>
         \A i \in DOMAIN roe :
           ~decision.allowed \/ i < decision.under => Denied(i) \in ToSet(entries)

=============================================================================
