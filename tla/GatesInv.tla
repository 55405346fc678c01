------------------------------ MODULE GatesInv ------------------------------
(***************************************************************************)
(* The inductive invariants of the gates a request passes.                 *)
(***************************************************************************)
EXTENDS Egress, Roe, Selection

----------------------------------------------------------------------------
(* The way out.                                                            *)

\* The target comes from the host itself or from the one answer, and the answer
\* passed the test that goes with the host.
Pinned ==
  \/ Target = "direct" /\ answer = <<>> /\ target = DirectAddress(url.host)
  \/ Target = "ask" /\ ResolveAndPin(answer, Lan) /\ target = Head(answer)
  \/ Target = "askLocal" /\ ResolveLoopbackName(answer) /\ target = Head(answer)

EgressInv ==
  /\ egress \in Policies /\ own \in OwnLists /\ way \in Ways /\ url \in Urls
  /\ asked \in Nat /\ hop \in Nat /\ answer \in Seq(Classes)
  /\ stage \in {"start", "ask", "askLocal", "pinned", "connected", "refused", "done"}
  /\ stage \in {"start", "ask", "askLocal"} =>
       target = Nothing /\ opened = Nothing /\ answer = <<>> /\ asked <= hop
  /\ stage = "refused" => opened = Nothing
  /\ stage \in {"ask", "askLocal"} => hindrance = Nothing /\ Target = stage
  /\ stage \in {"pinned", "connected", "done"} =>
       hindrance = Nothing /\ Pinned /\ opened \in {Nothing, target}
  /\ asked <= hop + 1

----------------------------------------------------------------------------
(* The rules of engagement.                                                *)

Event ==
  {"roe.deny", "roe.allow", "roe.delegation_allow", "roe.delegation_deny", "puszkarz.refuse"} \X Nat

\* Every variable of a call has its type.
RoeType ==
  /\ DOMAIN roe \subseteq Engagements /\ strict \in BOOLEAN
  /\ clock \in Nat /\ moment \in Nat /\ began \in Nat
  /\ entries \in Seq(Event)
  /\ phase \in {"idle", "ask", "verify", "window"}
  /\ call = NoCall \/ call.kind \in {"delegation", "action"}

\* While a call runs its gate is one of an engagement, and the gates of a
\* delegation before it have refused.
UnderWay ==
  /\ call = NoCall => phase = "idle" /\ entries = <<>>
  /\ call # NoCall => began <= clock
  /\ phase # "idle" =>
       /\ at \in DOMAIN roe
       /\ call.kind = "delegation" =>
            \A i \in DOMAIN roe : i < at => Denied(i) \in ToSet(entries)

\* What has been asked of the engagement so far.
Examined ==
  /\ phase \in {"verify", "window"} =>
       /\ roe[at].terms.consent /\ roe[at].signed # {}
       /\ began <= moment /\ moment <= clock
  /\ phase = "window" /\ strict => roe[at].signed = {roe[at].terms} /\ keyThen = "signer"

\* The configuration has no other engagements than there may be.
Settings == DOMAIN configured \subseteq Engagements

RoeInv == RoeType /\ UnderWay /\ Examined /\ UnderEngagement /\ TraceComplete

----------------------------------------------------------------------------
(* The choice of the models.                                               *)

\* What is added and what is to be added is within reach, and with what is added
\* its fallbacks are one or the other.
Spread ==
  /\ Fallbacks(processed) \subseteq processed \cup ToSet(todo)
  /\ \A S \in Closed : processed \cup ToSet(todo) \subseteq S

\* The first of the chosen models is the first to try, once it is looked at.
FirstFirst ==
  \/ processed = {} /\ todo = ordered
  \/ /\ ordered # <<>> /\ Head(ordered) \in Ids /\ SpecOf(Head(ordered)).enabled
     => result # <<>> /\ result[1] = Head(ordered)

SelectionInv ==
  /\ registry \in Registries /\ request \in Requests
  /\ progress \in {"order", "expand", "done"}
  /\ processed \subseteq Universe
  /\ todo \in Seq(Universe) /\ result \in Seq(Universe)
  /\ ToSet(result) = {id \in processed \cap Ids : SpecOf(id).enabled}
  /\ IsInjective(result)
  /\ progress = "order" => processed = {} /\ todo = <<>> /\ ordered = <<>>
  /\ progress # "order" =>
       /\ ordered = SelectCandidates
       /\ ToSet(ordered) \subseteq processed \cup ToSet(todo)
       /\ Spread /\ FirstFirst
  /\ progress = "done" => todo = <<>>

\* What order is where it lists the places of the models that fit, each once, in
\* the order of the strategy.
ByStrategy(order) ==
  /\ order \in Bijection(1..Cardinality(Fitting), Fitting)
  /\ \A p, q \in DOMAIN order : p < q => Sooner(order[p], order[q])
============================================================================
