------------------------------- MODULE Egress -------------------------------
(***************************************************************************)
(* One request on one of the ways out of Husarz, from the gates of its     *)
(* client (tools/web.py, git/client.py, plugins/client.py and service.py,  *)
(* memory/embedder.py, router/client.py, launcher/instalacja.py,           *)
(* aktualizacja.py and bootstrap.py) through the shared checks of          *)
(* Addresses to the answer.                                                *)
(*                                                                         *)
(* The resolver may answer each question with anything, so an answer to a  *)
(* second question may differ from the first.  What the other side sends   *)
(* is a member of Replies.  A broken connection, a failed certificate and  *)
(* a timeout are one reply.                                                *)
(***************************************************************************)
EXTENDS Addresses

CONSTANTS
  Urls,      \* what may be asked for: records of a host, a scheme and a flaw
  Policies,  \* values of security.egress: whether it is open, and the list
  OwnLists,  \* values of the list of the way: domain_allowlist, update.sources,
             \* bootstrap.sources
  Answers,   \* what the resolver may answer: sequences of classes
  Hops       \* _MAKS_PRZEKIEROWAN

Nothing == "none"

ASSUME EgressAssumption ==
  /\ Urls \subseteq [host : Hosts, scheme : {"http", "https", "ftp"},
                     flaw : {Nothing, "userinfo", "query", "port", "nohost"}]
  /\ Policies \subseteq [open : BOOLEAN, allowlist : SUBSET Hosts]
  /\ OwnLists \subseteq SUBSET Hosts
  /\ Answers \subseteq Seq(Classes)
  /\ Hops \in Nat

\* The ways out: the tool of the web; the list and the call of a plugin; Git;
\* the embedder; a model, whole or as a stream; the file of an update, the
\* question for the newest release, the manifest of a model.
Own == {"web", "update", "release", "manifest"}
Models == {"model", "stream"}
Ways == Own \cup Models \cup {"discover", "call", "git", "embedder"}

\* Why the client stops before any gate: the switch of the function, the
\* secret, and for a call of a plugin what PluginService.call asks first.
Hindrances(way) ==
  CASE way = "call" -> {"allow_call", "call_allowlist", "size", "enabled", "secret"}
    [] way \in {"discover", "git"} -> {"enabled", "secret"}
    [] way \in Models \cup {"embedder"} -> {"secret"}
    [] OTHER -> {"enabled"}

Replies == {"ok", "odd", "redirect", "denied", "failed", "large", "slow", "broken"}

VARIABLES
  egress,     \* security.egress
  own,        \* the list of the way
  way,
  url,        \* what is asked for now
  hindrance,
  stage,      \* where the request is
  target,     \* the address of the PinnedTarget
  opened,     \* the address that the transport connected to last
  reply,
  outcome,    \* what the caller gets
  \* history
  asked,      \* questions put to the resolver
  answer,     \* its last answer
  hop         \* redirects followed

egressVars == <<egress, own, way, url, hindrance, stage, target, opened, reply, outcome,
                asked, answer, hop>>

EgressInit ==
  /\ egress \in Policies /\ own \in OwnLists /\ way \in Ways /\ url \in Urls
  /\ hindrance \in {Nothing} \cup Hindrances(way)
  /\ stage = "start" /\ target = Nothing /\ opened = Nothing /\ reply = Nothing /\ outcome = Nothing
  /\ asked = 0 /\ answer = <<>> /\ hop = 0

Nowhere == [loopback |-> FALSE, lan |-> FALSE]

\* Bug: the policy is asked with the shortcut for local endpoints alone.
WebTargetShortcut ==
  IF url.scheme \in {"http", "https"} /\ url.host \in own /\ EndpointAllowed(url.host, egress)
  THEN BuildPinnedTarget(url, Nowhere) ELSE "refuse"

WebTarget ==
  IF url.scheme \in {"http", "https"} /\ url.host \in own
     /\ EndpointAllowed(url.host, egress) /\ Listed(url.host, egress)
  THEN BuildPinnedTarget(url, Nowhere) ELSE "refuse"

GitTarget ==
  CASE \/ url.scheme # "https" \/ url.flaw # Nothing
       \/ IsLoopbackHost(url.host) \/ IsLoopbackName(url.host)
       \/ url.host \in Classes /\ IsBlocked(url.host, [loopback |-> FALSE, lan |-> TRUE])
       \/ ~Listed(url.host, egress) -> "refuse"
    [] OTHER -> IF url.host \in Classes THEN "direct" ELSE "ask"

\* A connector on this host needs neither https nor the list.
PluginTarget ==
  CASE \/ url.scheme \notin {"http", "https"} \/ url.flaw \in {"userinfo", "nohost", "port"}
       \/ url.host \in Classes /\ IsBlocked(url.host, [loopback |-> TRUE, lan |-> FALSE]) -> "refuse"
    [] IsLoopbackHost(url.host) -> "direct"
    [] IsLoopbackName(url.host) -> "askLocal"
    [] url.scheme # "https" \/ ~Listed(url.host, egress) -> "refuse"
    [] OTHER -> IF url.host \in Classes THEN "direct" ELSE "ask"

\* The embedder and, in the router and the client together, a model.
ModelTarget ==
  IF EndpointAllowed(url.host, egress)
  THEN BuildPinnedTarget(url, [loopback |-> TRUE, lan |-> TRUE]) ELSE "refuse"

\* The update, the release and the manifest have a list of their own and no
\* other policy.
SourceTarget ==
  IF url.host \in own THEN BuildPinnedTarget(url, Nowhere) ELSE "refuse"

Target ==
  CASE way = "web" -> WebTarget
    [] way = "git" -> GitTarget
    [] way \in {"discover", "call"} -> PluginTarget
    [] way \in Models \cup {"embedder"} -> ModelTarget
    [] OTHER -> SourceTarget

\* The resolver's flag for names: only Git, the embedder and a model may be
\* led into the operator's network.
Lan == way \in Models \cup {"embedder", "git"}

Refuse == stage' = "refused" /\ outcome' = "error"

\* The gates of the client.
Gates ==
  /\ stage = "start"
  /\ LET next == IF hindrance = Nothing THEN Target ELSE "refuse" IN
     \/ next = "refuse" /\ Refuse /\ UNCHANGED target
     \/ /\ next = "direct" /\ stage' = "pinned" /\ target' = DirectAddress(url.host)
        /\ UNCHANGED outcome
     \/ next \in {"ask", "askLocal"} /\ stage' = next /\ UNCHANGED <<target, outcome>>
  /\ UNCHANGED <<egress, own, way, url, hindrance, opened, reply, asked, answer, hop>>

\* The one question to the resolver, and the pin.
Resolve ==
  /\ stage \in {"ask", "askLocal"}
  /\ \E a \in Answers :
       /\ answer' = a /\ asked' = asked + 1
       /\ IF IF stage = "ask" THEN ResolveAndPin(a, Lan) ELSE ResolveLoopbackName(a)
          THEN stage' = "pinned" /\ target' = Head(a) /\ UNCHANGED outcome
          ELSE Refuse /\ UNCHANGED target
  /\ UNCHANGED <<egress, own, way, url, hindrance, opened, reply, hop>>

\* Bug: the transport is given the name and asks for it again.
ConnectByName ==
  /\ stage = "pinned" /\ url.scheme # "ftp"
  /\ IF answer = <<>> THEN opened' = target
     ELSE \E a \in Answers \ {<<>>} : opened' = Head(a)
  /\ stage' = "connected"
  /\ UNCHANGED <<egress, own, way, url, hindrance, target, reply, outcome, asked, answer, hop>>

\* The transport goes to the address of the target.
Connect ==
  /\ stage = "pinned" /\ url.scheme # "ftp"
  /\ opened' = target /\ stage' = "connected"
  /\ UNCHANGED <<egress, own, way, url, hindrance, target, reply, outcome, asked, answer, hop>>

\* httpx knows no other scheme than http and https.
CannotConnect ==
  /\ stage = "pinned" /\ url.scheme = "ftp"
  /\ stage' = "done" /\ outcome' = "error"
  /\ UNCHANGED <<egress, own, way, url, hindrance, target, opened, reply, asked, answer, hop>>

\* A page is cut off at its limit, an error of HTTP is told in the result.
WebOutcome(r) == IF r \in {"ok", "odd", "large"} THEN "answer" ELSE "error"

\* A body that is no list of repositories, or no object, is an empty result.
GitOutcome(r) == CASE r = "ok" -> "answer" [] r = "odd" -> "empty" [] OTHER -> "error"

DiscoverOutcome(r) == CASE r = "ok" -> "answer" [] r = "odd" -> "empty" [] OTHER -> "error"

\* The result of a call that has no known shape counts as isError.
CallOutcome(r) == IF r = "ok" THEN "answer" ELSE "error"

\* No vector of the right length, no answer; nothing limits the whole time.
EmbedderOutcome(r) == IF r \in {"ok", "slow"} THEN "answer" ELSE "error"

\* Nothing limits the size or the whole time of a model's answer.
ModelOutcome(r) == IF r \in {"ok", "slow", "large"} THEN "answer" ELSE "error"

\* Events of a stream that cannot be read are passed over.
StreamOutcome(r) ==
  CASE r \in {"ok", "slow", "large"} -> "answer" [] r = "odd" -> "empty" [] OTHER -> "error"

\* What the file holds is for the signature to tell.
UpdateOutcome(r) == IF r \in {"ok", "odd", "slow"} THEN "answer" ELSE "error"

\* The release and the manifest.
MetadataOutcome(r) == IF r \in {"ok", "slow"} THEN "answer" ELSE "error"

Outcome(r) ==
  CASE way = "web" -> WebOutcome(r)
    [] way = "git" -> GitOutcome(r)
    [] way = "discover" -> DiscoverOutcome(r)
    [] way = "call" -> CallOutcome(r)
    [] way = "embedder" -> EmbedderOutcome(r)
    [] way = "model" -> ModelOutcome(r)
    [] way = "stream" -> StreamOutcome(r)
    [] way = "update" -> UpdateOutcome(r)
    [] OTHER -> MetadataOutcome(r)

Receive ==
  /\ stage = "connected"
  /\ \E r \in Replies :
       /\ ~(way = "update" /\ r = "redirect" /\ hop < Hops)
       /\ reply' = r /\ outcome' = Outcome(r)
  /\ stage' = "done"
  /\ UNCHANGED <<egress, own, way, url, hindrance, target, opened, asked, answer, hop>>

\* Only the download of an update follows a redirect; the new address passes
\* the gates as the first one did.
Follow ==
  /\ stage = "connected" /\ way = "update" /\ hop < Hops
  /\ \E u \in Urls : url' = u
  /\ stage' = "start" /\ hop' = hop + 1 /\ target' = Nothing /\ opened' = Nothing /\ answer' = <<>>
  /\ UNCHANGED <<egress, own, way, hindrance, reply, outcome, asked>>

EgressNext == Gates \/ Resolve \/ Connect \/ CannotConnect \/ Receive \/ Follow

EgressSpec == EgressInit /\ [][EgressNext]_egressVars

-----------------------------------------------------------------------------

\* The table at the head of ssrf.py: where each way may lead.
Reach ==
  CASE way \in Own -> {"public"}
    [] way \in {"discover", "call"} -> {"public", "loopback"}
    [] way = "git" -> {"public", "lan"}
    [] OTHER -> {"public", "lan", "loopback"}

\* A connection goes where the way may lead, whatever the resolver answers and
\* however its answers change: when a name was asked for, to an address of the
\* one answer, all of which was fit, and never to this host unless the name is
\* one of this host's (ssrf.build_pinned_target, resolve_and_pin and the
\* transports, which are given a PinnedTarget and no name).
CheckedAddress ==
  opened # Nothing =>
    /\ opened \in Reach
    /\ answer # <<>> =>
         /\ opened = answer[1] /\ ToSet(answer) \subseteq Reach
         /\ opened = "loopback" <=> url.host = UnderLocalhost

\* What the policy of the way lets out.
Admitted ==
  CASE way = "web" -> url.host \in own /\ Listed(url.host, egress)
    [] way \in Own -> url.host \in own
    [] way = "git" -> Listed(url.host, egress)
    [] way \in {"discover", "call"} ->
         \/ Listed(url.host, egress)
         \/ IsLoopbackHost(url.host) \/ IsLoopbackName(url.host)
    [] OTHER -> EndpointAllowed(url.host, egress)

\* A host that the policy does not admit costs not even a question to the
\* resolver, at the first address and after each redirect; and no address is
\* asked for twice (git/client.py: "odmowa nie kosztuje nawet zapytania DNS").
PolicyFirst ==
  /\ stage \in {"ask", "askLocal", "pinned", "connected", "done"} => hindrance = Nothing /\ Admitted
  /\ asked <= hop + (IF stage = "start" THEN 0 ELSE 1)

=============================================================================
