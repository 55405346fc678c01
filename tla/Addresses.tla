------------------------------ MODULE Addresses ------------------------------
(***************************************************************************)
(* The shared checks of addresses and hosts: husarz/ssrf.py,               *)
(* router/egress.py and config/net.py.                                     *)
(*                                                                         *)
(* An address is its class.  A host is the class of its address when it is *)
(* a literal, one of three local forms, or a name.  A list of domains is   *)
(* the set of the hosts it covers, those of its subdomains included.       *)
(***************************************************************************)
EXTENDS Naturals, Sequences, SequencesExt

CONSTANT Names  \* the names of hosts that have no special form

\* The classes that is_blocked_address and is_local_endpoint tell apart:
\* "linklocal" is private without being the operator's network, "shared" is
\* blocked by the explicit list alone.
Classes == {"public", "lan", "loopback", "linklocal", "shared"}

Internal == "box.internal"   \* a name under .internal or .local
UnderLocalhost == "sub.localhost"
Local == {"localhost", UnderLocalhost, Internal}
Hosts == Classes \cup Local \cup Names

ASSUME NamesAssumption == Names \cap (Classes \cup Local) = {}

IsBlocked(address, flags) ==
  CASE address = "public" -> FALSE
    [] address = "loopback" -> ~flags.loopback
    [] address = "lan" -> ~flags.lan
    [] OTHER -> TRUE

IsLoopbackHost(host) == host \in {"localhost", "loopback"}
IsLoopbackName(host) == host = UnderLocalhost

\* is_local_endpoint goes by the name alone.
IsLocalEndpoint(host) == host \in {"localhost", Internal, "loopback", "lan", "linklocal"}

\* The policy without the shortcut for local endpoints, and with it.
Listed(host, egress) == egress.open \/ host \in egress.allowlist
EndpointAllowed(host, egress) == IsLocalEndpoint(host) \/ Listed(host, egress)

\* What the resolver answered is refused whole when it is empty or when one
\* address of it is blocked; the first address is the pin.
ResolveAndPin(answer, lan) ==
  /\ answer # <<>>
  /\ \A i \in 1..Len(answer) : ~IsBlocked(answer[i], [loopback |-> FALSE, lan |-> lan])

ResolveLoopbackName(answer) ==
  answer # <<>> /\ \A i \in 1..Len(answer) : answer[i] = "loopback"

\* What is to be done with a host: "refuse" it, go "direct"ly to it, or "ask"
\* the resolver, for a name under .localhost ("askLocal") with another test.
BuildPinnedTarget(url, flags) ==
  LET host == url.host IN
  CASE url.flaw \in {"nohost", "port"} -> "refuse"
    [] host \in Classes -> IF IsBlocked(host, flags) THEN "refuse" ELSE "direct"
    [] IsLoopbackHost(host) -> IF flags.loopback THEN "direct" ELSE "refuse"
    [] IsLoopbackName(host) -> IF flags.loopback THEN "askLocal" ELSE "refuse"
    [] OTHER -> "ask"

\* Where a target without a pin leads: localhost is never asked about here, the
\* system knows it.
DirectAddress(host) == IF host = "localhost" THEN "loopback" ELSE host

=============================================================================
