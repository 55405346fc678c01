------------------------------ MODULE MCGates ------------------------------
(***************************************************************************)
(* Small instances of the three gates a request passes: the choice of the  *)
(* models (Selection), the rules of engagement (Roe) and the way out       *)
(* (Egress).  They share no state; a behaviour is a behaviour of one of    *)
(* them; the other two stay where they are.                                *)
(***************************************************************************)
EXTENDS GatesInv, TLC

VARIABLE gate

gatesVars == <<gate, egressVars, roeVars, selectionVars>>

TheUrls ==
  {[host |-> h, scheme |-> "https", flaw |-> Nothing] : h \in Hosts}
  \cup {[host |-> h, scheme |-> s, flaw |-> Nothing] :
          h \in {"localhost", "loopback", "lan", UnderLocalhost, "known"}, s \in {"http", "ftp"}}
  \cup {[host |-> "known", scheme |-> "https", flaw |-> f] : f \in {"userinfo", "query", "port", "nohost"}}

ThePolicies ==
  {[open |-> TRUE, allowlist |-> {}],
   [open |-> FALSE, allowlist |-> {"known", "public", "lan", Internal}],
   [open |-> FALSE, allowlist |-> {"other", UnderLocalhost, "localhost", "loopback"}]}

TheLists == {{}, {"known", "other", "public", "lan", Internal, "localhost"}}

TheAnswers ==
  {<<>>} \cup {<<a>> : a \in Classes}
  \cup {<<"public", "lan">>, <<"loopback", "public">>, <<"public", "public">>, <<"loopback", "loopback">>}

Agreed(s, e, dry, out, allowed, forbidden) ==
  [start |-> s, end |-> e, consent |-> TRUE, dry |-> dry, targets |-> {"a", "b"}, out |-> out,
   allowed |-> allowed, forbidden |-> forbidden]
TheTerms ==
  {Agreed(0, 2, FALSE, {"b"}, {}, {"q2"}),
   Agreed(1, 3, TRUE, {}, {"q1"}, {}),
   [Agreed(0, 3, FALSE, {}, {}, {}) EXCEPT !.consent = FALSE]}

Listing(id, on, tags, cost, fallback) ==
  [id |-> id, enabled |-> on, tags |-> tags, fallback |-> fallback,
   key |-> [cost |-> cost, latency |-> IF cost = Unknown THEN Unknown ELSE 4 - cost]]

\* Four models with any fallbacks, cycles included; the second may be disabled.
TheChains == {<<>>, <<"m1">>, <<"m3">>, <<"m4", "m2">>}
TheRegistries ==
  {<<Listing("m1", TRUE, {"t", "u"}, 3, f[1]), Listing("m2", on, {"t"}, IF on THEN 1 ELSE Unknown, f[2]),
     Listing("m3", TRUE, {"t", "u"}, 1, f[3]), Listing("m4", FALSE, {}, Unknown, f[4])>> :
     on \in BOOLEAN,
     f \in {g \in [1..4 -> TheChains] :
              /\ g[1] # <<"m1">> /\ g[2] # <<"m4", "m2">> /\ g[3] # <<"m3">>
              /\ g[4] # <<"m4", "m2">>}}

TheRules == {<<>>, <<[tags |-> {}, prefer |-> <<"m4">>], [tags |-> {"u"}, prefer |-> <<"m3", "m2">>],
                     [tags |-> {"t"}, prefer |-> <<"m2">>]>>}
TheRequests ==
  [model : {Absent}, agent : BOOLEAN, tags : {{}, {"t"}, {"t", "u"}}, mapped : {Absent, Automatic, "m2"},
   own : {Automatic, "m4", "m3"}, rules : TheRules, strategy : {"tags", "cost"}, fallbacks : BOOLEAN]
  \cup [model : {"m2", "mX"}, agent : {TRUE}, tags : {{"t"}}, mapped : {Absent}, own : {Automatic},
        rules : {<<>>}, strategy : {"latency"}, fallbacks : BOOLEAN]

\* Where no signature is verified, neither the key nor what was signed plays a part,
\* only whether there is a signature.
NothingVerified ==
  ~strict => key = "lost" /\ \A i \in DOMAIN roe : roe[i].signed \in {{}, {roe[i].terms}}

Init ==
  \/ /\ gate = "egress" /\ EgressInit
     /\ roe = <<>> /\ configured = <<>> /\ strict = FALSE /\ clock = 0 /\ key = "lost" /\ phase = "idle"
     /\ call = NoCall /\ at = 0 /\ moment = 0 /\ decision = NoDecision /\ entries = <<>>
     /\ amends = 0 /\ began = 0 /\ keyThen = "lost"
     /\ registry = <<>> /\ request = <<>> /\ ordered = <<>> /\ todo = <<>> /\ processed = {}
     /\ result = <<>> /\ progress = "order"
  \/ /\ gate = "roe" /\ RoeInit /\ NothingVerified
     /\ egress = [open |-> FALSE, allowlist |-> {}] /\ own = {} /\ way = "web"
     /\ url = [host |-> "known", scheme |-> "https", flaw |-> Nothing] /\ hindrance = Nothing
     /\ stage = "start" /\ target = Nothing /\ opened = Nothing /\ reply = Nothing /\ outcome = Nothing
     /\ asked = 0 /\ answer = <<>> /\ hop = 0
     /\ registry = <<>> /\ request = <<>> /\ ordered = <<>> /\ todo = <<>> /\ processed = {}
     /\ result = <<>> /\ progress = "order"
  \/ /\ gate = "selection" /\ SelectionInit
     /\ egress = [open |-> FALSE, allowlist |-> {}] /\ own = {} /\ way = "web"
     /\ url = [host |-> "known", scheme |-> "https", flaw |-> Nothing] /\ hindrance = Nothing
     /\ stage = "start" /\ target = Nothing /\ opened = Nothing /\ reply = Nothing /\ outcome = Nothing
     /\ asked = 0 /\ answer = <<>> /\ hop = 0
     /\ roe = <<>> /\ configured = <<>> /\ strict = FALSE /\ clock = 0 /\ key = "lost" /\ phase = "idle"
     /\ call = NoCall /\ at = 0 /\ moment = 0 /\ decision = NoDecision /\ entries = <<>>
     /\ amends = 0 /\ began = 0 /\ keyThen = "lost"

Next ==
  \/ gate = "egress" /\ EgressNext /\ UNCHANGED <<gate, roeVars, selectionVars>>
  \/ /\ gate = "roe" /\ RoeNext /\ UNCHANGED <<gate, egressVars, selectionVars>>
     /\ ~strict => UNCHANGED key
  \/ gate = "selection" /\ SelectionNext /\ UNCHANGED <<gate, egressVars, roeVars>>

Spec == Init /\ [][Next]_gatesVars
=============================================================================
