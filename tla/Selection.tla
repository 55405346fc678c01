------------------------------ MODULE Selection ------------------------------
(***************************************************************************)
(* The choice of the models to try for a request, router/selection.py:     *)
(* resolve_agent_model, select_candidates and _expand.                     *)
(*                                                                         *)
(* The recursion of _expand is a list of the identifiers still to be       *)
(* added, the first one next: the fallbacks of a model go before the rest. *)
(* Costs and latencies are whole numbers, Unknown when there is none.      *)
(***************************************************************************)
EXTENDS Naturals, FiniteSets, Sequences, SequencesExt

CONSTANTS
  Identifiers,  \* of models, some of which are in the registry
  Registries,   \* values of models.registry: sequences, in its order, of records of
                \* an id, whether it is enabled, its tags, its key for the
                \* strategies "cost" and "latency", and its fallbacks
  Requests,     \* values of a request and of the routing it meets
  Default       \* models.default

Automatic == "auto"
Absent == "absent"
Unknown == 1000  \* _BRAK_DANYCH: more than any cost or latency

\* A model has an identifier and names others; Absent, for None, is not one.
ASSUME SelectionAssumption ==
  /\ Absent \notin Identifiers
  /\ \A r \in Registries :
       /\ Len(r) \in Nat
       /\ \A i \in 1..Len(r) :
            /\ r[i].id \in Identifiers /\ r[i].fallback \in Seq(Identifiers)
            /\ r[i].key \in [{"cost", "latency"} -> Nat]
  /\ \A q \in Requests :
       /\ q.strategy \in {"tags", "cost", "latency"}
       /\ Len(q.rules) \in Nat
       /\ \A i \in 1..Len(q.rules) : q.rules[i].prefer \in Seq(Identifiers)

VARIABLES
  registry,
  request,    \* [model, agent, tags, mapped, own, rules, strategy, fallbacks]
  ordered,    \* the models chosen before their fallbacks
  todo,       \* what _expand has yet to add
  processed, result,
  progress        \* "order", "expand" or "done"

selectionVars == <<registry, request, ordered, todo, processed, result, progress>>

Ids == {registry[i].id : i \in 1..Len(registry)}
SpecOf(id) == registry[CHOOSE i \in 1..Len(registry) : registry[i].id = id]

SelectionInit ==
  /\ registry \in Registries /\ request \in Requests
  /\ ordered = <<>> /\ todo = <<>> /\ processed = {} /\ result = <<>> /\ progress = "order"

\* resolve_agent_model: the table of the routing goes before the agent's file.
ResolveAgentModel ==
  IF request.mapped \notin {Absent, Automatic} THEN request.mapped ELSE request.own

\* The order of the registry, or of the keys of the strategy and, where these are
\* alike, of the registry.
Sooner(i, j) ==
  LET Key(k) == registry[k].key[request.strategy] IN
  IF request.strategy = "tags" THEN i <= j
  ELSE Key(i) < Key(j) \/ (Key(i) = Key(j) /\ i <= j)

UporzadkujStrategia(places) ==
  LET Place(i) == Cardinality({j \in places : Sooner(j, i)})
  IN [p \in 1..Cardinality(places) |-> registry[CHOOSE i \in places : Place(i) = p].id]

Assigned ==
  IF request.agent /\ ResolveAgentModel \notin {Absent, Automatic} THEN <<ResolveAgentModel>> ELSE <<>>

Preferred ==
  IF request.tags = {} THEN <<>>
  ELSE LET Applies(rule) == rule.tags # {} /\ rule.tags \subseteq request.tags
       IN FlattenSeq([i \in 1..Len(request.rules) |->
            IF Applies(request.rules[i]) THEN request.rules[i].prefer ELSE <<>>])

Fitting == {i \in 1..Len(registry) : request.tags \subseteq registry[i].tags}
Tagged == IF request.tags = {} THEN <<>> ELSE UporzadkujStrategia(Fitting)

SelectCandidates ==
  IF request.model # Absent THEN <<request.model>>
  ELSE LET chosen == Assigned \o Preferred \o Tagged IN
       IF chosen = <<>> THEN <<Default>> ELSE chosen

Order ==
  /\ progress = "order" /\ progress' = "expand"
  /\ ordered' = SelectCandidates /\ todo' = SelectCandidates
  /\ UNCHANGED <<registry, request, processed, result>>

\* Bug: a model that is disabled takes its fallbacks with it.
AddEnabledOnly ==
  /\ progress = "expand" /\ todo # <<>>
  /\ LET id == Head(todo) IN
     IF id \in processed \/ id \notin Ids \/ ~SpecOf(id).enabled
     THEN /\ todo' = Tail(todo) /\ processed' = processed \cup {id} /\ UNCHANGED result
     ELSE /\ processed' = processed \cup {id} /\ result' = Append(result, id)
          /\ todo' = (IF request.fallbacks THEN SpecOf(id).fallback ELSE <<>>) \o Tail(todo)
  /\ UNCHANGED <<registry, request, ordered, progress>>

\* add(model_id) of _expand.
Add ==
  /\ progress = "expand" /\ todo # <<>>
  /\ LET id == Head(todo) IN
     IF id \in processed \/ id \notin Ids
     THEN /\ todo' = Tail(todo) /\ processed' = processed \cup {id} /\ UNCHANGED result
     ELSE /\ processed' = processed \cup {id}
          /\ result' = IF SpecOf(id).enabled /\ id \notin ToSet(result)
                       THEN Append(result, id) ELSE result
          /\ todo' = (IF request.fallbacks THEN SpecOf(id).fallback ELSE <<>>) \o Tail(todo)
  /\ UNCHANGED <<registry, request, ordered, progress>>

Expanded ==
  /\ progress = "expand" /\ todo = <<>> /\ progress' = "done"
  /\ UNCHANGED <<registry, request, ordered, todo, processed, result>>

SelectionNext == Order \/ Add \/ Expanded

SelectionSpec == SelectionInit /\ [][SelectionNext]_selectionVars

-----------------------------------------------------------------------------

\* The reference: what can be reached from the chosen models over fallbacks,
\* through disabled models too, is the least set that holds the chosen models and,
\* with each of its models, the fallbacks of that model.
Fallbacks(S) ==
  IF ~request.fallbacks THEN S
  ELSE S \cup UNION {ToSet(SpecOf(id).fallback) : id \in S \cap Ids}
Universe == ToSet(ordered) \cup Identifiers
Closed == {S \in SUBSET Universe : ToSet(ordered) \subseteq S /\ Fallbacks(S) \subseteq S}
Reachable == LET closed == Closed IN {id \in Universe : \A S \in closed : id \in S}

\* The model that is wanted by name, or assigned to the agent by the operator.
Wanted ==
  IF request.model # Absent THEN request.model
  ELSE IF request.agent /\ ResolveAgentModel # Automatic THEN ResolveAgentModel ELSE Absent

\* Whatever the fallbacks look like, cycles and disabled or unknown models among
\* them, the models to try are the enabled ones within reach, each once (_expand);
\* and no strategy goes before the operator: the model that is wanted or assigned
\* is tried first, if it is enabled (_uporzadkuj_strategia: "NIE rusza ... jawne
\* decyzje operatora").
CandidatesReachable ==
  progress = "done" =>
    /\ ToSet(result) = {id \in Reachable \cap Ids : SpecOf(id).enabled}
    /\ IsInjective(result)
    /\ Wanted \in Ids /\ SpecOf(Wanted).enabled => result # <<>> /\ result[1] = Wanted

=============================================================================
