------------------------------ MODULE StackInv ------------------------------
(***************************************************************************)
(* What a stack in service keeps true.                                     *)
(***************************************************************************)
EXTENDS Stack

Step == {"idle", "load", "build", "swap", "close", "record", "ask", "run", "use"}

\* Every variable of the stack has its type.
TypeOK ==
  /\ files \in Files
  /\ started \in Config \cup {None}
  /\ config \in Config \cup {None} /\ router \in Config \cup {None}
  /\ loop \in 0..MaxLoops /\ built \in 0..MaxLoops
  /\ open \subseteq 1..built /\ stranded \subseteq open
  /\ step \in [Request -> Step]
  /\ body \in [Writers -> Overrides \cup {None}]
  /\ merged \in [Writers -> Config \cup {None}]
  /\ fresh \in [Writers -> 0..MaxLoops] /\ old \in [Writers -> 0..MaxLoops]
  /\ heldRouter \in [Chats -> Config \cup {None}]
  /\ heldConfig \in [Chats -> Config \cup {None}]
  /\ heldLoop \in [Orchs -> 0..MaxLoops]
  /\ busy \in [1..MaxLoops -> Orchs \cup {None}]
  /\ uses \in [Orchs -> Nat] /\ edits \in Nat /\ offered \subseteq Profiles

\* A chat asks a router that was built from the very configuration it took its
\* model from, whatever replaces them meanwhile.
Paired == \A c \in Chats : step[c] = "ask" => heldRouter[c] = heldConfig[c]

\* No connection leaks: one that is open belongs to the loop in service, to a
\* replacement under way, or to a build that was refused.
Swapping(w) == IF step[w] = "swap" THEN {fresh[w]}
               ELSE IF step[w] = "close" THEN {old[w]} ELSE {}
NoLeak == Up => open = {loop} \cup stranded \cup UNION {Swapping(w) : w \in Writers}

\* What was made once at the start, the audit log and the store of secrets,
\* stays the one the configuration in force describes.
Frozen == Up => ~Dead(started, config)

\* The profile, on which the checks of a configuration rest, is the one of the
\* start or one that the operator has written to the files since: a request brings
\* none of its own ("Profil zmienia sie wylacznie przez konfiguracje startowa
\* (plik/ENV/`husarz up --profile`)", api/app.py:1103), however its load interleaves
\* with the edits and with other replacements.
ProfileAnchored == Up => config.profile \in offered

\* Without a stack in service there is no request.
DownIdle == ~Up => \A r \in Request : step[r] = "idle"

\* The router in service was built from the configuration in force.
OnePair == router = config /\ (Up => started # None)

\* No loop is accounted for twice.
Distinct ==
  Up => /\ loop \notin stranded
        /\ \A w \in Writers : Swapping(w) \cap ({loop} \cup stranded) = {}
        /\ \A v, w \in Writers : v # w => Swapping(v) \cap Swapping(w) = {}

\* What a writer is about to put in service.
Prepared ==
  \A w \in Writers :
    /\ step[w] = "load" => body[w] # None /\ "profile" \notin DOMAIN body[w]
    /\ step[w] \in {"build", "swap"} => merged[w] # None /\ ~Dead(started, merged[w])

StackInv == Paired /\ OnePair /\ DownIdle /\ NoLeak /\ Distinct /\ Prepared /\ Frozen

\* With no profile on the command line, those are the profiles there are.
OneProfile ==
  /\ Up => files.profile \in offered /\ config.profile \in offered
  /\ \A w \in Writers :
       step[w] \in {"build", "swap"} => merged[w].profile \in offered

\* A replacement that was built is answered, although closing the old loop waits
\* for the operations of orchestrations that still use it.
Answered == \A w \in Writers : step[w] = "swap" ~> step[w] = "idle"

=============================================================================
