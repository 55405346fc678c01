----------------------------- MODULE SecretMap -----------------------------
(***************************************************************************)
(* What the secret store promises to those who change it, with processes,  *)
(* locks and files left out: a map from names to secrets.  A change that   *)
(* was asked for takes effect once or not at all, on the latest map and    *)
(* for its own name; one that was refused has no effect, and one that was  *)
(* reported survives a loss of power.                                      *)
(***************************************************************************)
EXTENDS Naturals, Sequences

CONSTANTS
  Client,  \* who changes the map
  Name,    \* names of secrets
  Secret   \* the secrets, with 0 for none

VARIABLES
  versions,  \* the maps there have been, oldest first; before them an empty one
  safe,      \* how many of them a loss of power spares
  asked,     \* asked[c]: the changes c waits for, one at most
  made,      \* made[c]: those that have taken effect and are not reported yet
  receipts   \* those that were reported; both with the version that they made

mapVars == <<versions, safe, asked, made, receipts>>

Latest ==
  IF versions = <<>> THEN [n \in Name |-> 0] ELSE versions[Len(versions)]

Change == [name : Name, value : Secret]

Init ==
  /\ versions = <<>> /\ safe = 0
  /\ asked = [c \in Client |-> {}]
  /\ made = [c \in Client |-> {}]
  /\ receipts = {}

Ask(c, d) ==
  /\ asked[c] = {} /\ made[c] = {}
  /\ asked' = [asked EXCEPT ![c] = {d}]
  /\ UNCHANGED <<versions, safe, made, receipts>>

\* The change of d's name, and of no other.
TakeEffect(c, d) ==
  /\ d \in asked[c]
  /\ versions' = Append(versions, [Latest EXCEPT ![d.name] = d.value])
  /\ asked' = [asked EXCEPT ![c] = {}]
  /\ made' = [made EXCEPT ![c] =
       {[name |-> d.name, value |-> d.value, version |-> Len(versions) + 1]}]
  /\ UNCHANGED <<safe, receipts>>

\* put or delete raises: it has not taken effect, and will not.
Refuse(c) ==
  /\ asked[c] # {}
  /\ asked' = [asked EXCEPT ![c] = {}]
  /\ UNCHANGED <<versions, safe, made, receipts>>

\* ... or returns, with its version out of reach of a loss of power.
Report(c, r) ==
  /\ r \in made[c]
  /\ made' = [made EXCEPT ![c] = {}]
  /\ safe' \in safe..Len(versions) /\ r.version <= safe'
  /\ receipts' = receipts \cup {r}
  /\ UNCHANGED <<versions, asked>>

\* The clients in C are gone, with what they waited for.
Without(f, C) == [c \in Client |-> IF c \in C THEN {} ELSE f[c]]

Leave(C) ==
  /\ asked' = Without(asked, C)
  /\ made' = Without(made, C)
  /\ UNCHANGED <<versions, safe, receipts>>

LosePower ==
  /\ \E k \in safe..Len(versions) : versions' = SubSeq(versions, 1, k)
  /\ asked' = Without(asked, Client)
  /\ made' = Without(made, Client)
  /\ UNCHANGED <<safe, receipts>>

Next ==
  \/ \E c \in Client :
       \/ \E d \in Change : Ask(c, d) \/ TakeEffect(c, d)
       \/ \E r \in made[c] : Report(c, r)
       \/ Refuse(c)
  \/ \E C \in SUBSET Client : Leave(C)
  \/ LosePower

Spec == Init /\ [][Next]_mapVars
============================================================================
