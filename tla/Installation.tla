---------------------------- MODULE Installation ----------------------------
(***************************************************************************)
(* How a new release replaces the running binary: `husarz update apply`    *)
(* downloads it, verifies its signature and puts it beside the binary as   *)
(* .new with .new.sig (instalacja.przygotuj); the next `husarz up`         *)
(* verifies it again, moves the binary to .old and .new into its place     *)
(* (zastosuj_oczekujaca); the start after that removes .old.               *)
(*                                                                         *)
(* A step is one operation on the files.  Commands may overlap, be killed  *)
(* between two steps, and an operation may fail (OSError).  A binary is    *)
(* its version, a signature the version it was made for; Bad is content    *)
(* nobody signed, or the stump of an interrupted write.                    *)
(***************************************************************************)
EXTENDS Integers, FiniteSets

CONSTANTS
  Command,     \* the commands that may run at a time
  MaxVersion,  \* bound on the releases, 1 is the installed one
  Broken,      \* releases whose binary does not start
  Bad, None

Version == 1..MaxVersion

ASSUME VersionAssumption ==
  /\ MaxVersion \in Nat \ {0} /\ Broken \subseteq Version \ {1}
  /\ Bad \notin Int /\ None \notin Int /\ Bad # None

VARIABLES
  cel,         \* the binary that is run, None when there is no such file
  stara,       \* <binary>.old
  oczekujaca,  \* <binary>.new
  podpis,      \* <binary>.new.sig
  released,    \* the newest release of the server
  pc,          \* where each command is
  runs,        \* the version each command was started from
  got,         \* the bytes it has downloaded or read
  \* history
  proven,      \* the versions that have started
  overlapped,  \* whether two commands ever ran at a time
  promised,    \* the version `update apply` last said to be waiting
  spoilt       \* where the waiting file decayed under a command: "put" aside by
               \* it and not yet signed, or "read" by it and not yet moved

files == <<cel, stara, oczekujaca, podpis>>
history == <<proven, overlapped, promised, spoilt>>
vars == <<files, released, pc, runs, got, history>>

Init ==
  /\ cel = 1 /\ stara = None /\ oczekujaca = None /\ podpis = None
  /\ released = 1
  /\ pc = [c \in Command |-> "idle"] /\ runs = [c \in Command |-> None]
  /\ got = [c \in Command |-> None]
  /\ proven = {1} /\ overlapped = FALSE /\ promised = None
  /\ spoilt = {}

Idle == \A c \in Command : pc[c] = "idle"

Goto(c, to) == pc' = [pc EXCEPT ![c] = to]

\* The command ends, with whatever message.
Done(c) ==
  /\ pc' = [pc EXCEPT ![c] = "idle"]
  /\ got' = [got EXCEPT ![c] = None] /\ runs' = [runs EXCEPT ![c] = None]

\* A binary that starts runs the command it was given, with the update enabled
\* and the key of the releases in the configuration.
Runs(c, first) ==
  /\ pc[c] = "idle" /\ cel \in Version \ Broken
  /\ pc' = [pc EXCEPT ![c] = first] /\ runs' = [runs EXCEPT ![c] = cel]
  /\ proven' = proven \cup {cel}
  /\ overlapped' = (overlapped \/ ~Idle)
  /\ UNCHANGED <<files, released, got, promised, spoilt>>

----------------------------------------------------------------------------
(* `husarz update apply`                                                   *)

\* sprawdz: only a release that is newer than the running version is fetched.
Check(c) ==
  /\ pc[c] = "check"
  /\ IF released > runs[c] THEN Goto(c, "fetch") /\ UNCHANGED <<got, runs>>
     ELSE Done(c)
  /\ UNCHANGED <<files, released, history>>

\* The server of the releases does not answer, or its answer is of no use.
CheckFails(c) ==
  /\ pc[c] = "check" /\ Done(c)
  /\ UNCHANGED <<files, released, history>>

\* zweryfikuj_podpis, which raises when it does not hold.
Signed(binary, signature) == binary \in Version /\ signature = binary

\* The release is asked for a second time, the binary and its signature are
\* downloaded and verified.  The signature says nothing of the version: an older
\* release passes as well as the newest.
Fetch(c) ==
  /\ pc[c] = "fetch"
  /\ \E binary, signature \in (1..released) \cup {Bad} :
       IF Signed(binary, signature)
       THEN got' = [got EXCEPT ![c] = binary] /\ Goto(c, "put") /\ UNCHANGED runs
       ELSE Done(c)
  /\ UNCHANGED <<files, released, history>>

\* przygotuj: the temporary file takes the name .new ...
Put(c) ==
  /\ pc[c] = "put"
  /\ oczekujaca' = got[c] /\ Goto(c, "sign")
  /\ promised' = None
  /\ UNCHANGED <<cel, stara, podpis, released, runs, got, proven, overlapped, spoilt>>

\* Bug: the command says that it is done when the signature could not be written.
PutSignatureHopeful(c) ==
  /\ pc[c] = "sign"
  /\ podpis' \in {got[c], Bad} /\ promised' = got[c] /\ Done(c)
  /\ UNCHANGED <<cel, stara, oczekujaca, released, proven, overlapped, spoilt>>

\* ... and the signature is written beside it.
PutSignature(c) ==
  /\ pc[c] = "sign"
  /\ podpis' = got[c] /\ promised' = got[c] /\ Done(c)
  /\ UNCHANGED <<cel, stara, oczekujaca, released, proven, overlapped, spoilt>>

\* Either of them fails; a file that was opened for writing may be a stump.
PutFails(c) ==
  /\ pc[c] \in {"put", "sign"} /\ Done(c)
  /\ podpis' \in IF pc[c] = "sign" THEN {podpis, Bad} ELSE {podpis}
  /\ UNCHANGED <<cel, stara, oczekujaca, released, history>>

----------------------------------------------------------------------------
(* `husarz up`: zastosuj_oczekujaca                                        *)

\* Is there a waiting file?
Look(c) ==
  /\ pc[c] = "look"
  /\ Goto(c, IF oczekujaca = None THEN "sweep" ELSE "looksig")
  /\ UNCHANGED <<files, released, runs, got, history>>

\* There is none: the previous version is removed, if it can be.
Sweep(c) ==
  /\ pc[c] = "sweep"
  /\ stara' \in {None, stara} /\ Done(c)
  /\ UNCHANGED <<cel, oczekujaca, podpis, released, history>>

LookSignature(c) ==
  /\ pc[c] = "looksig"
  /\ IF podpis = None THEN Done(c)
     ELSE Goto(c, "read") /\ UNCHANGED <<got, runs>>
  /\ UNCHANGED <<files, released, history>>

\* The bytes are read, then the signature; a file that is gone is an OSError.
Read(c) ==
  /\ pc[c] = "read"
  /\ IF oczekujaca = None THEN Done(c)
     ELSE got' = [got EXCEPT ![c] = oczekujaca] /\ Goto(c, "verify") /\ UNCHANGED runs
  /\ UNCHANGED <<files, released, history>>

\* Bug: what was verified before the restart is not verified again.
VerifyOnce(c) ==
  /\ pc[c] = "verify" /\ Goto(c, "away")
  /\ UNCHANGED <<files, released, runs, got, history>>

Verify(c) ==
  /\ pc[c] = "verify"
  /\ IF Signed(got[c], podpis) THEN Goto(c, "away") /\ UNCHANGED <<got, runs>>
     ELSE Done(c)
  /\ UNCHANGED <<files, released, history>>

\* cel.replace(stara)
MoveAway(c) ==
  /\ pc[c] = "away" /\ cel # None
  /\ stara' = cel /\ cel' = None /\ Goto(c, "in")
  /\ UNCHANGED <<oczekujaca, podpis, released, runs, got, history>>

\* oczekujaca.replace(cel)
MoveIn(c) ==
  /\ pc[c] = "in" /\ oczekujaca # None
  /\ cel' = oczekujaca /\ oczekujaca' = None /\ Goto(c, "tidy")
  /\ promised' = None
  /\ UNCHANGED <<stara, podpis, released, runs, got, proven, overlapped, spoilt>>

\* Bug: the previous version goes as soon as the new one is in its place.
TidyAll(c) ==
  /\ pc[c] = "tidy" /\ cel # None
  /\ podpis' = None /\ stara' = None /\ Done(c)
  /\ UNCHANGED <<cel, oczekujaca, released, history>>

\* chmod of the new binary, and its signature goes.
Tidy(c) ==
  /\ pc[c] = "tidy" /\ cel # None
  /\ podpis' = None /\ Done(c)
  /\ UNCHANGED <<cel, stara, oczekujaca, released, history>>

\* Any of these raises: the file is gone, or for reasons of its own.  What was
\* done is not undone; the start goes on with the version that runs.
SwapFails(c) ==
  /\ pc[c] \in {"read", "verify", "away", "in", "tidy"} /\ Done(c)
  /\ UNCHANGED <<files, released, history>>

----------------------------------------------------------------------------
(* The environment.                                                        *)

Publish ==
  /\ released < MaxVersion /\ released' = released + 1
  /\ UNCHANGED <<files, pc, runs, got, history>>

\* A release is withdrawn.
Withdraw ==
  /\ released > 1 /\ released' = released - 1
  /\ UNCHANGED <<files, pc, runs, got, history>>

\* The command is killed; a write that was under way leaves a stump.
Kill(c) ==
  /\ pc[c] # "idle" /\ Done(c)
  /\ podpis' \in IF pc[c] = "sign" THEN {podpis, Bad} ELSE {podpis}
  /\ UNCHANGED <<cel, stara, oczekujaca, released, history>>

\* The waiting file does not stay what it was, while it lies on the disk.
Decay ==
  /\ oczekujaca # None
  /\ oczekujaca' = Bad /\ promised' = None
  /\ spoilt' = spoilt
       \cup (IF \E c \in Command : pc[c] = "sign" THEN {"put"} ELSE {})
       \cup (IF \E c \in Command : pc[c] \in {"verify", "away", "in"} THEN {"read"} ELSE {})
  /\ UNCHANGED <<cel, stara, podpis, released, pc, runs, got, proven, overlapped>>

\* The operator goes back to the previous version by hand.
Return ==
  /\ Idle /\ cel \notin Version \ Broken /\ stara # None
  /\ cel' = stara /\ stara' = None
  /\ UNCHANGED <<oczekujaca, podpis, released, pc, runs, got, history>>

Next ==
  \/ Publish \/ Withdraw \/ Decay \/ Return
  \/ \E c \in Command :
       \/ \E first \in {"check", "look"} : Runs(c, first)
       \/ Check(c) \/ CheckFails(c) \/ Fetch(c) \/ Put(c) \/ PutSignature(c) \/ PutFails(c)
       \/ Look(c) \/ Sweep(c) \/ LookSignature(c) \/ Read(c) \/ Verify(c)
       \/ MoveAway(c) \/ MoveIn(c) \/ Tidy(c) \/ SwapFails(c) \/ Kill(c)

Spec == Init /\ [][Next]_vars

=============================================================================
