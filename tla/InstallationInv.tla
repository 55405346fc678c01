-------------------------- MODULE InstallationInv --------------------------
(***************************************************************************)
(* What an installation keeps while it is updated.                         *)
(***************************************************************************)
EXTENDS Installation

Content == Version \cup {Bad, None}
Label == {"idle", "check", "fetch", "put", "sign", "look", "sweep", "looksig", "read",
          "verify", "away", "in", "tidy"}

\* Every variable of the installation has its type.
TypeOK ==
  /\ {cel, stara, oczekujaca, podpis} \subseteq Content
  /\ released \in Version
  /\ pc \in [Command -> Label]
  /\ runs \in [Command -> Version \cup {None}] /\ got \in [Command -> Content]
  /\ proven \subseteq Version \ Broken /\ overlapped \in BOOLEAN
  /\ promised \in Version \cup {None} /\ spoilt \subseteq {"put", "read"}

\* Only what the owner of the key has signed is ever run or kept as the previous
\* version, whatever was downloaded and whatever became of the waiting file, but for
\* a file that changes after it was read and before it is moved.  (zweryfikuj_podpis
\* before the file is put aside and again before it is moved.)
OnlyReleased ==
  "read" \notin spoilt => cel \in Version \cup {None} /\ stara \in Version \cup {None}

\* There is always a way back: as long as the version in place has not started, the
\* previous one, which has, lies beside it, through every crash and failed rename.
\* Two commands at a time void it.  (.old is removed by the next start only.)
WayBack == ~overlapped /\ cel \notin proven => stara \in proven

\* An update that `update apply` has announced is one the next start accepts, until
\* another one is prepared in its place, or the file decays; it does not see a decay
\* before the signature is written.  (The order of .new and .new.sig in przygotuj.)
PromiseKept ==
  ~overlapped /\ "put" \notin spoilt /\ promised # None =>
    oczekujaca = promised /\ podpis = promised

\* What a command has downloaded is signed when it puts it aside, and what waits
\* is signed once it has been verified, also when it was replaced since.
Checked ==
  \A c \in Command :
    /\ pc[c] \in {"put", "sign"} => got[c] \in Version
    /\ "read" \notin spoilt =>
         /\ pc[c] = "verify" => oczekujaca \in Version \cup {None, got[c]}
         /\ pc[c] \in {"away", "in"} => oczekujaca \in Version \cup {None}

\* As long as commands do not overlap, one at most is under way.
OneAtATime ==
  ~overlapped => \A c, d \in Command : c # d => pc[c] = "idle" \/ pc[d] = "idle"

\* What a command under way has found and done, as long as it is alone.
Alone ==
  ~overlapped => \A c \in Command : pc[c] # "idle" =>
    /\ IF pc[c] \in {"in", "tidy"} THEN stara \in proven ELSE cel \in proven
    /\ pc[c] = "sign" /\ "put" \notin spoilt => oczekujaca = got[c]
    /\ pc[c] \in {"sign", "tidy"} => promised = None

InstallationInv == OnlyReleased /\ WayBack /\ PromiseKept /\ Checked /\ OneAtATime /\ Alone

=============================================================================
