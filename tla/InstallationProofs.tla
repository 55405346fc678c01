------------------------- MODULE InstallationProofs -------------------------
(***************************************************************************)
(* Proofs about Installation, for any number of commands and releases.     *)
(***************************************************************************)
EXTENDS InstallationInv, TLAPS

LEMMA Kinds ==
  /\ 1 \in Version /\ 1 \notin Broken /\ Version \subseteq Nat
  /\ Bad \notin Version /\ None \notin Version /\ Bad # None
BY VersionAssumption DEF Version

\* Where a command is after a step of its own.
LEMMA PcType ==
  ASSUME TypeOK, NEW c \in Command, NEW to \in Label, Goto(c, to)
  PROVE  pc' \in [Command -> Label] /\ pc'[c] = to
         /\ \A d \in Command : d # c => pc'[d] = pc[d]
BY DEF TypeOK, Goto

LEMMA DoneType ==
  ASSUME TypeOK, NEW c \in Command, Done(c)
  PROVE  /\ pc' \in [Command -> Label] /\ pc'[c] = "idle"
         /\ \A d \in Command : d # c => pc'[d] = pc[d] /\ got'[d] = got[d]
         /\ runs' \in [Command -> Version \cup {None}] /\ got' \in [Command -> Content]
BY DEF TypeOK, Done, Label, Content

----------------------------------------------------------------------------
(* A step leaves the other commands where they are: what is to be shown of *)
(* the invariant is what the step's own command knows then.                *)

LEMMA InitInv == Init => TypeOK /\ InstallationInv
BY Kinds DEF Init, TypeOK, Content, Label, InstallationInv, OnlyReleased, WayBack,
   PromiseKept, Checked, OneAtATime, Alone

\* A command that ends, without a change of the binary in place or the one that waits.
LEMMA EndKeeps ==
  ASSUME TypeOK, InstallationInv, NEW c \in Command, Done(c),
         UNCHANGED <<cel, oczekujaca, released, proven, overlapped, spoilt>>,
         stara' = stara \/ (stara' = None /\ pc[c] = "sweep"),
         \/ UNCHANGED <<podpis, promised>>
         \/ pc[c] \in {"sign", "tidy"} /\ podpis' \in Content /\ promised' \in {None, promised}
  PROVE  TypeOK' /\ InstallationInv'
<1>1. /\ pc' \in [Command -> Label] /\ pc'[c] = "idle"
      /\ \A d \in Command : d # c => pc'[d] = pc[d] /\ got'[d] = got[d]
      /\ runs' \in [Command -> Version \cup {None}] /\ got' \in [Command -> Content]
  BY DoneType
<1>2. TypeOK'
  BY <1>1 DEF TypeOK, Content
<1>3. OnlyReleased'
  BY DEF InstallationInv, OnlyReleased
<1>4. WayBack'
  BY DEF InstallationInv, WayBack, Alone
<1>5. PromiseKept'
  BY DEF InstallationInv, PromiseKept, Alone
<1>6. Checked'
  BY <1>1 DEF InstallationInv, Checked
<1>7. OneAtATime'
  BY <1>1 DEF InstallationInv, OneAtATime
<1>8. Alone'
  BY <1>1 DEF InstallationInv, OneAtATime, Alone
<1> QED
  BY <1>2, <1>3, <1>4, <1>5, <1>6, <1>7, <1>8 DEF InstallationInv

\* A command that goes on, having changed nothing but what it has read.
LEMMA GoKeeps ==
  ASSUME TypeOK, InstallationInv, NEW c \in Command,
         NEW to \in Label \ {"idle", "sign", "in", "tidy"}, Goto(c, to), pc[c] \notin {"idle", "in", "tidy"},
         UNCHANGED <<files, released, runs, history>>,
         got' \in [Command -> Content], \A d \in Command : d # c => got'[d] = got[d],
         to = "put" => got'[c] \in Version,
         to = "verify" => oczekujaca = got'[c],
         to = "away" /\ "read" \notin spoilt => oczekujaca \in Version \cup {None}
  PROVE  TypeOK' /\ InstallationInv'
<1> USE DEF files, history
<1>1. /\ pc' \in [Command -> Label] /\ pc'[c] = to
      /\ \A d \in Command : d # c => pc'[d] = pc[d]
  BY PcType
<1>2. TypeOK'
  BY <1>1 DEF TypeOK
<1>3. OnlyReleased' /\ WayBack' /\ PromiseKept'
  BY DEF InstallationInv, OnlyReleased, WayBack, PromiseKept
<1>4. Checked'
  BY <1>1 DEF InstallationInv, Checked
<1>5. OneAtATime'
  BY <1>1 DEF InstallationInv, OneAtATime
<1>6. Alone'
  BY <1>1 DEF InstallationInv, OneAtATime, Alone
<1> QED
  BY <1>2, <1>3, <1>4, <1>5, <1>6 DEF InstallationInv

LEMMA RunsKeeps ==
  ASSUME TypeOK, InstallationInv, NEW c \in Command, NEW first \in {"check", "look"},
         Runs(c, first)
  PROVE  TypeOK' /\ InstallationInv'
<1> USE DEF files
<1>1. pc \in [Command -> Label] /\ pc' = [pc EXCEPT ![c] = first] /\ pc[c] = "idle"
  BY DEF Runs, TypeOK
<1>2. TypeOK'
  BY <1>1 DEF Runs, TypeOK, Label
<1>3. OnlyReleased' /\ WayBack' /\ PromiseKept'
  BY DEF Runs, InstallationInv, OnlyReleased, WayBack, PromiseKept
<1>4. Checked'
  BY <1>1 DEF Runs, InstallationInv, Checked
<1>5. ~overlapped' => Idle /\ ~overlapped
  BY DEF Runs, TypeOK
<1>6. OneAtATime'
  BY <1>1, <1>5 DEF Idle, OneAtATime
<1>7. Alone'
  BY <1>1, <1>5 DEF Runs, Idle, Alone
<1> QED
  BY <1>2, <1>3, <1>4, <1>6, <1>7 DEF InstallationInv

LEMMA FetchKeeps ==
  ASSUME TypeOK, InstallationInv, NEW c \in Command, Fetch(c)
  PROVE  TypeOK' /\ InstallationInv'
<1>1. PICK binary \in (1..released) \cup {Bad}, signature \in (1..released) \cup {Bad} :
        IF Signed(binary, signature)
        THEN got' = [got EXCEPT ![c] = binary] /\ Goto(c, "put") /\ UNCHANGED runs
        ELSE Done(c)
  BY DEF Fetch
<1>2. UNCHANGED <<files, released, history>> /\ pc[c] = "fetch"
  BY DEF Fetch
<1>3. CASE Signed(binary, signature)
  <2>1. binary \in Version /\ got' = [got EXCEPT ![c] = binary]
    BY <1>1, <1>3 DEF Signed
  <2>2. got' \in [Command -> Content] /\ got'[c] \in Version
    BY <2>1 DEF TypeOK, Content
  <2> QED
    BY <1>1, <1>2, <1>3, <2>1, <2>2, GoKeeps DEF Label, TypeOK
<1>4. CASE ~Signed(binary, signature)
  BY <1>1, <1>2, <1>4, EndKeeps DEF files, history
<1> QED
  BY <1>3, <1>4

LEMMA PutKeeps ==
  ASSUME TypeOK, InstallationInv, NEW c \in Command, Put(c)
  PROVE  TypeOK' /\ InstallationInv'
<1>1. /\ pc' \in [Command -> Label] /\ pc'[c] = "sign" /\ pc[c] = "put"
      /\ \A d \in Command : d # c => pc'[d] = pc[d]
  BY PcType DEF Put, Label
<1>2. got[c] \in Version
  BY <1>1 DEF InstallationInv, Checked
<1>3. TypeOK'
  BY <1>1, <1>2 DEF Put, TypeOK, Content
<1>4. OnlyReleased' /\ WayBack' /\ PromiseKept'
  BY DEF Put, InstallationInv, OnlyReleased, WayBack, PromiseKept
<1>5. Checked'
  BY <1>1, <1>2 DEF Put, InstallationInv, Checked
<1>6. OneAtATime'
  BY <1>1 DEF Put, InstallationInv, OneAtATime
<1>7. Alone'
  BY <1>1 DEF Put, InstallationInv, OneAtATime, Alone
<1> QED
  BY <1>3, <1>4, <1>5, <1>6, <1>7 DEF InstallationInv

LEMMA PutSignatureKeeps ==
  ASSUME TypeOK, InstallationInv, NEW c \in Command, PutSignature(c)
  PROVE  TypeOK' /\ InstallationInv'
<1>1. /\ pc' \in [Command -> Label] /\ pc'[c] = "idle" /\ pc[c] = "sign"
      /\ \A d \in Command : d # c => pc'[d] = pc[d] /\ got'[d] = got[d]
      /\ runs' \in [Command -> Version \cup {None}] /\ got' \in [Command -> Content]
  BY DoneType DEF PutSignature
<1>2. got[c] \in Version
  BY <1>1 DEF InstallationInv, Checked
<1>3. TypeOK'
  BY <1>1, <1>2 DEF PutSignature, TypeOK, Content
<1>4. OnlyReleased' /\ WayBack'
  BY DEF PutSignature, InstallationInv, OnlyReleased, WayBack
<1>5. PromiseKept'
  BY <1>1 DEF PutSignature, InstallationInv, PromiseKept, Alone
<1>6. Checked'
  BY <1>1 DEF PutSignature, InstallationInv, Checked
<1>7. OneAtATime'
  BY <1>1 DEF PutSignature, InstallationInv, OneAtATime
<1>8. Alone'
  BY <1>1 DEF PutSignature, InstallationInv, OneAtATime, Alone
<1> QED
  BY <1>3, <1>4, <1>5, <1>6, <1>7, <1>8 DEF InstallationInv

LEMMA MoveAwayKeeps ==
  ASSUME TypeOK, InstallationInv, NEW c \in Command, MoveAway(c)
  PROVE  TypeOK' /\ InstallationInv'
<1> USE DEF history
<1>1. /\ pc' \in [Command -> Label] /\ pc'[c] = "in" /\ pc[c] = "away"
      /\ \A d \in Command : d # c => pc'[d] = pc[d]
  BY PcType DEF MoveAway, Label
<1>2. TypeOK'
  BY <1>1 DEF MoveAway, TypeOK, Content
<1>3. OnlyReleased' /\ PromiseKept'
  BY DEF MoveAway, InstallationInv, OnlyReleased, PromiseKept
<1>4. ~overlapped => cel \in proven
  BY <1>1 DEF InstallationInv, Alone
<1>5. WayBack'
  BY <1>4 DEF MoveAway, WayBack
<1>6. Checked' /\ OneAtATime'
  BY <1>1 DEF MoveAway, InstallationInv, Checked, OneAtATime
<1>7. Alone'
  BY <1>1, <1>4 DEF MoveAway, InstallationInv, OneAtATime, Alone
<1> QED
  BY <1>2, <1>3, <1>5, <1>6, <1>7 DEF InstallationInv

LEMMA MoveInKeeps ==
  ASSUME TypeOK, InstallationInv, NEW c \in Command, MoveIn(c)
  PROVE  TypeOK' /\ InstallationInv'
<1>1. /\ pc' \in [Command -> Label] /\ pc'[c] = "tidy" /\ pc[c] = "in"
      /\ \A d \in Command : d # c => pc'[d] = pc[d]
  BY PcType DEF MoveIn, Label
<1>2. TypeOK'
  BY <1>1 DEF MoveIn, TypeOK, Content
<1>3. OnlyReleased' /\ PromiseKept'
  BY <1>1 DEF MoveIn, InstallationInv, OnlyReleased, PromiseKept, Checked
<1>4. ~overlapped => stara \in proven
  BY <1>1 DEF InstallationInv, Alone
<1>5. WayBack'
  BY <1>4 DEF MoveIn, WayBack
<1>6. Checked' /\ OneAtATime'
  BY <1>1 DEF MoveIn, InstallationInv, Checked, OneAtATime
<1>7. Alone'
  BY <1>1, <1>4 DEF MoveIn, InstallationInv, OneAtATime, Alone
<1> QED
  BY <1>2, <1>3, <1>5, <1>6, <1>7 DEF InstallationInv

LEMMA CommandKeeps ==
  ASSUME TypeOK, InstallationInv, NEW c \in Command,
         \/ Check(c) \/ CheckFails(c) \/ PutFails(c) \/ Look(c) \/ Sweep(c)
         \/ LookSignature(c) \/ Read(c) \/ Verify(c) \/ Tidy(c) \/ SwapFails(c) \/ Kill(c)
  PROVE  TypeOK' /\ InstallationInv'
<1>0. /\ podpis \in Content /\ got \in [Command -> Content] /\ Bad \in Content
      /\ None \in Content /\ oczekujaca \in Content
  BY DEF TypeOK, Content
<1>1. CASE CheckFails(c) \/ PutFails(c) \/ Sweep(c) \/ Tidy(c) \/ SwapFails(c) \/ Kill(c)
  BY <1>0, <1>1, EndKeeps
  DEF CheckFails, PutFails, Sweep, Tidy, SwapFails, Kill, files, history
<1>2. CASE Check(c)
  BY <1>0, <1>2, EndKeeps, GoKeeps DEF Check, files, history, Label
<1>3. CASE Look(c)
  BY <1>0, <1>3, GoKeeps DEF Look, Label
<1>4. CASE LookSignature(c)
  BY <1>0, <1>4, EndKeeps, GoKeeps DEF LookSignature, files, history, Label
<1>5. CASE Read(c)
  <2>1. CASE oczekujaca = None
    BY <1>5, <2>1, EndKeeps DEF Read, files, history
  <2>2. CASE oczekujaca # None
    <3>1. got' = [got EXCEPT ![c] = oczekujaca] /\ Goto(c, "verify") /\ pc[c] = "read"
          /\ UNCHANGED <<files, released, runs, history>>
      BY <1>5, <2>2 DEF Read
    <3>2. got' \in [Command -> Content] /\ got'[c] = oczekujaca
          /\ \A d \in Command : d # c => got'[d] = got[d]
      BY <1>0, <3>1
    <3> QED
      BY <3>1, <3>2, GoKeeps DEF Label
  <2> QED
    BY <2>1, <2>2
<1>6. CASE Verify(c)
  <2>1. CASE ~Signed(got[c], podpis)
    BY <1>6, <2>1, EndKeeps DEF Verify, files, history
  <2>2. CASE Signed(got[c], podpis)
    <3>1. "read" \notin spoilt => oczekujaca \in Version \cup {None}
      BY <1>6, <2>2 DEF Verify, Signed, InstallationInv, Checked
    <3> QED
      BY <1>0, <1>6, <2>2, <3>1, GoKeeps DEF Verify, Label
  <2> QED
    BY <2>1, <2>2
<1> QED
  BY <1>1, <1>2, <1>3, <1>4, <1>5, <1>6

LEMMA WorldKeeps ==
  ASSUME TypeOK, InstallationInv, Publish \/ Withdraw \/ Decay \/ Return
  PROVE  TypeOK' /\ InstallationInv'
<1> USE DEF files, history
<1>1. CASE Publish \/ Withdraw
  <2>1. released' \in Version
    BY <1>1, VersionAssumption DEF Publish, Withdraw, TypeOK, Version
  <2>2. UNCHANGED <<files, pc, runs, got, history>>
    BY <1>1 DEF Publish, Withdraw
  <2> QED
    BY <2>1, <2>2 DEF TypeOK, InstallationInv, OnlyReleased, WayBack, PromiseKept,
       Checked, OneAtATime, Alone
<1>2. CASE Decay
  <2>1. /\ UNCHANGED <<cel, stara, pc, got, proven, overlapped>>
        /\ promised' = None /\ spoilt \subseteq spoilt'
        /\ \A c \in Command :
             /\ pc[c] = "sign" => "put" \in spoilt'
             /\ pc[c] \in {"verify", "away", "in"} => "read" \in spoilt'
    BY <1>2 DEF Decay
  <2>2. TypeOK'
    BY <1>2 DEF Decay, TypeOK, Content
  <2>3. OnlyReleased' /\ WayBack' /\ PromiseKept'
    BY <2>1 DEF InstallationInv, OnlyReleased, WayBack, PromiseKept
  <2>4. Checked' /\ OneAtATime' /\ Alone'
    BY <2>1 DEF InstallationInv, Checked, OneAtATime, Alone
  <2> QED
    BY <2>2, <2>3, <2>4 DEF InstallationInv
<1>3. CASE Return
  <2>1. \A c \in Command : pc[c] = "idle" /\ pc'[c] = "idle"
    BY <1>3 DEF Return, Idle
  <2>2. TypeOK'
    BY <1>3 DEF Return, TypeOK, Content
  <2>3. WayBack'
    BY <1>3 DEF Return, TypeOK, InstallationInv, WayBack
  <2> QED
    BY <1>3, <2>1, <2>2, <2>3 DEF Return, InstallationInv, OnlyReleased, PromiseKept,
       Checked, OneAtATime, Alone
<1> QED
  BY <1>1, <1>2, <1>3

----------------------------------------------------------------------------
(* The theorems.                                                           *)

LEMMA NextKeeps ==
  ASSUME TypeOK, InstallationInv, [Next]_vars
  PROVE  TypeOK' /\ InstallationInv'
<1>1. CASE UNCHANGED vars
  BY <1>1 DEF vars, files, history, TypeOK, InstallationInv, OnlyReleased, WayBack,
     PromiseKept, Checked, OneAtATime, Alone
<1> QED
  BY <1>1, WorldKeeps, RunsKeeps, FetchKeeps, PutKeeps, PutSignatureKeeps, MoveAwayKeeps,
     MoveInKeeps, CommandKeeps DEF Next

LEMMA Invariance == Spec => [](TypeOK /\ InstallationInv)
<1>1. TypeOK /\ InstallationInv /\ [Next]_vars => (TypeOK /\ InstallationInv)'
  BY NextKeeps
<1> QED
  BY InitInv, <1>1, PTL DEF Spec

\* Every variable of the installation has its type.
THEOREM TypeCorrect == Spec => []TypeOK
BY Invariance, PTL

\* Whatever is downloaded or killed half way, and however many commands overlap, only
\* what was signed is in place or kept, as long as the waiting file does not change
\* between its last reading and its move.
THEOREM OnlyReleasedCorrect == Spec => []OnlyReleased
<1>1. InstallationInv => OnlyReleased
  BY DEF InstallationInv
<1> QED
  BY Invariance, <1>1, PTL

\* As long as commands do not overlap, a version that has started is in place or
\* lies beside it.
THEOREM WayBackCorrect == Spec => []WayBack
<1>1. InstallationInv => WayBack
  BY DEF InstallationInv
<1> QED
  BY Invariance, <1>1, PTL

\* As long as commands do not overlap, an announced update is whole and signed, unless
\* the file changed before its signature was written.
THEOREM PromiseCorrect == Spec => []PromiseKept
<1>1. InstallationInv => PromiseKept
  BY DEF InstallationInv
<1> QED
  BY Invariance, <1>1, PTL

=============================================================================
