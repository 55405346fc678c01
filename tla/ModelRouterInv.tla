--------------------------- MODULE ModelRouterInv ---------------------------
(***************************************************************************)
(* The inductive invariant behind the safety of ModelRouter.               *)
(***************************************************************************)
EXTENDS ModelRouter

\* A call is made to the first of the queue, and what the caller has seen of
\* the answer comes from it; before a call the caller has seen nothing.
VoiceInv ==
  \A w \in Worker :
    /\ pc[w] \notin {"call", "idle"} => sent[w] = {}
    /\ pc[w] = "call" =>
         /\ queue[w] # <<>>
         /\ Head(queue[w]) \in tried[w]
         /\ sent[w] \subseteq {Head(queue[w])}
    /\ \A m, n \in sent[w] : m = n
    /\ sent[w] \subseteq tried[w]

\* Where the thread in acquire stands, and what it will leave of the bucket.
AcquireInv(w) ==
  /\ pc[w] \in Acquiring => acq[w].now <= now
  /\ pc[w] \in {"elapsed", "refill"} => stamp <= acq[w].now
  /\ pc[w] = "refill" => acq[w].elapsed = acq[w].now - stamp
  /\ pc[w] = "take" => acq[w].refilled + admitted <= Capacity + stamp

\* Until two threads meet in acquire there is one in it at most, and what the
\* bucket holds and has handed out is what time has put in.
BucketInv ==
  ~raced =>
    /\ \A v, w \in Worker : pc[v] \in Acquiring /\ pc[w] \in Acquiring => v = w
    /\ stamp <= now
    /\ tokens + admitted <= Capacity + stamp
    /\ \A w \in Worker : AcquireInv(w)

RouterInv == VoiceInv /\ BucketInv

\* The elements of s come from the first k places of c, in the order of c.
Follows(s, c, k) ==
  /\ \A a \in DOMAIN s : \E i \in 1..k : s[a] = c[i]
  /\ \A a, b \in DOMAIN s :
       a < b => \E i, j \in 1..k : i < j /\ c[i] = s[a] /\ c[j] = s[b]

\* The pass over the candidates that came after the first n questions.
SecondPass(asked, n) == IF asked > n THEN asked - n ELSE 0

\* What uporzadkuj has put where: of the candidates it has come to, the steadily
\* closed ones are in the first list and the steadily open ones in the second.
ScreenInv(w) ==
  LET s == screen[w]
      c == task[w].cand
      n == Len(c)
  IN /\ Distinct(c) /\ s.asked <= 2 * n
     /\ Follows(s.healthy, c, Lesser(s.asked, n))
     /\ Follows(s.aside, c, SecondPass(s.asked, n))
     /\ \A i \in 1..n :
          /\ i <= s.asked /\ c[i] \in steady[w].closed => c[i] \in Elems(s.healthy)
          /\ n + i <= s.asked /\ c[i] \in steady[w].open => c[i] \in Elems(s.aside)
     /\ pc[w] = "screen" => steady[w].open \subseteq Open /\ steady[w].closed \cap Open = {}

\* What has become of the ordered candidates: each is still in the queue, is not
\* suitable, or has been called.
QueueInv(w) ==
  /\ pc[w] # "idle" => outcome[w] = "none"
  /\ pc[w] \notin {"idle", "screen"} =>
       /\ OrderDone(w)
       /\ \A m \in Elems(Placed(w)) :
            m \in Elems(queue[w]) \/ ~Suitable(w, m) \/ m \in tried[w]

OrderInv == (\A w \in Worker : ScreenInv(w) /\ QueueInv(w)) /\ FailsOnlyAfterTrying
============================================================================
