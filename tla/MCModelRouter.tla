--------------------------- MODULE MCModelRouter ---------------------------
(* Small instances of ModelRouter. *)
EXTENDS ModelRouterInv, TLC

CONSTANTS w1, w2, m1, m2, m3

\* A model and its fallback, for a chat and for a chat with an image, which only
\* the fallback can see; a stream with a third model, which cannot stream.
Requests ==
  {[mode |-> "chat", cand |-> <<m1, m2>>, fit |-> {m1, m2}],
   [mode |-> "chat", cand |-> <<m1, m2>>, fit |-> {m2}],
   [mode |-> "stream", cand |-> <<m1, m3, m2>>, fit |-> {m1, m2, m3}]}
============================================================================
