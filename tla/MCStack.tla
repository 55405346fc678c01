------------------------------ MODULE MCStack ------------------------------
(* Small instances of Stack. *)
EXTENDS StackInv, TLC

CONSTANTS w1, w2, c1, o1

\* The baseline of the schema: in prod and airgap an engagement with consent needs
\* a signature, which these files do not ask for.
Accepted(c) == c.profile \in {"prod", "airgap"} => ~c.consent

Written(p, e, k, a) == [profile |-> p, enabled |-> e, key |-> k, audit |-> a, consent |-> FALSE]
TheFiles == {Written("dev", TRUE, "k1", "a1"), Written("dev", FALSE, "k2", "a2"),
             Written("airgap", TRUE, "k1", "a1")}
TheBodies == {[profile |-> "prod"], [enabled |-> FALSE, key |-> "k2"],
              [enabled |-> TRUE, key |-> "k2", audit |-> "a1"], [consent |-> TRUE]}
=============================================================================
