---------------------------- MODULE MCAuditLog ----------------------------
(* Small instances of AuditLog: which threads there are and in which process. *)
EXTENDS AuditLogInv, TLC

CONSTANTS p1, p2, r1, r2, r3, v1, i1

\* Two processes with a recorder each, a second one in the first.
HomeThree == r1 :> p1 @@ r2 :> p2 @@ r3 :> p1

\* Two such servers' worth of writers on one file; the first also verifies.
HomeShared == r1 :> p1 @@ r2 :> p2 @@ v1 :> p1

============================================================================
