--------------------------- MODULE MCOrchestrator ---------------------------
(* Small instances of Orchestrator. *)
EXTENDS OrchestratorInv, TLC

CONSTANTS plain, looper, guarded, stranger

SomePlans == {<<>>, <<looper, looper>>, <<stranger, guarded, plain, looper>>}
SomeExtras == {<<>>, <<stranger>>}
=============================================================================
