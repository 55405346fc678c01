--------------------------- MODULE MCInstallation ---------------------------
(* Small instances of Installation. *)
EXTENDS InstallationInv, TLC

CONSTANTS c1, c2
=============================================================================
