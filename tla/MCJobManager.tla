--------------------------- MODULE MCJobManager ---------------------------
(* An instance of JobManager for TLC. *)
EXTENDS JobManager

CONSTANTS r0, relayer0, operator0, signer
=============================================================================
