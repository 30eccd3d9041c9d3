----------------------------- MODULE MCFileLock -----------------------------
(* The instance of FileLock for TLC.  It checks liveness: no symmetry.     *)
EXTENDS FileLock
=============================================================================
