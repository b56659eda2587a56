----------------------------- MODULE MCWrapupJob -----------------------------
(* Small instances of WrapupJob: the sets are in the .cfg files.            *)
EXTENDS WrapupJob
=============================================================================
