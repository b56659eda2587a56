------------------------------ MODULE MCStorage ------------------------------
(* Small instances of Storage: the bounds are in the .cfg files.           *)
EXTENDS Storage
=============================================================================
