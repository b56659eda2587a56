----------------------------- MODULE MCLiveCall -----------------------------
(* Small instances of LiveCall: the bounds are in the .cfg files.          *)
EXTENDS LiveCall
=============================================================================
