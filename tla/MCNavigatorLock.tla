-------------------------- MODULE MCNavigatorLock --------------------------
(* Small instances of NavigatorLock for TLC.                                *)
EXTENDS NavigatorLock
=============================================================================
