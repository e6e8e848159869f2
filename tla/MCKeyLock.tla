----------------------------- MODULE MCKeyLock ------------------------------
(***************************************************************************)
(* Instances of KeyLock for TLC.  One address more than there are keys is  *)
(* enough for the code, which never allocates a second mutex for a key.    *)
(***************************************************************************)
EXTENDS KeyLock
=============================================================================
