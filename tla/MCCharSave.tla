----------------------------- MODULE MCCharSave -----------------------------
(* Small instances of CharSave.                                            *)
EXTENDS CharSave
=============================================================================
