---------------------------- MODULE MCCharFiles ----------------------------
(* Small instances of CharFiles.                                           *)
EXTENDS CharFiles, TLC

\* Accounts, and game servers, are interchangeable.
MCSymmetry == Permutations(Account) \cup Permutations(Gs)
=============================================================================
