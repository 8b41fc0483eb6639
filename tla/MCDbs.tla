------------------------------- MODULE MCDbs --------------------------------
(* Small instances of Dbs.                                                 *)
EXTENDS Dbs

=============================================================================
