-------------------------- MODULE MCCharLockTable ---------------------------
(* A small instance of CharLockTable: three names, two of which collide in *)
(* the hash table, and three game servers, two of which share a bucket.    *)
EXTENDS CharLockTable

CONSTANTS a, b, c
MCHash == (a :> 0) @@ (b :> 2) @@ (c :> 1)
=============================================================================
