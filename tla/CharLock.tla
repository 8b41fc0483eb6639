------------------------------ MODULE CharLock ------------------------------
(***************************************************************************)
(* What the character lock table of d2dbs promises (src/src/d2dbs,         *)
(* charlock.h): a character is free or locked for one game server, and     *)
(* only the removal of that lock makes it free again.                      *)
(***************************************************************************)
EXTENDS Integers

CONSTANTS
  Char,   \* character names, up to case
  GsId    \* ids of game servers (the serverid of their connections)

\* get_preset_d2gsid counts from 1.
ASSUME GsIdAssumption == GsId \subseteq Nat \ {0}

VARIABLE lock   \* the game server a character is locked for, 0 if it is not

\* cl_lock_char: a character that is locked keeps its lock.
Lock(c, g) == lock[c] = 0 /\ lock' = [lock EXCEPT ![c] = g]

\* cl_unlock_char: the lock is removed if it is the lock of this server.
Unlock(c, g) == lock[c] = g /\ lock' = [lock EXCEPT ![c] = 0]

\* cl_unlock_all_char_by_gsid, for the servers of S.
UnlockAll(S) == lock' = [c \in Char |-> IF lock[c] \in S THEN 0 ELSE lock[c]]

LockInit == lock = [c \in Char |-> 0]

LockNext == \/ \E c \in Char, g \in GsId : Lock(c, g) \/ Unlock(c, g)
            \/ \E S \in SUBSET GsId : UnlockAll(S)

LockSpec == LockInit /\ [][LockNext]_lock
=============================================================================
