--------------------------- MODULE CharLockTable ----------------------------
(***************************************************************************)
(* The character lock table of d2dbs (src/src/d2dbs/charlock.cpp).         *)
(*                                                                         *)
(* Every lock is a heap node on two lists: the chain of its hash bucket    *)
(* (clitbl, singly linked, appended at the end; here a sequence) and the   *)
(* list of its game server's bucket (gsqtbl, doubly linked through gsqnext *)
(* and gsqprev, pushed at the head).  Several servers may share a bucket.  *)
(* cl_unlock_all_char_by_gsid walks such a list and frees nodes on the     *)
(* way: the walk is a sequence of steps here, one per node, and no other   *)
(* operation runs between them.                                            *)
(***************************************************************************)
EXTENDS Integers, Sequences, SequencesExt

CONSTANTS
  Char,     \* character names, up to case
  GsId,     \* ids of game servers
  Node,     \* heap cells
  TblLen,   \* clitbl_len
  GsMax,    \* gsqtbl_len
  Hash,     \* string_hash of a name
  NULL

\* A walk of cl_unlock_all_char_by_gsid.
Walk == [gsid : GsId, pcl : Node \cup {NULL}]

ASSUME TableAssumption ==
  /\ GsId \subseteq Nat \ {0}
  /\ TblLen \in Nat \ {0} /\ GsMax \in Nat \ {0}
  /\ Hash \in [Char -> Nat]
  /\ NULL \notin Node \cup Walk

VARIABLES
  heap,     \* allocated nodes: charname, gsid, gsqnext, gsqprev
  clitbl,   \* the chain of each hash bucket
  gsqtbl,   \* the head of each game server bucket
  walk      \* the walk of cl_unlock_all_char_by_gsid: its gsid and node pcl

vars == <<heap, clitbl, gsqtbl, walk>>

Bucket(c) == Hash[c] % TblLen
GsBucket(g) == g % GsMax
Idle == walk = NULL

\* The nodes of the chain that a search for the name meets.
Hits(c) == {n \in ToSet(clitbl[Bucket(c)]) : heap[n].charname = c}

\* cl_query_charlock_status.
cl_query_charlock_status(c) == Hits(c) # {}
-----------------------------------------------------------------------------
\* Fault: the former head does not learn of its new predecessor.
InsertOneWay(n, c, g) ==
  LET old == gsqtbl[GsBucket(g)] IN
  /\ heap' = [m \in DOMAIN heap \cup {n} |->
                IF m = n THEN [charname |-> c, gsid |-> g, gsqnext |-> old, gsqprev |-> NULL]
                ELSE heap[m]]
  /\ gsqtbl' = [gsqtbl EXCEPT ![GsBucket(g)] = n]

\* cl_insert_to_gsq_list, with the allocation of the node.
cl_insert_to_gsq_list(n, c, g) ==
  LET old == gsqtbl[GsBucket(g)] IN
  /\ heap' = [m \in DOMAIN heap \cup {n} |->
                IF m = n THEN [charname |-> c, gsid |-> g, gsqnext |-> old, gsqprev |-> NULL]
                ELSE IF m = old THEN [heap[m] EXCEPT !.gsqprev = n]
                ELSE heap[m]]
  /\ gsqtbl' = [gsqtbl EXCEPT ![GsBucket(g)] = n]

\* Fault: the successor keeps pointing back to the freed node.
DeleteForward(n) ==
  LET p == heap[n].gsqprev
      s == heap[n].gsqnext
  IN
  /\ heap' = [m \in DOMAIN heap \ {n} |->
                IF m = p THEN [heap[m] EXCEPT !.gsqnext = s] ELSE heap[m]]
  /\ gsqtbl' = IF p = NULL THEN [gsqtbl EXCEPT ![GsBucket(heap[n].gsid)] = s] ELSE gsqtbl

\* cl_delete_from_gsq_list, with the release of the node.
cl_delete_from_gsq_list(n) ==
  LET p == heap[n].gsqprev
      s == heap[n].gsqnext
  IN
  /\ heap' = [m \in DOMAIN heap \ {n} |->
                [heap[m] EXCEPT !.gsqnext = IF m = p THEN s ELSE @,
                                !.gsqprev = IF m = s THEN p ELSE @]]
  /\ gsqtbl' = IF p = NULL THEN [gsqtbl EXCEPT ![GsBucket(heap[n].gsid)] = s] ELSE gsqtbl

\* Fault: a second lock is added for a character that is locked.
LockTwice(c, g) ==
  /\ Idle
  /\ \E n \in Node \ DOMAIN heap :
       /\ cl_insert_to_gsq_list(n, c, g)
       /\ clitbl' = [clitbl EXCEPT ![Bucket(c)] = Append(@, n)]
  /\ UNCHANGED walk

\* cl_lock_char for a name that is not on its chain; one that is keeps its lock.
cl_lock_char(c, g) ==
  /\ Idle /\ ~cl_query_charlock_status(c)
  /\ \E n \in Node \ DOMAIN heap :
       /\ cl_insert_to_gsq_list(n, c, g)
       /\ clitbl' = [clitbl EXCEPT ![Bucket(c)] = Append(@, n)]
  /\ UNCHANGED walk

\* Fault: the owner of a lock is not compared.
FoundAnyOwner(c, g) == {i \in DOMAIN clitbl[Bucket(c)] : heap[clitbl[Bucket(c)][i]].charname = c}

\* Where on the chain cl_unlock_char stops: name and server must match.
FoundLock(c, g) ==
  {i \in DOMAIN clitbl[Bucket(c)] : LET n == clitbl[Bucket(c)][i]
                                    IN heap[n].charname = c /\ heap[n].gsid = g}

\* The body of cl_unlock_char: the first such node is removed.
Release(c, g) ==
  \/ \E i \in FoundLock(c, g) :
       /\ \A j \in FoundLock(c, g) : i <= j
       /\ cl_delete_from_gsq_list(clitbl[Bucket(c)][i])
       /\ clitbl' = [clitbl EXCEPT ![Bucket(c)] = RemoveAt(@, i)]
  \/ FoundLock(c, g) = {} /\ UNCHANGED <<heap, clitbl, gsqtbl>>

cl_unlock_char(c, g) == Idle /\ Release(c, g) /\ UNCHANGED walk

\* cl_unlock_all_char_by_gsid: from the head of the server's bucket ...
UnlockAllStarts(g) ==
  /\ Idle
  /\ walk' = [gsid |-> g, pcl |-> gsqtbl[GsBucket(g)]]
  /\ UNCHANGED <<heap, clitbl, gsqtbl>>

\* ... reading the successor before the node may be freed ...
UnlockAllStep ==
  /\ ~Idle /\ walk.pcl # NULL
  /\ walk' = [walk EXCEPT !.pcl = heap[walk.pcl].gsqnext]
  /\ Release(heap[walk.pcl].charname, walk.gsid)

\* ... to the end of the list.
UnlockAllEnds ==
  /\ ~Idle /\ walk.pcl = NULL
  /\ walk' = NULL
  /\ UNCHANGED <<heap, clitbl, gsqtbl>>

\* Fault: a node that belongs to another server of the bucket ends the walk.
WalkStopsEarly ==
  \/ \E g \in GsId : UnlockAllStarts(g)
  \/ UnlockAllStep /\ heap[walk.pcl].gsid = walk.gsid
  \/ /\ ~Idle /\ (walk.pcl # NULL => heap[walk.pcl].gsid # walk.gsid)
     /\ walk' = NULL
     /\ UNCHANGED <<heap, clitbl, gsqtbl>>

cl_unlock_all_char_by_gsid ==
  \/ \E g \in GsId : UnlockAllStarts(g)
  \/ UnlockAllStep
  \/ UnlockAllEnds

Init ==
  /\ heap = [n \in {} |-> NULL]
  /\ clitbl = [b \in 0..TblLen-1 |-> <<>>]
  /\ gsqtbl = [b \in 0..GsMax-1 |-> NULL]
  /\ walk = NULL

Next ==
  \/ \E c \in Char, g \in GsId : cl_lock_char(c, g) \/ cl_unlock_char(c, g)
  \/ cl_unlock_all_char_by_gsid

Spec == Init /\ [][Next]_vars
-----------------------------------------------------------------------------
(* Properties                                                              *)

\* No list, link or walk points to freed memory, although the walk frees the
\* nodes it passes.
NoDangling ==
  /\ \A b \in 0..TblLen-1 : ToSet(clitbl[b]) \subseteq DOMAIN heap
  /\ \A b \in 0..GsMax-1 : gsqtbl[b] \in DOMAIN heap \cup {NULL}
  /\ \A n \in DOMAIN heap : {heap[n].gsqnext, heap[n].gsqprev} \subseteq DOMAIN heap \cup {NULL}
  /\ ~Idle => walk.pcl \in DOMAIN heap \cup {NULL}

\* The two link directions of a game server list agree, and a node without a
\* predecessor is the head of the list of its server's bucket.
GsqLinked ==
  \A n \in DOMAIN heap :
    /\ heap[n].gsqnext # NULL => heap[heap[n].gsqnext].gsqprev = n
    /\ heap[n].gsqprev = NULL <=> gsqtbl[GsBucket(heap[n].gsid)] = n

\* When cl_unlock_all_char_by_gsid returns, no character is locked for that
\* server any more: this is what frees the characters of a lost server.
UnlockAllComplete ==
  [][~Idle /\ walk' = NULL => \A n \in DOMAIN heap' : heap'[n].gsid # walk.gsid]_vars

\* A walk that releases the locks of one server keeps those of the others,
\* also of servers that share its bucket.
OthersKept ==
  [][~Idle => \A n \in DOMAIN heap : heap[n].gsid # walk.gsid =>
       n \in DOMAIN heap' /\ heap'[n].charname = heap[n].charname]_vars

\* The lock of a character, as a search of the table finds it.
LockOf(c) == IF Hits(c) = {} THEN 0 ELSE heap[CHOOSE n \in Hits(c) : TRUE].gsid

Table == INSTANCE CharLock WITH lock <- [c \in Char |-> LockOf(c)]

\* The two lists together implement the lock table of charlock.h: one server
\* per character, taken only when free, given up only by its holder.
ImplementsCharLock == Table!LockSpec
=============================================================================
