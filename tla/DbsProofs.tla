------------------------------ MODULE DbsProofs ------------------------------
(***************************************************************************)
(* Proofs about the character locks of d2dbs, for any number of game       *)
(* servers, connections and characters: mutual exclusion, recovery from    *)
(* lost connections, and that the server uses its lock table as CharLock   *)
(* promises.                                                               *)
(***************************************************************************)
EXTENDS Dbs, TLAPS

\* An open connection carries the id of its server.
VerifiedId == \A k \in Conn : Open(k) => conn[k].serverid \in GsId

\* The inductive invariant.
Inv == TypeOK /\ VerifiedId /\ OneVerified /\ LocksBacked /\ Exclusive

-----------------------------------------------------------------------------
\* The invariant holds when the server starts.
LEMMA InitInv == Init => Inv
BY DbsAssumption DEF Init, LockInit, Inv, TypeOK, ConnRecord, VerifiedId, Open, OneVerified,
   Handles, LocksBacked, Exclusive

\* Closing connections: the locks that go are exactly those of the servers
\* that lose their verified connection.
LEMMA ShutdownInv ==
  ASSUME Inv, NEW ks \in SUBSET Conn, NEW f \in [Conn -> ConnRecord],
         \A k \in Conn : Handles(k) => f[k] = conn[k],
         \A k \in Conn : f[k].state \in {"new", "verified"} => f[k].serverid \in GsId,
         Shutdown(ks, f), OneVerified'
  PROVE  Inv'
<1> USE GsIdAssumption, DbsAssumption
<1>1. \A k \in Conn : conn'[k] = IF k \in ks THEN Closed ELSE f[k]
  BY DEF Shutdown
<1>2. \A c \in Char : lock'[c] = IF lock[c] \in Released(ks) THEN 0 ELSE lock[c]
  BY DEF Shutdown, UnlockAll
<1>3. TypeOK'
  <2>1. Closed \in ConnRecord
    BY DEF Closed, ConnRecord
  <2>2. conn' \in [Conn -> ConnRecord]
    BY <2>1 DEF Shutdown
  <2>3. lock' \in [Char -> GsId \cup {0}]
    BY DEF Shutdown, UnlockAll, Inv, TypeOK
  <2> QED
    BY <2>2, <2>3 DEF Shutdown, Inv, TypeOK
<1>4. VerifiedId'
  BY <1>1 DEF VerifiedId, Open, Closed
<1>5. LocksBacked'
  <2> SUFFICES ASSUME NEW c \in Char, lock'[c] # 0
               PROVE  \E k \in Conn : Handles(k)' /\ conn'[k].serverid = lock'[c]
    BY DEF LocksBacked
  <2>1. lock'[c] = lock[c] /\ lock[c] \notin Released(ks)
    BY <1>2
  <2>2. PICK k \in Conn : Handles(k) /\ conn[k].serverid = lock[c]
    BY <2>1 DEF Inv, LocksBacked
  <2>3. k \notin ks
    BY <2>1, <2>2 DEF Released, Handles
  <2>4. conn'[k] = conn[k]
    BY <1>1, <2>2, <2>3
  <2> QED
    BY <2>1, <2>2, <2>4 DEF Handles
<1>6. \A k \in Conn : owned'[k] = IF k \in ks THEN {} ELSE owned[k]
  BY DEF Shutdown
<1>7. ASSUME NEW k \in Conn, NEW c \in owned'[k]
      PROVE  Handles(k)' /\ lock'[c] = conn'[k].serverid
  <2>1. k \notin ks /\ c \in owned[k]
    BY <1>6, <1>7
  <2>2. Handles(k) /\ lock[c] = conn[k].serverid /\ c \in Char
    BY <2>1 DEF Inv, Exclusive, TypeOK
  <2>3. lock[c] \notin Released(ks)
    <3> SUFFICES ASSUME NEW j \in ks, conn[j].state = "verified", lock[c] = conn[j].serverid
                 PROVE  FALSE
      BY DEF Released
    <3> QED
      BY <2>1, <2>2 DEF Inv, OneVerified, Handles
  <2>4. conn'[k] = conn[k]
    BY <1>1, <2>1, <2>2
  <2> QED
    BY <1>2, <2>2, <2>3, <2>4 DEF Handles
<1>8. \A j, k \in Conn : j # k => owned'[j] \cap owned'[k] = {}
  BY <1>6 DEF Inv, Exclusive
<1> QED
  BY <1>3, <1>4, <1>5, <1>7, <1>8 DEF Inv, Exclusive

\* Closing connections and nothing else.
LEMMA CloseInv ==
  ASSUME Inv, NEW ks \in SUBSET Conn, Shutdown(ks, conn)
  PROVE  Inv'
<1>1. \A k \in Conn : conn'[k] = IF k \in ks THEN Closed ELSE conn[k]
  BY DEF Shutdown
<1>2. OneVerified'
  BY <1>1 DEF OneVerified, Handles, Closed, Inv
<1>3. conn \in [Conn -> ConnRecord]
  BY DEF Inv, TypeOK
<1>4. \A k \in Conn : conn[k].state \in {"new", "verified"} => conn[k].serverid \in GsId
  BY DEF Inv, VerifiedId, Open
<1> QED
  BY <1>2, <1>3, <1>4, ShutdownInv

\* A connection that is identified replaces every other one of its server.
LEMMA VerifyInv ==
  ASSUME Inv, NEW k \in Conn, dbs_verify_ipaddr(k)
  PROVE  Inv'
<1>1. CASE Shutdown({k}, conn)
  BY <1>1, CloseInv
<1>2. CASE Shutdown(Previous(k), [conn EXCEPT ![k].state = "verified"])
  <2> DEFINE f == [conn EXCEPT ![k].state = "verified"]
             ks == Previous(k)
  <2>0. conn[k].state = "new" /\ conn[k] \in ConnRecord
    BY DEF dbs_verify_ipaddr, Inv, TypeOK
  <2>1. /\ f \in [Conn -> ConnRecord]
        /\ f[k].state = "verified" /\ f[k].serverid = conn[k].serverid
        /\ \A j \in Conn \ {k} : f[j] = conn[j]
    BY <2>0 DEF Inv, TypeOK, ConnRecord
  <2>2. ks \in SUBSET Conn /\ k \notin ks
    BY DEF Previous
  <2>3. \A j \in Conn : conn'[j] = IF j \in ks THEN Closed ELSE f[j]
    BY <1>2 DEF Shutdown
  <2>4. ASSUME NEW j \in Conn, j # k, Handles(j)'
        PROVE  conn'[j] = conn[j] /\ Handles(j) /\ conn[j].serverid # conn[k].serverid
    <3>1. j \notin ks
      BY <2>3, <2>4 DEF Handles, Closed
    <3>2. conn'[j] = conn[j]
      BY <2>1, <2>3, <2>4, <3>1
    <3> QED
      BY <2>4, <3>1, <3>2 DEF Previous, Handles, Open
  <2>5. conn'[k].serverid = conn[k].serverid
    BY <2>1, <2>2, <2>3
  <2>6. OneVerified'
    <3> SUFFICES ASSUME NEW i \in Conn, NEW j \in Conn, Handles(i)', Handles(j)',
                        conn'[i].serverid = conn'[j].serverid, i # j
                 PROVE  FALSE
      BY DEF OneVerified
    <3>1. CASE i = k \/ j = k
      BY <2>4, <2>5, <3>1
    <3>2. CASE i # k /\ j # k
      BY <2>4, <3>2 DEF Inv, OneVerified
    <3> QED
      BY <3>1, <3>2
  <2>7. \A j \in Conn : Handles(j) => f[j] = conn[j]
    BY <2>0, <2>1 DEF Handles
  <2>8. \A j \in Conn : f[j].state \in {"new", "verified"} => f[j].serverid \in GsId
    BY <2>0, <2>1 DEF Inv, VerifiedId, Open
  <2>9. Shutdown(ks, f)
    BY <1>2
  <2> HIDE DEF f, ks
  <2> QED
    BY <2>1, <2>2, <2>6, <2>7, <2>8, <2>9, ShutdownInv
<1> QED
  BY <1>1, <1>2 DEF dbs_verify_ipaddr

\* Steps that change neither locks nor connection states nor what is owned.
LEMMA SameLocks ==
  ASSUME Inv, UNCHANGED <<lock, owned>>, TypeOK',
         \A k \in Conn : /\ conn'[k].state = conn[k].state
                         /\ conn'[k].serverid = conn[k].serverid
  PROVE  Inv'
<1>1. VerifiedId' /\ OneVerified'
  BY DEF Inv, VerifiedId, OneVerified, Open, Handles
<1>2. LocksBacked'
  BY DEF Inv, LocksBacked, Handles
<1>3. Exclusive'
  BY DEF Inv, Exclusive, Handles
<1> QED
  BY <1>1, <1>2, <1>3 DEF Inv

\* A reply keeps the buffers within their sizes.
LEMMA ReplyTypes ==
  ASSUME TypeOK, NEW k \in Conn, NEW n \in {1, 2}, NEW S \in SUBSET Char, Reply(k, n, S)
  PROVE  /\ wlen' \in [Conn -> 0..Cap]
         /\ request' \in [Conn -> Requests \cup {NULL}]
         /\ owned' \in [Conn -> SUBSET Char]
         /\ \A j \in Conn \ {k} : owned'[j] = owned[j]
         /\ owned[k] \subseteq owned'[k] /\ owned'[k] \subseteq owned[k] \cup S
<1> USE DbsAssumption
<1>1. CASE Room(k, n)
  BY <1>1 DEF Reply, Room, TypeOK
<1>2. CASE ~Room(k, n)
  BY <1>2 DEF Reply, TypeOK
<1> QED
  BY <1>1, <1>2

\* A character that was free is locked for k, and k may come to own it.
LEMMA TakeInv ==
  ASSUME Inv, NEW k \in Conn, Handles(k), NEW c \in Char, Lock(c, conn[k].serverid),
         UNCHANGED conn, TypeOK',
         \A j \in Conn \ {k} : owned'[j] = owned[j],
         owned'[k] \subseteq owned[k] \cup {c}
  PROVE  Inv'
<1> USE GsIdAssumption
<1>1. lock[c] = 0 /\ lock'[c] = conn[k].serverid /\ \A d \in Char \ {c} : lock'[d] = lock[d]
  BY DEF Lock, Inv, TypeOK
<1>2. \A j \in Conn : c \notin owned[j]
  BY <1>1 DEF Inv, Exclusive, VerifiedId, Handles, Open
<1>3. VerifiedId' /\ OneVerified'
  BY DEF Inv, VerifiedId, OneVerified, Open, Handles
<1>4. LocksBacked'
  BY <1>1 DEF Inv, LocksBacked, Handles
<1>5. ASSUME NEW j \in Conn, NEW d \in owned'[j]
      PROVE  Handles(j)' /\ lock'[d] = conn'[j].serverid
  <2>1. CASE d \in owned[j]
    BY <1>1, <1>2, <2>1 DEF Inv, Exclusive, Handles, TypeOK
  <2>2. CASE d \notin owned[j]
    <3>1. j = k /\ d = c
      BY <1>5, <2>2
    <3> QED
      BY <1>1, <3>1 DEF Handles
  <2> QED
    BY <2>1, <2>2
<1>6. ASSUME NEW i \in Conn, NEW j \in Conn, i # j PROVE owned'[i] \cap owned'[j] = {}
  BY <1>2, <1>6 DEF Inv, Exclusive
<1> QED
  BY <1>3, <1>4, <1>5, <1>6 DEF Inv, Exclusive

\* A get request: at most one lock is set, and owned grows by that character.
LEMMA GetdataInv ==
  ASSUME Inv, NEW k \in Conn, dbs_packet_getdata(k)
  PROVE  Inv'
<1>0. TypeOK
  BY DEF Inv
<1>1. CASE \E n \in {1, 2} : Reply(k, n, {}) /\ UNCHANGED <<lock, conn, peer>>
  <2>1. PICK n \in {1, 2} : Reply(k, n, {})
    BY <1>1
  <2>2. /\ wlen' \in [Conn -> 0..Cap]
        /\ request' \in [Conn -> Requests \cup {NULL}]
        /\ owned' \in [Conn -> SUBSET Char]
    BY <1>0, <2>1, ReplyTypes
  <2>3. owned' = owned
    BY <1>0, <2>1 DEF Reply, TypeOK
  <2>4. TypeOK'
    BY <1>0, <1>1, <2>2 DEF TypeOK
  <2> QED
    BY <1>1, <2>3, <2>4, SameLocks
<1>2. ASSUME NEW c \in Char,
             \E n \in {1, 2} : /\ Reply(k, n, {}) \/ Reply(k, n, {c})
                              /\ Handles(k) /\ Lock(c, conn[k].serverid)
                              /\ UNCHANGED <<conn, peer>>
      PROVE  Inv'
  <2>1. PICK n \in {1, 2}, S \in {{}, {c}} : Reply(k, n, S)
    BY <1>2
  <2>2. /\ wlen' \in [Conn -> 0..Cap]
        /\ request' \in [Conn -> Requests \cup {NULL}]
        /\ owned' \in [Conn -> SUBSET Char]
        /\ \A j \in Conn \ {k} : owned'[j] = owned[j]
        /\ owned'[k] \subseteq owned[k] \cup {c}
    <3>1. S \in SUBSET Char
      OBVIOUS
    <3> QED
      BY <1>0, <2>1, <3>1, ReplyTypes
  <2>3. conn[k].serverid \in GsId
    BY <1>2 DEF Inv, VerifiedId, Handles, Open
  <2>4. lock' \in [Char -> GsId \cup {0}]
    BY <1>0, <1>2, <2>3 DEF Lock, TypeOK
  <2>5. TypeOK'
    BY <1>0, <1>2, <2>2, <2>4 DEF TypeOK
  <2> QED
    BY <1>2, <2>2, <2>5, TakeInv
<1>3. ASSUME NEW c \in Char, GetLocked(k, c) PROVE Inv'
  BY <1>1, <1>3 DEF GetLocked
<1>4. ASSUME NEW c \in Char, GetLoaded(k, c) PROVE Inv'
  BY <1>2, <1>4 DEF GetLoaded
<1>5. ASSUME NEW c \in Char, GetFailed(k, c) PROVE Inv'
  BY <1>1, <1>2, <1>5 DEF GetFailed
<1>6. CASE GetPortrait(k)
  BY <1>1, <1>6 DEF GetPortrait
<1> QED
  BY <1>3, <1>4, <1>5, <1>6 DEF dbs_packet_getdata

\* A lock or unlock request touches only the locks of its sender.
LEMMA CharlockInv ==
  ASSUME Inv, NEW k \in Conn, NEW c \in Char, NEW on \in BOOLEAN, dbs_packet_charlock(k, c, on)
  PROVE  Inv'
<1> USE GsIdAssumption
<1>0. TypeOK /\ Handles(k) /\ conn[k].serverid \in GsId
  BY DEF Inv, dbs_packet_charlock, VerifiedId, Handles, Open
<1>1. owned' \in [Conn -> SUBSET Char] /\ \A j \in Conn \ {k} : owned'[j] = owned[j]
  BY <1>0 DEF dbs_packet_charlock, TypeOK
<1>2. CASE on /\ Lock(c, conn[k].serverid)
  <2>1. owned'[k] \subseteq owned[k] \cup {c}
    BY <1>0, <1>2 DEF dbs_packet_charlock, TypeOK
  <2>2. lock' \in [Char -> GsId \cup {0}]
    BY <1>0, <1>2 DEF Lock, TypeOK
  <2>3. TypeOK'
    BY <1>0, <1>1, <2>2 DEF dbs_packet_charlock, TypeOK
  <2> QED
    BY <1>0, <1>1, <1>2, <2>1, <2>3, TakeInv DEF dbs_packet_charlock
<1>3. CASE ~(on /\ Lock(c, conn[k].serverid))
  <2>1. /\ lock' \in [Char -> GsId \cup {0}]
        /\ \A d \in Char \ {c} : lock'[d] = lock[d]
        /\ lock'[c] = lock[c] \/ (~on /\ lock[c] = conn[k].serverid /\ lock'[c] = 0)
    BY <1>0, <1>3 DEF dbs_packet_charlock, Unlock, TypeOK
  <2>2. \/ ~on /\ owned'[k] = owned[k] \ {c}
        \/ on /\ owned'[k] = owned[k]
        \/ on /\ owned'[k] = owned[k] \cup {c} /\ lock[c] = conn[k].serverid /\ lock'[c] = lock[c]
    <3>1. CASE ~on
      BY <1>0, <3>1 DEF dbs_packet_charlock, TypeOK
    <3>2. CASE on /\ lock[c] \notin {0, conn[k].serverid}
      BY <1>0, <3>2 DEF dbs_packet_charlock, TypeOK
    <3>3. CASE on /\ lock[c] \in {0, conn[k].serverid}
      BY <1>0, <1>3, <3>3 DEF dbs_packet_charlock, TypeOK, Unlock
    <3> QED
      BY <3>1, <3>2, <3>3
  <2>3. UNCHANGED conn /\ TypeOK'
    BY <1>0, <1>1, <2>1 DEF dbs_packet_charlock, TypeOK
  <2>4. VerifiedId' /\ OneVerified'
    BY <2>3 DEF Inv, VerifiedId, OneVerified, Open, Handles
  <2>5. LocksBacked'
    BY <2>1, <2>3 DEF Inv, LocksBacked, Handles
  <2>6. ASSUME NEW j \in Conn, lock[c] = conn[j].serverid, Handles(j), lock[c] = conn[k].serverid
        PROVE  j = k
    BY <1>0, <2>6 DEF Inv, OneVerified
  <2>7. ASSUME NEW j \in Conn, NEW d \in owned'[j]
        PROVE  Handles(j)' /\ lock'[d] = conn'[j].serverid
    <3>1. CASE d \notin owned[j]
      <4>1. j = k /\ d = c /\ lock'[c] = conn[k].serverid
        BY <1>1, <2>2, <2>7, <3>1
      <4> QED
        BY <1>0, <2>3, <4>1 DEF Handles
    <3>2. CASE d \in owned[j] /\ d # c
      BY <2>1, <2>3, <3>2 DEF Inv, Exclusive, Handles, TypeOK
    <3>3. CASE d \in owned[j] /\ d = c
      <4>1. Handles(j) /\ lock[c] = conn[j].serverid
        BY <3>3 DEF Inv, Exclusive
      <4>2. lock'[c] = lock[c]
        BY <2>1, <2>2, <2>6, <2>7, <3>3, <4>1
      <4> QED
        BY <2>3, <3>3, <4>1, <4>2 DEF Handles
    <3> QED
      BY <3>1, <3>2, <3>3
  <2>8. ASSUME NEW i \in Conn, NEW j \in Conn, i # j, NEW d \in owned'[i] \cap owned'[j]
        PROVE  FALSE
    <3>1. conn[i].serverid = lock'[d] /\ conn[j].serverid = lock'[d] /\ Handles(i) /\ Handles(j)
      BY <2>3, <2>7, <2>8 DEF Handles
    <3> QED
      BY <2>8, <3>1 DEF Inv, OneVerified
  <2> QED
    BY <2>3, <2>4, <2>5, <2>7, <2>8 DEF Inv, Exclusive
<1> QED
  BY <1>2, <1>3

\* Every step of the server and of its peers preserves the invariant.
LEMMA NextInv == Inv /\ [Next]_vars => Inv'
<1> SUFFICES ASSUME Inv, [Next]_vars PROVE Inv'
  OBVIOUS
<1> USE GsIdAssumption, DbsAssumption
<1>0. TypeOK
  BY DEF Inv
<1>1. ASSUME NEW k \in Conn, NEW g \in GsId, dbs_server_list_add_socket(k, g) PROVE Inv'
  <2>1. TypeOK'
    BY <1>0, <1>1 DEF dbs_server_list_add_socket, TypeOK, ConnRecord
  <2>2. /\ ~Handles(k) /\ ~Handles(k)' /\ conn'[k].serverid = g
        /\ \A j \in Conn \ {k} : conn'[j] = conn[j]
    BY <1>0, <1>1 DEF dbs_server_list_add_socket, TypeOK, Handles
  <2>3. VerifiedId' /\ OneVerified'
    BY <2>2 DEF Inv, VerifiedId, OneVerified, Open, Handles
  <2>4. LocksBacked' /\ Exclusive'
    BY <1>1, <2>2 DEF dbs_server_list_add_socket, Inv, LocksBacked, Exclusive, Handles
  <2> QED
    BY <2>1, <2>3, <2>4 DEF Inv
<1>2. ASSUME NEW k \in Conn, NEW r \in Requests, Receive(k, r)
      PROVE  Inv'
  <2>1. TypeOK'
    BY <1>0, <1>2 DEF Receive, TypeOK
  <2> QED
    BY <1>2, <2>1, SameLocks DEF Receive
<1>3. ASSUME NEW k \in Conn, dbs_packet_savedata(k) PROVE Inv'
  <2>1. Reply(k, 1, {}) /\ UNCHANGED <<lock, conn, peer>>
    BY <1>3 DEF dbs_packet_savedata
  <2>2. owned' = owned
    BY <1>0, <2>1 DEF Reply, TypeOK
  <2>3. /\ wlen' \in [Conn -> 0..Cap]
        /\ request' \in [Conn -> Requests \cup {NULL}]
    <3>1. 1 \in {1, 2} /\ {} \in SUBSET Char
      OBVIOUS
    <3>2. Reply(k, 1, {})
      BY <2>1
    <3> QED
      BY <1>0, <3>1, <3>2, ReplyTypes
  <2>4. TypeOK'
    BY <1>0, <2>1, <2>2, <2>3 DEF TypeOK
  <2> QED
    BY <2>1, <2>2, <2>4, SameLocks
<1>4. ASSUME NEW k \in Conn, dbs_packet_echoreply(k) \/ TimePasses(k) PROVE Inv'
  <2>1. PICK b \in BOOLEAN : conn' = [conn EXCEPT ![k].idle = b]
    BY <1>4 DEF dbs_packet_echoreply, TimePasses
  <2>2. conn \in [Conn -> ConnRecord] /\ conn[k] \in ConnRecord
    BY <1>0 DEF TypeOK
  <2>3. conn' \in [Conn -> ConnRecord]
    BY <2>1, <2>2 DEF ConnRecord
  <2>4. \A j \in Conn : conn'[j].state = conn[j].state /\ conn'[j].serverid = conn[j].serverid
    BY <2>1, <2>2 DEF ConnRecord
  <2>5. TypeOK'
    BY <1>0, <1>4, <2>3 DEF dbs_packet_echoreply, TimePasses, TypeOK
  <2> QED
    BY <1>4, <2>4, <2>5, SameLocks DEF dbs_packet_echoreply, TimePasses
<1>5. ASSUME NEW k \in Conn, dbs_server_write_data(k) \/ PeerDies(k) PROVE Inv'
  <2>1. TypeOK'
    BY <1>0, <1>5 DEF dbs_server_write_data, PeerDies, TypeOK
  <2> QED
    BY <1>5, <2>1, SameLocks DEF dbs_server_write_data, PeerDies
<1>6. CASE dbs_keepalive
  <2>1. TypeOK'
    BY <1>0, <1>6 DEF dbs_keepalive, TypeOK, Room
  <2> QED
    BY <1>6, <2>1, SameLocks DEF dbs_keepalive
<1>7. CASE dbs_check_timeout
  BY <1>7, CloseInv DEF dbs_check_timeout
<1>8. ASSUME NEW k \in Conn, dbs_server_shutdown_connection(k) PROVE Inv'
  BY <1>8, CloseInv DEF dbs_server_shutdown_connection
<1>9. CASE Restart
  <2>1. conn' \in [Conn -> ConnRecord] /\ \A k \in Conn : ~Handles(k)' /\ ~Open(k)'
    BY <1>0, <1>9 DEF Restart, TypeOK, ConnRecord, Closed, Handles, Open
  <2>2. TypeOK'
    BY <1>0, <1>9, <2>1 DEF Restart, TypeOK
  <2> QED
    BY <1>9, <2>1, <2>2 DEF Restart, Inv, VerifiedId, OneVerified, LocksBacked, Exclusive
<1>10. CASE UNCHANGED vars
  <2>1. TypeOK'
    BY <1>0, <1>10 DEF vars, TypeOK
  <2> QED
    BY <1>10, <2>1, SameLocks DEF vars
<1>11. ASSUME NEW k \in Conn, ConnStep(k) PROVE Inv'
  BY <1>1, <1>2, <1>3, <1>4, <1>5, <1>8, <1>11, VerifyInv, GetdataInv, CharlockInv DEF ConnStep
<1> QED
  BY <1>6, <1>7, <1>9, <1>10, <1>11 DEF Next

\* Closing connections removes the locks of a set of servers.
LEMMA ShutdownLock ==
  ASSUME Inv, NEW ks \in SUBSET Conn, NEW f, Shutdown(ks, f)
  PROVE  LockNext
<1>1. Released(ks) \in SUBSET GsId
  BY DEF Released, Inv, VerifiedId, Open
<1>2. UnlockAll(Released(ks))
  BY DEF Shutdown
<1> QED
  BY <1>1, <1>2 DEF LockNext

\* Every step of the server is one operation of the lock table, or none.
LEMMA NextLock == Inv /\ [Next]_vars => [LockNext]_lock
<1> SUFFICES ASSUME Inv, [Next]_vars PROVE LockNext \/ UNCHANGED lock
  OBVIOUS
<1>0. \A k \in Conn : Handles(k) => conn[k].serverid \in GsId
  BY DEF Inv, VerifiedId, Handles, Open
<1>1. ASSUME NEW k \in Conn, dbs_verify_ipaddr(k) PROVE LockNext
  <2>1. Previous(k) \in SUBSET Conn /\ {k} \in SUBSET Conn
    BY DEF Previous
  <2> QED
    BY <1>1, <2>1, ShutdownLock DEF dbs_verify_ipaddr
<1>2. ASSUME NEW k \in Conn, dbs_server_shutdown_connection(k) PROVE LockNext
  <2>1. {k} \in SUBSET Conn
    OBVIOUS
  <2> QED
    BY <1>2, <2>1, ShutdownLock DEF dbs_server_shutdown_connection
<1>3. CASE dbs_check_timeout
  <2>1. {k \in Conn : Open(k) /\ conn[k].idle} \in SUBSET Conn
    OBVIOUS
  <2> QED
    BY <1>3, <2>1, ShutdownLock DEF dbs_check_timeout
<1>4. CASE Restart
  <2>1. \A c \in Char : lock[c] \in GsId \cup {0}
    BY DEF Inv, TypeOK
  <2>2. lock' = [c \in Char |-> IF lock[c] \in GsId THEN 0 ELSE lock[c]]
    BY <1>4, <2>1 DEF Restart
  <2>3. GsId \in SUBSET GsId
    OBVIOUS
  <2> QED
    BY <2>2, <2>3 DEF UnlockAll, LockNext
<1>5. ASSUME NEW k \in Conn, dbs_packet_getdata(k) PROVE LockNext \/ UNCHANGED lock
  <2>1. CASE GetPortrait(k)
    BY <2>1 DEF GetPortrait
  <2>2. ASSUME NEW c \in Char, GetLocked(k, c) \/ GetLoaded(k, c) \/ GetFailed(k, c)
        PROVE  LockNext \/ UNCHANGED lock
    <3>1. Handles(k) /\ (Lock(c, conn[k].serverid) \/ UNCHANGED lock)
      BY <2>2 DEF GetLocked, GetLoaded, GetFailed
    <3> QED
      BY <1>0, <3>1 DEF LockNext
  <2> QED
    BY <1>5, <2>1, <2>2 DEF dbs_packet_getdata
<1>6. ASSUME NEW k \in Conn, NEW c \in Char, NEW on \in BOOLEAN, dbs_packet_charlock(k, c, on)
      PROVE  LockNext \/ UNCHANGED lock
  <2>1. /\ Handles(k)
        /\ Lock(c, conn[k].serverid) \/ Unlock(c, conn[k].serverid) \/ UNCHANGED lock
    BY <1>6 DEF dbs_packet_charlock
  <2> QED
    BY <1>0, <2>1 DEF LockNext
<1>7. ASSUME NEW k \in Conn, ConnStep(k) PROVE LockNext \/ UNCHANGED lock
  BY <1>1, <1>2, <1>5, <1>6, <1>7
     DEF ConnStep, dbs_server_list_add_socket, Receive, dbs_packet_savedata,
         dbs_packet_echoreply, dbs_server_write_data, PeerDies, TimePasses
<1> QED
  BY <1>3, <1>4, <1>7 DEF Next, dbs_keepalive, vars

-----------------------------------------------------------------------------
(* Theorems                                                                *)

\* The inductive invariant holds in every reachable state.
THEOREM Invariance == Spec => []Inv
BY InitInv, NextInv, PTL DEF Spec

\* Types, and the bound of the write buffers.
THEOREM TypeCorrect == Spec => []TypeOK
<1>1. Inv => TypeOK
  BY DEF Inv
<1> QED
  BY <1>1, Invariance, PTL

\* One verified connection per game server.
THEOREM OneConnection == Spec => []OneVerified
<1>1. Inv => OneVerified
  BY DEF Inv
<1> QED
  BY <1>1, Invariance, PTL

\* A lock never outlives the connection of its server.
THEOREM CrashRecovery == Spec => []LocksBacked
<1>1. Inv => LocksBacked
  BY DEF Inv
<1> QED
  BY <1>1, Invariance, PTL

\* No character is in the hands of two connected game servers.
THEOREM MutualExclusion == Spec => []Exclusive
<1>1. Inv => Exclusive
  BY DEF Inv
<1> QED
  BY <1>1, Invariance, PTL

\* The server uses its lock table as CharLock promises: a lock is never taken
\* over, and goes only with its owner's request or connection.
THEOREM ImplementsLock == Spec => LockSpec
<1>1. Init => LockInit
  BY DEF Init
<1> QED
  BY <1>1, NextLock, Invariance, PTL DEF Spec, LockSpec
=============================================================================
