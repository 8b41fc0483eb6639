--------------------------------- MODULE Dbs ---------------------------------
(***************************************************************************)
(* The connections of the Diablo II database server and the character      *)
(* locks it keeps for game servers (src/src/d2dbs: dbserver.cpp,           *)
(* dbspacket.cpp).  The lock table is the one of CharLock; the files behind *)
(* it are the subject of CharSave.                                         *)
(*                                                                         *)
(* The process is single-threaded: an action is one accepted connection,   *)
(* one handled packet, one timer or one closed connection.  A request      *)
(* whose reply does not fit into the write buffer stays in the read buffer *)
(* and is handled again, from the start, later.  Game servers are          *)
(* external: they send any request, may stop answering without closing     *)
(* their connection, and may connect again.                                *)
(***************************************************************************)
EXTENDS CharLock, FiniteSets

CONSTANTS
  Conn,     \* connections, in the course of the process
  Listed,   \* game servers on the gameservlist
  Cap,      \* size of a write buffer; a reply with data takes 2, others 1
  NULL

ASSUME DbsAssumption == Listed \subseteq GsId /\ Cap \in Nat \ {0, 1}

VARIABLES
  conn,     \* state (stats and verified), serverid, idle (last_active is old)
  peer,     \* external: is the game server behind the connection alive?
  request,  \* the request at the head of the read buffer
  wlen,     \* nCharsInWriteBuffer
  owned     \* the characters the peer was given, or locked itself

vars == <<lock, conn, peer, request, wlen, owned>>

Open(k) == conn[k].state \in {"new", "verified"}
Room(k, n) == wlen[k] + n <= Cap

-----------------------------------------------------------------------------
(* Opening and closing connections                                         *)

\* Fault: a closed connection leaves the locks of its server behind.
ReleasedNone(ks) == {}

\* The servers whose locks dbs_server_shutdown_connection removes when the
\* connections ks are closed: only a verified connection removes locks.
Released(ks) == {conn[k].serverid : k \in {j \in ks : conn[j].state = "verified"}}

Closed == [state |-> "closed", serverid |-> 0, idle |-> FALSE]

\* dbs_server_shutdown_connection for the connections ks, all other effects on
\* the connections being those of f.
Shutdown(ks, f) ==
  /\ UnlockAll(Released(ks))
  /\ conn' = [k \in Conn |-> IF k \in ks THEN Closed ELSE f[k]]
  /\ request' = [k \in Conn |-> IF k \in ks THEN NULL ELSE request[k]]
  /\ wlen' = [k \in Conn |-> IF k \in ks THEN 0 ELSE wlen[k]]
  /\ owned' = [k \in Conn |-> IF k \in ks THEN {} ELSE owned[k]]
  /\ peer' = [k \in Conn |-> IF k \in ks THEN "gone" ELSE peer[k]]

\* dbs_server_list_add_socket: the server id belongs to the address.
dbs_server_list_add_socket(k, g) ==
  /\ conn[k].state = "out"
  /\ conn' = [conn EXCEPT ![k] = [state |-> "new", serverid |-> g, idle |-> FALSE]]
  /\ peer' = [peer EXCEPT ![k] = "alive"]
  /\ UNCHANGED <<lock, request, wlen, owned>>

\* Fault: a server may be connected twice.
NoPrevious(k) == {}

\* dbs_verify_ipaddr closes every other connection from the same address.
Previous(k) == {j \in Conn \ {k} : Open(j) /\ conn[j].serverid = conn[k].serverid}

\* dbs_packet_handle for the first byte of a connection.
dbs_verify_ipaddr(k) ==
  /\ conn[k].state = "new" /\ peer[k] = "alive"
  /\ \/ /\ conn[k].serverid \in Listed
        /\ Shutdown(Previous(k), [conn EXCEPT ![k].state = "verified"])
     \/ /\ conn[k].serverid \notin Listed
        /\ Shutdown({k}, conn)

\* A socket error or a malformed packet.
dbs_server_shutdown_connection(k) == Open(k) /\ Shutdown({k}, conn)

\* Fault: connections that identified themselves never time out.
TimeoutNewOnly ==
  LET ks == {k \in Conn : conn[k].state = "new" /\ conn[k].idle}
  IN  ks # {} /\ Shutdown(ks, conn)

dbs_check_timeout ==
  LET ks == {k \in Conn : Open(k) /\ conn[k].idle}
  IN  ks # {} /\ Shutdown(ks, conn)

\* The process stops, or crashes, and is started again.
Restart ==
  /\ \E k \in Conn : Open(k)
  /\ lock' = [c \in Char |-> 0]
  /\ conn' = [k \in Conn |-> IF Open(k) THEN Closed ELSE conn[k]]
  /\ peer' = [k \in Conn |-> IF Open(k) THEN "gone" ELSE peer[k]]
  /\ request' = [k \in Conn |-> NULL]
  /\ wlen' = [k \in Conn |-> 0]
  /\ owned' = [k \in Conn |-> {}]

-----------------------------------------------------------------------------
(* Packets of a verified game server                                       *)

Handles(k) == conn[k].state = "verified"

\* The requests that are replied to: get a character (datatype charsave), get
\* its portrait (charinfo), save either.
Requests == [kind : {"get", "portrait", "save"}, char : Char]

\* A request with a reply arrives in the empty read buffer.
Receive(k, r) ==
  /\ Handles(k) /\ peer[k] = "alive" /\ request[k] = NULL
  /\ request' = [request EXCEPT ![k] = r]
  /\ UNCHANGED <<lock, conn, peer, wlen, owned>>

\* The reply of size n is written and the request consumed, or, without room,
\* everything that was done for the request stays done and it is kept.
Reply(k, n, given) ==
  \/ /\ Room(k, n)
     /\ wlen' = [wlen EXCEPT ![k] = @ + n]
     /\ request' = [request EXCEPT ![k] = NULL]
     /\ owned' = [owned EXCEPT ![k] = @ \cup given]
  \/ ~Room(k, n) /\ UNCHANGED <<wlen, request, owned>>

\* dbs_packet_getdata for a character file, locked already.
GetLocked(k, c) ==
  /\ Handles(k) /\ request[k] = [kind |-> "get", char |-> c]
  /\ lock[c] # 0
  /\ Reply(k, 1, {})
  /\ UNCHANGED <<lock, conn, peer>>

\* Free: it is locked, and its files are read.
GetLoaded(k, c) ==
  /\ Handles(k) /\ request[k] = [kind |-> "get", char |-> c]
  /\ Lock(c, conn[k].serverid)
  /\ Reply(k, 2, {c})
  /\ UNCHANGED <<conn, peer>>

\* Free, and reading charsave (short reply) or charinfo (with data) fails:
\* cl_unlock_char is called with gsid, which was never assigned.  The lock
\* is removed if the uninitialised value happens to be the server's id.
GetFailed(k, c) ==
  /\ Handles(k) /\ request[k] = [kind |-> "get", char |-> c]
  /\ Lock(c, conn[k].serverid) \/ (lock[c] = 0 /\ UNCHANGED lock)
  /\ Reply(k, 1, {}) \/ Reply(k, 2, {})
  /\ UNCHANGED <<conn, peer>>

\* The portrait is read without regard to locks, and may be missing.
GetPortrait(k) ==
  /\ Handles(k) /\ request[k] # NULL /\ request[k].kind = "portrait"
  /\ Reply(k, 1, {}) \/ Reply(k, 2, {})
  /\ UNCHANGED <<lock, conn, peer>>

dbs_packet_getdata(k) ==
  \/ \E c \in Char : GetLocked(k, c) \/ GetLoaded(k, c) \/ GetFailed(k, c)
  \/ GetPortrait(k)

\* dbs_packet_savedata: the lock is not consulted.
dbs_packet_savedata(k) ==
  /\ Handles(k) /\ request[k] # NULL /\ request[k].kind = "save"
  /\ Reply(k, 1, {})
  /\ UNCHANGED <<lock, conn, peer>>

\* Faults: a lock request takes the lock from its holder; an unlock request
\* removes the lock of any server.
CharlockSteals(k, c, lockstatus) ==
  /\ Handles(k) /\ peer[k] = "alive" /\ request[k] = NULL
  /\ lock' = [lock EXCEPT ![c] = IF lockstatus THEN conn[k].serverid ELSE 0]
  /\ owned' = [owned EXCEPT ![k] = IF lockstatus THEN @ \cup {c} ELSE @ \ {c}]
  /\ UNCHANGED <<conn, peer, request, wlen>>
UnlockAnyOwner(k, c, lockstatus) ==
  /\ Handles(k) /\ peer[k] = "alive" /\ request[k] = NULL /\ ~lockstatus
  /\ lock' = [lock EXCEPT ![c] = 0]
  /\ owned' = [owned EXCEPT ![k] = @ \ {c}]
  /\ UNCHANGED <<conn, peer, request, wlen>>

\* dbs_packet_charlock.  There is no reply: a server that asks for a lock
\* another one holds is not told that it did not get it.
dbs_packet_charlock(k, c, lockstatus) ==
  /\ Handles(k) /\ peer[k] = "alive" /\ request[k] = NULL
  /\ \/ lockstatus /\ Lock(c, conn[k].serverid)
     \/ ~lockstatus /\ Unlock(c, conn[k].serverid)
     \/ lock[c] # (IF lockstatus THEN 0 ELSE conn[k].serverid) /\ UNCHANGED lock
  /\ owned' = [owned EXCEPT ![k] = IF lockstatus /\ lock[c] \in {0, conn[k].serverid}
                                   THEN @ \cup {c}
                                   ELSE IF lockstatus THEN @ ELSE @ \ {c}]
  /\ UNCHANGED <<conn, peer, request, wlen>>

\* The only packet that renews last_active.
dbs_packet_echoreply(k) ==
  /\ Handles(k) /\ peer[k] = "alive" /\ request[k] = NULL
  /\ conn' = [conn EXCEPT ![k].idle = FALSE]
  /\ UNCHANGED <<lock, peer, request, wlen, owned>>

\* Fault: the keepalive request is written whether or not there is room.
KeepaliveBlindly ==
  /\ wlen' = [k \in Conn |-> IF Open(k) THEN wlen[k] + 1 ELSE wlen[k]]
  /\ UNCHANGED <<lock, conn, peer, request, owned>>

\* dbs_keepalive writes an echo request to every connection with room for it.
dbs_keepalive ==
  /\ wlen' = [k \in Conn |-> IF Open(k) /\ Room(k, 1) THEN wlen[k] + 1 ELSE wlen[k]]
  /\ UNCHANGED <<lock, conn, peer, request, owned>>

\* The socket takes some of the write buffer.
dbs_server_write_data(k) ==
  /\ Open(k) /\ peer[k] = "alive" /\ wlen[k] > 0
  /\ \E n \in 0..wlen[k]-1 : wlen' = [wlen EXCEPT ![k] = n]
  /\ UNCHANGED <<lock, conn, peer, request, owned>>

-----------------------------------------------------------------------------
(* The environment                                                         *)

\* The game server dies or is cut off without its connection being closed:
\* nothing more arrives from it, and nothing is sent to it.
PeerDies(k) ==
  /\ Open(k) /\ peer[k] = "alive"
  /\ peer' = [peer EXCEPT ![k] = "dead"]
  /\ UNCHANGED <<lock, conn, request, wlen, owned>>

\* The idle time passes without an echo reply.
TimePasses(k) ==
  /\ Open(k) /\ ~conn[k].idle
  /\ conn' = [conn EXCEPT ![k].idle = TRUE]
  /\ UNCHANGED <<lock, peer, request, wlen, owned>>

-----------------------------------------------------------------------------
Init ==
  /\ LockInit
  /\ conn = [k \in Conn |-> [state |-> "out", serverid |-> 0, idle |-> FALSE]]
  /\ peer = [k \in Conn |-> "gone"]
  /\ request = [k \in Conn |-> NULL]
  /\ wlen = [k \in Conn |-> 0]
  /\ owned = [k \in Conn |-> {}]

ConnStep(k) ==
  \/ \E g \in GsId : dbs_server_list_add_socket(k, g)
  \/ dbs_verify_ipaddr(k)
  \/ dbs_server_shutdown_connection(k)
  \/ \E r \in Requests : Receive(k, r)
  \/ dbs_packet_getdata(k)
  \/ dbs_packet_savedata(k)
  \/ \E c \in Char, on \in BOOLEAN : dbs_packet_charlock(k, c, on)
  \/ dbs_packet_echoreply(k)
  \/ dbs_server_write_data(k)
  \/ PeerDies(k)
  \/ TimePasses(k)

Next == (\E k \in Conn : ConnStep(k)) \/ dbs_check_timeout \/ dbs_keepalive \/ Restart

Spec == Init /\ [][Next]_vars

\* dbs_handle_timed_events runs in every pass of dbs_server_loop; time passes.
FairSpec == Spec /\ WF_vars(dbs_check_timeout) /\ \A k \in Conn : WF_vars(TimePasses(k))

-----------------------------------------------------------------------------
(* Properties                                                              *)

ConnRecord == [state : {"out", "new", "verified", "closed"},
               serverid : GsId \cup {0}, idle : BOOLEAN]

\* Types; a write buffer never holds more than its size.
TypeOK ==
  /\ lock \in [Char -> GsId \cup {0}]
  /\ conn \in [Conn -> ConnRecord]
  /\ peer \in [Conn -> {"alive", "dead", "gone"}]
  /\ request \in [Conn -> Requests \cup {NULL}]
  /\ wlen \in [Conn -> 0..Cap]
  /\ owned \in [Conn -> SUBSET Char]

\* A game server is never served on two connections: closing one of them
\* would release the locks of the other.
OneVerified ==
  \A j, k \in Conn :
    (Handles(j) /\ Handles(k) /\ conn[j].serverid = conn[k].serverid) => j = k

\* src/src/d2dbs/README.md, "Crash Recovery": a lock never outlives the
\* connection of its server, however that connection ended.
LocksBacked ==
  \A c \in Char : lock[c] # 0 => \E k \in Conn : Handles(k) /\ conn[k].serverid = lock[c]

\* Mutual exclusion: a character that a connected server was given, or locked,
\* is locked for that server until it gives it back or is disconnected, so no
\* second connected server has it.
Exclusive ==
  /\ \A k \in Conn : \A c \in owned[k] : Handles(k) /\ lock[c] = conn[k].serverid
  /\ \A j, k \in Conn : j # k => owned[j] \cap owned[k] = {}

\* A server that died without a word loses its locks in the end.
DeadReleased ==
  \A k \in Conn, c \in Char, g \in GsId :
    (Handles(k) /\ peer[k] = "dead" /\ conn[k].serverid = g /\ lock[c] = g) ~> lock[c] # g

\* The converse of Exclusive: a character is only locked for a server that was
\* given it or asked for the lock.  dbs_packet_getdata logs "unlock char ...
\* for gs" when it could not load a character it had locked.
LockGranted == \A c \in Char : lock[c] # 0 => \E k \in Conn : c \in owned[k]
=============================================================================
