----------------------------- MODULE RealmLogin -----------------------------
(***************************************************************************)
(* How a player enters a realm: the account login and the character login   *)
(* of a d2cs client, each a request that d2cs passes to bnetd over the link *)
(* of RealmLink and completes when the answer arrives                       *)
(* (src/src/d2cs/handle_d2cs.cpp, handle_bnetd.cpp, serverqueue.cpp,        *)
(* connection.cpp; src/src/bnetd/handle_d2cs.cpp).                          *)
(*                                                                         *)
(* Between request and answer the client may ask again, delete the         *)
(* character, leave or be dropped; the link may break and either server's  *)
(* connections may be replaced.  Names, keys and portraits are abstract:   *)
(* bnetd accepts an account login when the session is still there.         *)
(***************************************************************************)
EXTENDS RealmLink

CONSTANTS
  Client,      \* session numbers d2cs gives to clients
  Session,     \* bnetd connections of the players
  Char,        \* character names
  HashMeets    \* the values `meets` may have

VARIABLES
  multilogin,  \* check_multilogin of d2cs.conf
  meets,       \* pairs <<c, x>>: does the hash of the session number c equal
               \* the hash of the character name x?
  cl,          \* d2cs: the client connections
  dead,        \* d2cs: connlist_dead
  chars,       \* d2cs: the characters that have files
  sqlist,      \* d2cs: requests waiting for bnetd
  sqlist_seqno,
  sess         \* bnetd: the players' connections

loginVars == <<multilogin, meets, cl, dead, chars, sqlist, sqlist_seqno, sess>>
vars == <<linkVars, loginVars>>

ASSUME RealmLoginAssumption ==
  /\ HashMeets \subseteq SUBSET (Client \X Char)
  /\ NULL \notin Char

NoClient ==
  [state |-> "none", account |-> NULL, charname |-> NULL, charinfo |-> NULL,
   session |-> NULL, peer |-> FALSE]

Exists(c) == cl[c].state \notin {"none", "gone"}

Maybe(S) == S \union {NULL}

\* The account of a player is named by the session that proves it.
ClientRec ==
  [state : {"none", "connected", "authed", "char_authed", "destroy", "gone"},
   account : Maybe(Session), charname : Maybe(Char), charinfo : Maybe(Char),
   session : Maybe(Session), peer : BOOLEAN]

Sq == [seqno : Nat, client : Client, type : {"login", "char"}, arg : Session \union Char]

\* Types of the login state.
TypeOK ==
  /\ LinkTypeOK
  /\ multilogin \in BOOLEAN /\ meets \in HashMeets \union {{}}
  /\ cl \in [Client -> ClientRec] /\ dead \subseteq Client /\ chars \subseteq Char
  /\ sqlist \subseteq Sq /\ sqlist_seqno \in 0..bound.requests
  /\ sess \in [Session -> [up : BOOLEAN, realm : BOOLEAN, charname : Maybe(Char)]]

Init ==
  /\ LinkInit
  /\ multilogin \in BOOLEAN
  /\ meets \in IF multilogin THEN HashMeets ELSE {{}}
  /\ cl = [c \in Client |-> NoClient]
  /\ dead = {}
  /\ chars = Char
  /\ sqlist = {} /\ sqlist_seqno = 0
  /\ sess = [s \in Session |-> [up |-> TRUE, realm |-> FALSE, charname |-> NULL]]

-----------------------------------------------------------------------------
(* d2cs connections                                                        *)

\* Fault: a connection taken out of the destroy state stays on connlist_dead.
SetStateKeepsDead(list, c, old, new) ==
  IF new = "destroy" THEN list \union {c} ELSE list

\* d2cs_conn_set_state: connlist_dead after the state changes from old to new.
d2cs_conn_set_state(list, c, old, new) ==
  IF new = "destroy" /\ old # "destroy" THEN list \union {c}
  ELSE IF new # "destroy" /\ old = "destroy" THEN list \ {c}
  ELSE list

\* A client connection becomes rec.
Becomes(c, rec) ==
  /\ cl' = [cl EXCEPT ![c] = rec]
  /\ dead' = d2cs_conn_set_state(dead, c, cl[c].state, rec.state)

\* A handler returned -1: d2cs_server_handle_tcp.
Fails(c) == Becomes(c, [cl[c] EXCEPT !.state = "destroy"]) /\ UNCHANGED <<sqlist, sqlist_seqno>>

\* A packet of the client arrives in one of the states its table entry names.
Packet(c, states) == cl[c].peer /\ cl[c].state \in states

\* server_accept, d2cs_conn_create and the init packet.  Session numbers are
\* counted up and never used again before d2cs restarts.
d2cs_conn_create(c) ==
  /\ cl[c].state = "none" /\ \A d \in Client : d < c => cl[d].state # "none"
  /\ bound.requests > 0
  /\ cl' = [cl EXCEPT ![c] = [NoClient EXCEPT !.state = "connected", !.peer = TRUE]]
  /\ UNCHANGED <<linkVars, multilogin, meets, dead, chars, sqlist, sqlist_seqno, sess>>

\* The client closes its connection.
ClientLeaves(c) ==
  /\ cl[c].peer /\ Fault
  /\ cl' = [cl EXCEPT ![c].peer = FALSE]
  /\ UNCHANGED <<netVars, multilogin, meets, dead, chars, sqlist, sqlist_seqno, sess>>

\* Fault: a connection is read only until the account is logged in.
ReadsBeforeLogin(c) ==
  /\ cl[c].state = "connected" /\ ~cl[c].peer
  /\ Fails(c)
  /\ UNCHANGED <<linkVars, multilogin, meets, chars, sess>>

\* conn_handle_read returns -1: the client closed the connection.
conn_handle_read_fails(c) ==
  /\ Exists(c) /\ cl[c].state # "destroy" /\ ~cl[c].peer
  /\ Fails(c)
  /\ UNCHANGED <<linkVars, multilogin, meets, chars, sess>>

\* connlist_check_timeout finds a client that was idle for too long.
connlist_check_timeout(c) ==
  /\ cl[c].peer /\ cl[c].state # "destroy" /\ Fault
  /\ Fails(c)
  /\ UNCHANGED <<netVars, multilogin, meets, chars, sess>>

\* d2cs_connlist_reap: d2cs_conn_destroy frees what is on connlist_dead.
client_reap(c) ==
  /\ c \in dead
  /\ dead' = dead \ {c}
  /\ cl' = [cl EXCEPT ![c] = [NoClient EXCEPT !.state = "gone"]]
  /\ UNCHANGED <<linkVars, multilogin, meets, chars, sqlist, sqlist_seqno, sess>>

-----------------------------------------------------------------------------
(* Requests of clients                                                     *)

\* Fault: a sequence number of a finished request is used again.
SeqnoReused == CHOOSE n \in 1..(bound.requests + 1) : \A q \in sqlist : q.seqno # n

NextSeqno == sqlist_seqno + 1

\* sq_create, and the packet that goes to bnetd.  conn_push_outqueue does not
\* ask for the state of the link and does nothing when there is none.  The
\* packet has no client: that field is for AnswersMatch, no handler reads it.
sq_create(c, type, arg, request, session) ==
  /\ sqlist_seqno < bound.requests
  /\ sqlist_seqno' = sqlist_seqno + 1
  /\ sqlist' = sqlist \union {[seqno |-> NextSeqno, client |-> c, type |-> type, arg |-> arg]}
  /\ toB' = IF bnetd_connection # NULL /\ tcp[bnetd_connection] = "up"
            THEN Push(toB, bnetd_connection, [type |-> request, seqno |-> NextSeqno, session |-> session,
                                              arg |-> arg, client |-> c])
            ELSE toB
  /\ UNCHANGED <<bound, faults, bnetd_connection, dstate, bstate, tcp, toD, realm, crealm>>

\* on_client_loginreq.
on_client_loginreq(c, s) ==
  /\ Packet(c, {"connected"})
  /\ \/ bnetd_connection = NULL /\ Fails(c) /\ UNCHANGED linkVars
     \/ /\ bnetd_connection # NULL
        /\ Becomes(c, [cl[c] EXCEPT !.session = s])
        /\ sq_create(c, "login", s, "ACCOUNTLOGINREQ", s)
  /\ UNCHANGED <<multilogin, meets, chars, sess>>

\* Fault: the character summary is set for the first character only.
SummaryKept(c, x) ==
  Becomes(c, [cl[c] EXCEPT !.charinfo = IF @ = NULL THEN x ELSE @])

\* conn_set_charinfo.
conn_set_charinfo(c, x) == Becomes(c, [cl[c] EXCEPT !.charinfo = x])

\* on_client_charloginreq: the character must have a file; an expired one is
\* refused with a reply and nothing changes.
on_client_charloginreq(c, x) ==
  /\ Packet(c, {"authed", "char_authed"})
  /\ \/ (x \notin chars \/ bnetd_connection = NULL) /\ Fails(c) /\ UNCHANGED linkVars
     \/ /\ x \in chars /\ bnetd_connection # NULL
        /\ conn_set_charinfo(c, x)
        /\ sq_create(c, "char", x, "CHARLOGINREQ", cl[c].session)
  /\ UNCHANGED <<multilogin, meets, chars, sess>>

\* on_client_createcharreq: with an existing name the client gets a reply and
\* nothing changes.  bnetd is asked even when there is no link.
on_client_createcharreq(c, x) ==
  /\ Packet(c, {"authed", "char_authed"})
  /\ x \notin chars
  /\ chars' = chars \union {x}
  /\ conn_set_charinfo(c, x)
  /\ sq_create(c, "char", x, "CHARLOGINREQ", cl[c].session)
  /\ UNCHANGED <<multilogin, meets, sess>>

\* d2cs_connlist_find_connection_by_charname walks the list keyed by session
\* number with the hash of the name.
d2cs_connlist_find_connection_by_charname(x) ==
  {d \in Client : Exists(d) /\ cl[d].charname = x /\ <<d, x>> \in meets}

\* conn_check_multilogin returns 0.  (That no game has the character is the
\* subject of RealmGames.)
conn_check_multilogin(c, x) ==
  multilogin => d2cs_connlist_find_connection_by_charname(x) \subseteq {c}

\* on_client_deletecharreq forgets the connection's character, whichever was
\* deleted, and leaves its state.
on_client_deletecharreq(c, x) ==
  /\ Packet(c, {"authed", "char_authed"})
  /\ \/ ~conn_check_multilogin(c, x) /\ Fails(c) /\ UNCHANGED chars
     \/ /\ conn_check_multilogin(c, x)
        /\ Becomes(c, [cl[c] EXCEPT !.charname = NULL])
        /\ chars' = chars \ {x}
        /\ UNCHANGED <<sqlist, sqlist_seqno>>
  /\ UNCHANGED <<linkVars, multilogin, meets, sess>>

\* sqlist_check_timeout: the oldest request expires first.
sqlist_check_timeout ==
  /\ Fault
  /\ \E q \in sqlist : /\ \A r \in sqlist : q.seqno <= r.seqno
                       /\ sqlist' = sqlist \ {q}
  /\ UNCHANGED <<netVars, multilogin, meets, cl, dead, chars, sqlist_seqno, sess>>

-----------------------------------------------------------------------------
(* Answers of bnetd                                                        *)

\* An answer on link l: dropped unless the link is authed.  Its request is
\* found by number and its client by session number; either may be gone.
Answer(l, type) ==
  /\ Arrived(toD, l, type)
  /\ toD' = Pop(toD, l)
  /\ UNCHANGED <<bound, faults, bnetd_connection, dstate, bstate, tcp, toB, realm, crealm>>

Request(l) == {q \in sqlist : dstate[l] = "authed" /\ q.seqno = Head(toD[l]).seqno}

Unanswered == UNCHANGED <<cl, dead>>

\* on_bnetd_accountloginreply: the account comes from the request, and the
\* state is set whatever it was.
on_bnetd_accountloginreply(l) ==
  /\ Answer(l, "ACCOUNTLOGINREPLY")
  /\ sqlist' = sqlist \ Request(l)
  /\ \/ Request(l) = {} /\ Unanswered
     \/ \E q \in Request(l) :
          IF ~Exists(q.client) \/ ~Head(toD[l]).ok THEN Unanswered
          ELSE Becomes(q.client, [cl[q.client] EXCEPT !.account = q.arg, !.state = "authed"])
  /\ UNCHANGED <<multilogin, meets, chars, sqlist_seqno, sess>>

\* on_bnetd_charloginreply, for a login and for a creation.
on_bnetd_charloginreply(l) ==
  /\ Answer(l, "CHARLOGINREPLY")
  /\ sqlist' = sqlist \ Request(l)
  /\ \/ Request(l) = {} /\ Unanswered
     \/ \E q \in Request(l) :
          IF ~Exists(q.client) \/ ~Head(toD[l]).ok \/ ~conn_check_multilogin(q.client, q.arg)
          THEN Unanswered
          ELSE Becomes(q.client, [cl[q.client] EXCEPT !.charname = q.arg, !.state = "char_authed"])
  /\ UNCHANGED <<multilogin, meets, chars, sqlist_seqno, sess>>

-----------------------------------------------------------------------------
(* bnetd                                                                   *)

\* A request on link l; handle_d2cs_packet ignores it unless d2cs logged in.
Asked(l, type) ==
  /\ Arrived(toB, l, type)
  /\ toB' = Pop(toB, l)
  /\ UNCHANGED <<bound, faults, bnetd_connection, dstate, bstate, tcp, realm, crealm>>

Reply(l, type, ok) ==
  toD' = IF bstate[l] = "loggedin" /\ tcp[l] = "up"
         THEN Push(toD, l, [type |-> type, seqno |-> Head(toB[l]).seqno, ok |-> ok,
                            arg |-> Head(toB[l]).arg, client |-> Head(toB[l]).client])
         ELSE toD

\* on_d2cs_accountloginreq changes nothing in bnetd.
on_d2cs_accountloginreq(l) ==
  /\ Asked(l, "ACCOUNTLOGINREQ")
  /\ Reply(l, "ACCOUNTLOGINREPLY", sess[Head(toB[l]).session].up)
  /\ UNCHANGED loginVars

\* on_d2cs_charloginreq: the player must be there and have joined the realm.
on_d2cs_charloginreq(l) ==
  LET s == Head(toB[l]).session
      ok == sess[s].up /\ sess[s].realm
  IN  /\ Asked(l, "CHARLOGINREQ")
      /\ Reply(l, "CHARLOGINREPLY", ok)
      /\ sess' = IF ok /\ bstate[l] = "loggedin" THEN [sess EXCEPT ![s].charname = Head(toB[l]).arg]
                 ELSE sess
      /\ UNCHANGED <<multilogin, meets, cl, dead, chars, sqlist, sqlist_seqno>>

\* _client_realmjoinreq109: the player picks the realm.
_client_realmjoinreq109(s) ==
  /\ sess[s].up /\ ~sess[s].realm /\ bound.requests > 0
  /\ sess' = [sess EXCEPT ![s].realm = TRUE]
  /\ UNCHANGED <<linkVars, multilogin, meets, cl, dead, chars, sqlist, sqlist_seqno>>

\* The player's bnetd connection is destroyed.
PlayerLeaves(s) ==
  /\ sess[s].up /\ bound.requests > 0 /\ Fault
  /\ sess' = [sess EXCEPT ![s] = [up |-> FALSE, realm |-> FALSE, charname |-> NULL]]
  /\ UNCHANGED <<netVars, multilogin, meets, cl, dead, chars, sqlist, sqlist_seqno>>

-----------------------------------------------------------------------------
\* d2cs is started again: session and sequence numbers start from one.
Restart ==
  /\ d2cs_restart
  /\ cl' = [c \in Client |-> NoClient]
  /\ dead' = {} /\ sqlist' = {} /\ sqlist_seqno' = 0
  /\ UNCHANGED <<multilogin, meets, chars, sess>>

ClientRequest(c) ==
  \/ \E s \in Session : on_client_loginreq(c, s)
  \/ \E x \in Char : \/ on_client_charloginreq(c, x)
                     \/ on_client_createcharreq(c, x)
                     \/ on_client_deletecharreq(c, x)

LoginProgress(l) ==
  \/ on_bnetd_accountloginreply(l) \/ on_bnetd_charloginreply(l)
  \/ on_d2cs_accountloginreq(l) \/ on_d2cs_charloginreq(l)

Next ==
  \/ LinkNext /\ UNCHANGED loginVars
  \/ \E l \in Links : LoginProgress(l)
  \/ \E c \in Client : \/ d2cs_conn_create(c) \/ ClientLeaves(c) \/ connlist_check_timeout(c)
                       \/ conn_handle_read_fails(c) \/ client_reap(c) \/ ClientRequest(c)
  \/ \E s \in Session : _client_realmjoinreq109(s) \/ PlayerLeaves(s)
  \/ sqlist_check_timeout
  \/ Restart

Spec == Init /\ [][Next]_vars

\* Both servers run their loops: a link that can go on does, packets that
\* arrived are handled, a dead socket is read and a dead connection reaped.
FairSpec ==
  /\ Spec
  /\ \A l \in UNION {1..b.links : b \in Bound} :
       WF_vars(l \in Links /\ ((LinkProgress(l) /\ UNCHANGED loginVars) \/ LoginProgress(l)))
  /\ \A c \in Client : /\ WF_vars(conn_handle_read_fails(c))
                       /\ WF_vars(client_reap(c))

-----------------------------------------------------------------------------
(* Properties                                                              *)

\* An answer under way and the request d2cs would match it with are about the
\* same thing: sequence numbers are not confused when requests expire, links
\* are replaced or d2cs restarts and counts from one (sqlist_find_sq).
AnswersMatch ==
  \A l \in Links : dstate[l] = "authed" =>
    \A i \in DOMAIN toD[l] : \A q \in sqlist :
      toD[l][i].type \in {"ACCOUNTLOGINREPLY", "CHARLOGINREPLY"} /\ toD[l][i].seqno = q.seqno
        => toD[l][i].client = q.client /\ toD[l][i].arg = q.arg

\* With check_multilogin, no two connections have the same character: what the
\* d2cs README says of the option.  The check is made at the request and again
\* when bnetd's answer arrives, but its lookup walks the list by the wrong hash.
OneLogin ==
  multilogin => \A c, d \in Client :
    c # d /\ cl[c].charname # NULL => cl[c].charname # cl[d].charname

\* When the answer to a connection's latest character request names its
\* character, the summary kept since the request is that character's
\* (conn_set_charinfo at the request, d2cs_conn_set_charname at the answer).
SummaryOfChar ==
  [][\A c \in Client :
       /\ cl'[c].charname # cl[c].charname /\ cl'[c].charname # NULL
       /\ ~\E q \in sqlist' : q.client = c /\ q.type = "char"
       => cl'[c].charinfo = cl'[c].charname]_vars

\* connlist_dead holds exactly the connections to be destroyed, also after a
\* late answer has revived one: nobody in use is freed, nobody is forgotten.
DeadExact == dead = {c \in Client : cl[c].state = "destroy"}

\* A client that left is cleaned up, although a late answer of bnetd may take
\* its connection out of the destroy state.
LeaversReaped == \A c \in Client : [](Exists(c) /\ ~cl[c].peer => <>~Exists(c))

=============================================================================
