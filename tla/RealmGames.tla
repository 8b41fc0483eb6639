----------------------------- MODULE RealmGames -----------------------------
(***************************************************************************)
(* Game creation in the Diablo II realm server (src/src/d2cs).             *)
(*                                                                         *)
(* d2cs keeps the game list (game.cpp), the registry of game servers       *)
(* (d2gs.cpp), the queue of clients waiting for a free game slot           *)
(* (gamequeue.cpp) and the requests it has forwarded and not yet seen      *)
(* answered (serverqueue.cpp).  Client packets are handled in              *)
(* handle_d2cs.cpp, game server packets in handle_d2gs.cpp, and both kinds *)
(* of connection die in connection.cpp.  The process is single-threaded:   *)
(* one action below is one packet handler, timer or reaper pass.           *)
(*                                                                         *)
(* gqlist_check_creategame is a loop that runs the create-game handler for *)
(* the head of the queue, called at the end of the handlers that free a    *)
(* slot.  Its remaining iteration count is the variable drain; while it is *)
(* positive no other action is enabled, so the loop is atomic, and each    *)
(* iteration is one step.                                                  *)
(*                                                                         *)
(* The game servers (d2gs) are not part of this repository.  They are      *)
(* modelled by the requests they have not answered yet (reqs) and the ids  *)
(* of the games they run (hosted).                                         *)
(***************************************************************************)
EXTENDS Integers, FiniteSets

CONSTANTS
  Client,        \* client sessions; a session number is never reused
  GS,            \* ids of game servers, in the order d2gs_create numbers them
  Link,          \* sessions of game server connections
  Name,          \* game names
  GsGameId,      \* ids a game server gives its games
  MaxGames,      \* values a game server may announce as its maxgame
  MaxRequests,   \* bound on forwarded and queued requests (sqlist_seqno)
  IdleTimeout,   \* is max_game_idletime non-zero?
  Multilogin,    \* is check_multilogin set?
  NULL

ASSUME ConstAssumption ==
  /\ GS \subseteq Nat \ {0}
  /\ MaxGames \subseteq Nat
  /\ MaxRequests \in Nat
  /\ IdleTimeout \in BOOLEAN
  /\ Multilogin \in BOOLEAN
  /\ NULL \notin Link /\ NULL \notin GsGameId

VARIABLES
  conn,      \* client connection: state, and gamequeue (seqno of a t_gq, 0 is NULL)
  link,      \* game server connection: state and d2gs_id
  gs,        \* t_d2gs: on the list?, connection, gamenum, maxgame
  game,      \* the game list: id -> t_game
  game_id,   \* static counter of game.cpp
  gqlist,    \* t_gq entries; appended, so list order is seqno order
  gq_seqno,  \* gqlist_seqno
  sqlist,    \* t_sq entries
  sq_seqno,  \* sqlist_seqno
  drain,     \* iterations left in gqlist_check_creategame
  reqs,      \* external: requests the game servers have not answered
  hosted     \* external: games each game server process runs

vars == <<conn, link, gs, game, game_id, gqlist, gq_seqno, sqlist, sq_seqno, drain,
          reqs, hosted>>

-----------------------------------------------------------------------------
(* Helpers                                                                 *)

\* The games the game list holds for server s.
OnServer(s) == {g \in DOMAIN game : game[g].d2gs = s}

\* d2cs_gamelist_find_game and gqlist_find_game.
NameTaken(nm)  == \E g \in DOMAIN game : game[g].name = nm
NameQueued(nm) == \E q \in gqlist : q.name = nm

\* A connection that is still in connlist: d2cs_conn_destroy has not run.
InTable(c) == conn[c].state \in {"char_authed", "destroy"}

\* Fault: a server is used when it is not registered.
HasRoomInactive(s) == gs[s].list = "listed" /\ gs[s].gamenum < gs[s].maxgame

\* d2gslist_choose_server: registered, announced a limit, and below it; the
\* lowest percentage in use, the first on the list among equals.
HasRoom(s) == /\ gs[s].list = "listed"
              /\ gs[s].connection # NULL
              /\ gs[s].gamenum < gs[s].maxgame
Percent(s) == (100 * gs[s].gamenum) \div gs[s].maxgame
Chosen(s)  == /\ HasRoom(s)
              /\ \A t \in GS : HasRoom(t) =>
                    \/ Percent(s) < Percent(t)
                    \/ Percent(s) = Percent(t) /\ s <= t
NoServer   == \A s \in GS : ~HasRoom(s)

\* gamelist_find_game_by_d2gs_and_id, as the set of matching games.
Found(s, did) == {g \in DOMAIN game : /\ game[g].created
                                      /\ game[g].d2gs_gameid = did
                                      /\ game[g].d2gs = s}

Positive(n) == IF n > 0 THEN n ELSE 0

Without(f, S) == [x \in DOMAIN f \ S |-> f[x]]
-----------------------------------------------------------------------------
(* State transformers shared by several handlers                           *)

\* d2cs_game_create, game_set_d2gs, d2gs_add_gamenum(1), sq_create and the
\* CREATEGAMEREQ pushed to the server's connection.
Forward(c, nm, s) ==
  /\ game_id' = game_id + 1
  /\ game' = [g \in DOMAIN game \cup {game_id + 1} |->
                IF g = game_id + 1
                THEN [name |-> nm, d2gs |-> s, created |-> FALSE,
                      d2gs_gameid |-> NULL, chars |-> {}]
                ELSE game[g]]
  /\ gs' = [gs EXCEPT ![s].gamenum = @ + 1]
  /\ sq_seqno' = sq_seqno + 1
  /\ sqlist' = sqlist \cup {[seqno |-> sq_seqno + 1, kind |-> "create",
                             client |-> c, game |-> game_id + 1]}
  /\ reqs' = reqs \cup {[seqno |-> sq_seqno + 1, kind |-> "create",
                         link |-> gs[s].connection]}

\* Fault: the slot of a destroyed game is not returned.
GameDestroyLeaks(g) ==
  /\ game' = Without(game, {g})
  /\ gs' = gs
  /\ drain' = Positive(gs[game[g].d2gs].maxgame - gs[game[g].d2gs].gamenum)

\* game_destroy: the slot is returned and gqlist_check_creategame is called
\* with the number of free slots of that server.
GameDestroy(g) ==
  LET s == game[g].d2gs IN
  /\ game' = Without(game, {g})
  /\ gs' = [gs EXCEPT ![s].gamenum = @ - 1]
  /\ drain' = Positive(gs[s].maxgame - (gs[s].gamenum - 1))

\* gs after d2gs_deactive ran for every server of S.  maxgame is zeroed before
\* the games go, so the gqlist_check_creategame of each game_destroy gets a
\* number that is not positive: no queue entry is served.
Deactivated(S) ==
  [s \in GS |-> IF s \in S
                THEN [gs[s] EXCEPT !.connection = NULL, !.gamenum = 0, !.maxgame = 0]
                ELSE gs[s]]

GamesOf(S) == {g \in DOMAIN game : game[g].d2gs \in S}

\* Fault: a server that registers again keeps the games of its former process.
NotReplaced(s) == {}

\* d2gs_active deactivates a registration that is still in force.
Replaced(s) == IF gs[s].connection # NULL THEN GamesOf({s}) ELSE {}

\* Fault: closing a connection does not deactivate the server behind it.
NoServersOf(ks) == {}

\* The servers d2cs_conn_destroy deactivates when the connections ks die: a
\* connection that is not the registered one deactivates nothing.
ServersOf(ks) == {s \in GS : gs[s].list = "listed" /\ gs[s].connection \in ks}

-----------------------------------------------------------------------------
(* Client packets                                                          *)

\* How on_client_creategamereq judges a request: the character is fit for
\* the game, too low for the difficulty, or a dead hardcore character.
Verdict == {"fit", "low", "dead"}

\* The branches of on_client_creategamereq, in their order.  queued says
\* whether the connection already holds a queue entry.
\* Fault (first definition): names are not checked again for a queued request.
NameClashOnce(nm, queued) == ~queued /\ (NameTaken(nm) \/ NameQueued(nm))
NameClash(nm, queued) == NameTaken(nm) \/ (~queued /\ NameQueued(nm))
Refused(nm, v, queued) ==
  v # "low" /\ (NameClash(nm, queued) \/ (~NoServer /\ v = "dead"))
Starved(nm, v, queued) == v # "low" /\ ~NameClash(nm, queued) /\ NoServer
Accepted(nm, v, queued, s) == v = "fit" /\ ~NameClash(nm, queued) /\ Chosen(s)

\* A client packet is only handled in the state its table entry asks for.
Asks(c) == drain = 0 /\ conn[c].state = "char_authed"
Queued(c) == conn[c].gamequeue # 0

\* Bounds the model: every queued request keeps a request number in reserve.
MayAsk == sq_seqno + Cardinality(gqlist) < MaxRequests

\* The request is dropped (difficulty) or answered with an error at once; the
\* tables do not change.
CreateReqRefused(c, nm, v) ==
  /\ Asks(c)
  /\ v = "low" \/ Refused(nm, v, Queued(c))
  /\ UNCHANGED <<conn, link, gs, game, game_id, gqlist, gq_seqno, sqlist, sq_seqno,
                 drain, reqs, hosted>>

\* No server has room: the client is queued and told to wait.
CreateReqQueued(c, nm, v) ==
  /\ Asks(c) /\ MayAsk /\ gq_seqno < MaxRequests
  /\ Starved(nm, v, FALSE)
  /\ ~Queued(c)
  /\ gq_seqno' = gq_seqno + 1
  /\ gqlist' = gqlist \cup {[seqno |-> gq_seqno + 1, client |-> c, name |-> nm]}
  /\ conn' = [conn EXCEPT ![c].gamequeue = gq_seqno + 1]
  /\ UNCHANGED <<link, gs, game, game_id, sqlist, sq_seqno, drain, reqs, hosted>>

\* No server has room and the client was queued already: its entry is
\* destroyed and nothing is sent.
CreateReqDequeued(c, nm, v) ==
  /\ Asks(c)
  /\ Starved(nm, v, TRUE)
  /\ Queued(c)
  /\ gqlist' = {q \in gqlist : q.seqno # conn[c].gamequeue}
  /\ conn' = [conn EXCEPT ![c].gamequeue = 0]
  /\ UNCHANGED <<link, gs, game, game_id, gq_seqno, sqlist, sq_seqno, drain,
                 reqs, hosted>>

CreateReqForwarded(c, nm, s) ==
  /\ Asks(c) /\ MayAsk
  /\ Accepted(nm, "fit", Queued(c), s)
  /\ Forward(c, nm, s)
  /\ UNCHANGED <<conn, link, gqlist, gq_seqno, drain, hosted>>

on_client_creategamereq(c) ==
  \/ \E nm \in Name, v \in Verdict : \/ CreateReqRefused(c, nm, v)
                                    \/ CreateReqQueued(c, nm, v)
                                    \/ CreateReqDequeued(c, nm, v)
  \/ \E nm \in Name, s \in GS : CreateReqForwarded(c, nm, s)

\* Fault: the connection keeps its pointer to the destroyed entry.
CancelKeepsPointer(c) ==
  /\ Asks(c) /\ Queued(c)
  /\ gqlist' = {q \in gqlist : q.seqno # conn[c].gamequeue}
  /\ UNCHANGED <<conn, link, gs, game, game_id, gq_seqno, sqlist, sq_seqno, drain,
                 reqs, hosted>>

on_client_cancelcreategame(c) ==
  /\ Asks(c) /\ Queued(c)
  /\ gqlist' = {q \in gqlist : q.seqno # conn[c].gamequeue}
  /\ conn' = [conn EXCEPT ![c].gamequeue = 0]
  /\ UNCHANGED <<link, gs, game, game_id, gq_seqno, sqlist, sq_seqno, drain, reqs, hosted>>

\* A character that is listed in some game may not join again: the handler
\* fails and its connection is closed.  Otherwise a game that was confirmed
\* by its server and suits the character is asked for.
on_client_joingamereq(c) ==
  /\ Asks(c)
  /\ \/ /\ Multilogin /\ \E g \in DOMAIN game : c \in game[g].chars
        /\ conn' = [conn EXCEPT ![c].state = "destroy"]
        /\ UNCHANGED <<sqlist, sq_seqno, reqs>>
     \/ /\ MayAsk
        /\ ~(Multilogin /\ \E g \in DOMAIN game : c \in game[g].chars)
        /\ \E g \in DOMAIN game :
             /\ game[g].created
             /\ sq_seqno' = sq_seqno + 1
             /\ sqlist' = sqlist \cup {[seqno |-> sq_seqno + 1, kind |-> "join",
                                        client |-> c, game |-> g]}
             /\ reqs' = reqs \cup {[seqno |-> sq_seqno + 1, kind |-> "join",
                                    link |-> gs[game[g].d2gs].connection]}
        /\ UNCHANGED conn
  /\ UNCHANGED <<link, gs, game, game_id, gqlist, gq_seqno, drain, hosted>>

-----------------------------------------------------------------------------
(* gqlist_check_creategame                                                 *)

Head(q) == q \in gqlist /\ \A p \in gqlist : q.seqno <= p.seqno

\* The create-game handler runs for the head of the queue whatever the state
\* of its connection; then the entry and the pointer to it are dropped.
\* Failed attempts count as iterations.
DrainForwarded(q, s) ==
  /\ drain > 0 /\ Head(q)
  /\ InTable(q.client) /\ Queued(q.client)
  /\ Accepted(q.name, "fit", TRUE, s)
  /\ Forward(q.client, q.name, s)
  /\ gqlist' = gqlist \ {q}
  /\ conn' = [conn EXCEPT ![q.client].gamequeue = 0]
  /\ drain' = drain - 1
  /\ UNCHANGED <<link, gq_seqno, hosted>>

\* No game comes of the entry.  An entry whose client is gone, or holds no
\* queue pointer, is dropped without counting.  An entry the handler itself
\* destroyed is no longer on the list: the traversal ends there.
DrainFailed(q, v) ==
  LET linked == InTable(q.client) /\ Queued(q.client) IN
  /\ drain > 0 /\ Head(q)
  /\ linked => v = "low" \/ Refused(q.name, v, TRUE) \/ Starved(q.name, v, TRUE)
  /\ gqlist' = gqlist \ {q}
  /\ conn' = IF linked THEN [conn EXCEPT ![q.client].gamequeue = 0] ELSE conn
  /\ drain' = IF ~linked THEN drain
              ELSE IF Starved(q.name, v, TRUE) THEN 0
              ELSE drain - 1
  /\ UNCHANGED <<link, gs, game, game_id, gq_seqno, sqlist, sq_seqno, reqs, hosted>>

DrainEnds ==
  /\ drain > 0 /\ gqlist = {}
  /\ drain' = 0
  /\ UNCHANGED <<conn, link, gs, game, game_id, gqlist, gq_seqno, sqlist, sq_seqno,
                 reqs, hosted>>

gqlist_check_creategame ==
  \/ \E q \in gqlist, s \in GS : DrainForwarded(q, s)
  \/ \E q \in gqlist, v \in Verdict : DrainFailed(q, v)
  \/ DrainEnds

-----------------------------------------------------------------------------
(* Game server packets.  A packet is handled on an authenticated connection *)
(* k and acts on the server the connection was opened for, whether or not  *)
(* that server is still registered through k.                              *)

Serves(k) == drain = 0 /\ link[k].state = "authed"

\* on_d2gs_initconn for an address on the list.
on_d2gs_initconn(k, s) ==
  /\ drain = 0 /\ link[k].state = "out" /\ gs[s].list = "listed"
  /\ link' = [link EXCEPT ![k] = [state |-> "connected", gs |-> s]]
  /\ UNCHANGED <<conn, gs, game, game_id, gqlist, gq_seqno, sqlist, sq_seqno, drain,
                 reqs, hosted>>

\* on_d2gs_authreply with an accepted version and checksum, and d2gs_active.
on_d2gs_authreply(k) ==
  LET s == link[k].gs IN
  /\ drain = 0 /\ link[k].state = "connected" /\ gs[s].list = "listed"
  /\ link' = [link EXCEPT ![k].state = "authed"]
  /\ game' = Without(game, Replaced(s))
  /\ gs' = [gs EXCEPT ![s].connection = k, ![s].gamenum = 0, ![s].maxgame = 0]
  /\ UNCHANGED <<conn, game_id, gqlist, gq_seqno, sqlist, sq_seqno, drain,
                 reqs, hosted>>

on_d2gs_setgsinfo(k, m) ==
  LET s == link[k].gs IN
  /\ Serves(k) /\ gs[s].list = "listed"
  /\ gs' = [gs EXCEPT ![s].maxgame = m]
  /\ drain' = Positive(m - gs[s].gamenum)
  /\ UNCHANGED <<conn, link, game, game_id, gqlist, gq_seqno, sqlist, sq_seqno,
                 reqs, hosted>>

\* The request with this number, if it has not expired, with the client and
\* the game it names if they still exist.
Pending(r) == {q \in sqlist : q.seqno = r.seqno}
Alive(q) == InTable(q.client) /\ q.game \in DOMAIN game

\* Fault: an answered request is kept.
KeptRequests(r) == sqlist

\* sq_destroy at the end of, and on every early return from, a reply handler.
OtherRequests(r) == sqlist \ Pending(r)

\* on_d2gs_creategamereply.  The server runs the game it reports even when
\* d2cs no longer knows the request.
CreateReplySucceed(r, did) ==
  /\ r \in reqs /\ r.kind = "create" /\ Serves(r.link)
  /\ did \notin hosted[r.link]
  /\ reqs' = reqs \ {r}
  /\ hosted' = [hosted EXCEPT ![r.link] = @ \cup {did}]
  /\ sqlist' = OtherRequests(r)
  /\ game' = [g \in DOMAIN game |->
                IF \E q \in Pending(r) : Alive(q) /\ q.game = g
                THEN [game[g] EXCEPT !.created = TRUE, !.d2gs_gameid = did]
                ELSE game[g]]
  /\ UNCHANGED <<conn, link, gs, game_id, gqlist, gq_seqno, sq_seqno, drain>>

CreateReplyFailed(r) ==
  /\ r \in reqs /\ r.kind = "create" /\ Serves(r.link)
  /\ reqs' = reqs \ {r}
  /\ sqlist' = OtherRequests(r)
  /\ \/ \E q \in Pending(r) : /\ Alive(q)
                             /\ GameDestroy(q.game)
     \/ (\A q \in Pending(r) : ~Alive(q)) /\ UNCHANGED <<game, gs, drain>>
  /\ UNCHANGED <<conn, link, game_id, gqlist, gq_seqno, sq_seqno, hosted>>

\* on_d2gs_joingamereply: whatever the result, the request is over; the
\* client is sent the address and token of the game, or an error.
JoinReply(r) ==
  /\ r \in reqs /\ r.kind = "join" /\ Serves(r.link)
  /\ reqs' = reqs \ {r}
  /\ sqlist' = OtherRequests(r)
  /\ UNCHANGED <<conn, link, gs, game, game_id, gqlist, gq_seqno, sq_seqno, drain,
                 hosted>>

\* on_d2gs_updategameinfo: ENTER and UPDATE add the character, LEAVE removes it.
on_d2gs_updategameinfo(k, did, c) ==
  /\ Serves(k) /\ did \in hosted[k]
  /\ \E g \in Found(link[k].gs, did) :
       \/ game' = [game EXCEPT ![g].chars = @ \cup {c}]
       \/ c \in game[g].chars /\ game' = [game EXCEPT ![g].chars = @ \ {c}]
  /\ UNCHANGED <<conn, link, gs, game_id, gqlist, gq_seqno, sqlist, sq_seqno, drain,
                 reqs, hosted>>

\* Fault: a game that still has characters listed stays on the list.
ClosegameWhenEmpty(k, did) ==
  /\ Serves(k) /\ did \in hosted[k]
  /\ hosted' = [hosted EXCEPT ![k] = @ \ {did}]
  /\ \/ \E g \in Found(link[k].gs, did) : game[g].chars = {} /\ GameDestroy(g)
     \/ /\ \A g \in Found(link[k].gs, did) : game[g].chars # {}
        /\ UNCHANGED <<game, gs, drain>>
  /\ UNCHANGED <<conn, link, game_id, gqlist, gq_seqno, sqlist, sq_seqno, reqs>>

\* on_d2gs_closegame: the game server ended the game.
on_d2gs_closegame(k, did) ==
  /\ Serves(k) /\ did \in hosted[k]
  /\ hosted' = [hosted EXCEPT ![k] = @ \ {did}]
  /\ \/ \E g \in Found(link[k].gs, did) : GameDestroy(g)
     \/ Found(link[k].gs, did) = {} /\ UNCHANGED <<game, gs, drain>>
  /\ UNCHANGED <<conn, link, game_id, gqlist, gq_seqno, sqlist, sq_seqno, reqs>>

-----------------------------------------------------------------------------
(* Timers, signals and the death of connections                            *)

\* sqlist_check_timeout: requests expire oldest first; only the request goes.
sqlist_check_timeout ==
  /\ drain = 0
  /\ \E q \in sqlist : /\ \A p \in sqlist : q.seqno <= p.seqno
                      /\ sqlist' = sqlist \ {q}
  /\ UNCHANGED <<conn, link, gs, game, game_id, gqlist, gq_seqno, sq_seqno, drain,
                 reqs, hosted>>

\* Fault: only games their server confirmed are purged.
VoidgameConfirmed(g) ==
  /\ drain = 0 /\ IdleTimeout
  /\ g \in DOMAIN game /\ game[g].chars = {} /\ game[g].created
  /\ GameDestroy(g)
  /\ UNCHANGED <<conn, link, game_id, gqlist, gq_seqno, sqlist, sq_seqno, reqs, hosted>>

\* d2cs_gamelist_check_voidgame for one empty game whose idle time is over.
d2cs_gamelist_check_voidgame(g) ==
  /\ drain = 0 /\ IdleTimeout
  /\ g \in DOMAIN game /\ game[g].chars = {}
  /\ GameDestroy(g)
  /\ UNCHANGED <<conn, link, game_id, gqlist, gq_seqno, sqlist, sq_seqno, reqs, hosted>>

\* d2gslist_reload: servers no longer configured are destroyed with their
\* games and their connection is marked; configured ones are created.
d2gslist_reload(valid) ==
  LET out == {s \in GS \ valid : gs[s].list = "listed"} IN
  /\ drain = 0
  /\ gs' = [s \in GS |->
       IF s \in out THEN [Deactivated(out)[s] EXCEPT !.list = "freed"]
       ELSE IF s \in valid /\ gs[s].list = "new" THEN [gs[s] EXCEPT !.list = "listed"]
       ELSE gs[s]]
  /\ game' = Without(game, GamesOf(out))
  /\ link' = [k \in Link |->
       IF \E s \in out : gs[s].connection = k
       THEN [link[k] EXCEPT !.state = "destroy"] ELSE link[k]]
  /\ UNCHANGED <<conn, game_id, gqlist, gq_seqno, sqlist, sq_seqno, drain,
                 reqs, hosted>>

\* A session that reached conn_state_char_authed (the login protocol).
ClientEnters(c) ==
  /\ drain = 0 /\ conn[c].state = "out"
  /\ conn' = [conn EXCEPT ![c].state = "char_authed"]
  /\ UNCHANGED <<link, gs, game, game_id, gqlist, gq_seqno, sqlist, sq_seqno, drain,
                 reqs, hosted>>

\* Socket error, bad packet or connlist_check_timeout: marked for the reaper.
ClientDies(c) ==
  /\ drain = 0 /\ conn[c].state = "char_authed"
  /\ conn' = [conn EXCEPT ![c].state = "destroy"]
  /\ UNCHANGED <<link, gs, game, game_id, gqlist, gq_seqno, sqlist, sq_seqno, drain,
                 reqs, hosted>>
LinkDies(k) ==
  /\ drain = 0 /\ link[k].state \in {"connected", "authed"}
  /\ link' = [link EXCEPT ![k].state = "destroy"]
  /\ UNCHANGED <<conn, gs, game, game_id, gqlist, gq_seqno, sqlist, sq_seqno, drain,
                 reqs, hosted>>

\* d2cs_connlist_reap: d2cs_conn_destroy for every marked connection.
d2cs_connlist_reap ==
  LET cs == {c \in Client : conn[c].state = "destroy"}
      ks == {k \in Link : link[k].state = "destroy"}
      down == ServersOf(ks)
  IN
  /\ drain = 0 /\ (cs # {} \/ ks # {})
  /\ conn' = [c \in Client |-> IF c \in cs THEN [state |-> "gone", gamequeue |-> 0] ELSE conn[c]]
  /\ gqlist' = {q \in gqlist : \A c \in cs : conn[c].gamequeue # q.seqno}
  /\ link' = [k \in Link |-> IF k \in ks THEN [link[k] EXCEPT !.state = "gone"] ELSE link[k]]
  /\ gs' = Deactivated(down)
  /\ game' = Without(game, GamesOf(down))
  /\ reqs' = {r \in reqs : r.link \notin ks}
  /\ hosted' = [k \in Link |-> IF k \in ks THEN {} ELSE hosted[k]]
  /\ UNCHANGED <<game_id, gq_seqno, sqlist, sq_seqno, drain>>

-----------------------------------------------------------------------------
Init ==
  /\ conn = [c \in Client |-> [state |-> "out", gamequeue |-> 0]]
  /\ link = [k \in Link |-> [state |-> "out", gs |-> 0]]
  /\ \E valid \in SUBSET GS :
       gs = [s \in GS |-> [list |-> IF s \in valid THEN "listed" ELSE "new",
                          connection |-> NULL, gamenum |-> 0, maxgame |-> 0]]
  /\ game = [g \in {} |-> NULL]
  /\ game_id = 0
  /\ gqlist = {} /\ gq_seqno = 0
  /\ sqlist = {} /\ sq_seqno = 0
  /\ drain = 0
  /\ reqs = {} /\ hosted = [k \in Link |-> {}]

ClientStep(c) == \/ on_client_creategamereq(c)
                 \/ on_client_cancelcreategame(c)
                 \/ on_client_joingamereq(c)
                 \/ ClientEnters(c)
                 \/ ClientDies(c)

GsReply(r) == \/ \E did \in GsGameId : CreateReplySucceed(r, did)
              \/ CreateReplyFailed(r)
              \/ JoinReply(r)

LinkStep(k) == \/ \E s \in GS : on_d2gs_initconn(k, s)
               \/ on_d2gs_authreply(k)
               \/ \E m \in MaxGames : on_d2gs_setgsinfo(k, m)
               \/ \E did \in GsGameId : on_d2gs_closegame(k, did)
               \/ \E did \in GsGameId, c \in Client : on_d2gs_updategameinfo(k, did, c)
               \/ LinkDies(k)

Next ==
  \/ gqlist_check_creategame
  \/ \E c \in Client : ClientStep(c)
  \/ \E r \in reqs : GsReply(r)
  \/ \E k \in Link : LinkStep(k)
  \/ sqlist_check_timeout
  \/ \E g \in DOMAIN game : d2cs_gamelist_check_voidgame(g)
  \/ \E valid \in SUBSET GS : d2gslist_reload(valid)
  \/ d2cs_connlist_reap

Spec == Init /\ [][Next]_vars

\* The timers of server_handle_timed_event and the reaper run in every pass of
\* server_loop, and a started gqlist_check_creategame runs to its end.  Timers
\* get strong fairness because the steps of gqlist_check_creategame, which the
\* code runs within one handler, disable them in between.
TimerFairness ==
  /\ WF_vars(gqlist_check_creategame)
  /\ WF_vars(d2cs_connlist_reap)
  /\ SF_vars(sqlist_check_timeout)
  /\ \A g \in 1..MaxRequests :
       SF_vars(g \in DOMAIN game /\ d2cs_gamelist_check_voidgame(g))

\* External: a game server answers every request while it is connected.
AnswerFairness ==
  \A n \in 1..MaxRequests : SF_vars(\E r \in reqs : r.seqno = n /\ GsReply(r))

FairSpec == Spec /\ TimerFairness
AnswerSpec == FairSpec /\ AnswerFairness
-----------------------------------------------------------------------------
(* Properties                                                              *)

ConnRecord == [state : {"out", "char_authed", "destroy", "gone"}, gamequeue : Nat]
LinkRecord == [state : {"out", "connected", "authed", "destroy", "gone"}, gs : GS \cup {0}]
GsRecord == [list : {"new", "listed", "freed"}, connection : Link \cup {NULL},
             gamenum : Nat, maxgame : Nat]
GameRecord == [name : Name, d2gs : GS, created : BOOLEAN,
               d2gs_gameid : GsGameId \cup {NULL}, chars : SUBSET Client]

\* Types of the realm server's tables; gamenum and maxgame are unsigned in
\* the code, so gamenum never going below zero is part of it.
TypeOK ==
  /\ conn \in [Client -> ConnRecord]
  /\ link \in [Link -> LinkRecord]
  /\ gs \in [GS -> GsRecord]
  /\ DOMAIN game \subseteq 1..game_id
  /\ \A g \in DOMAIN game : game[g] \in GameRecord
  /\ game = [g \in DOMAIN game |-> game[g]]
  /\ game_id \in Nat /\ gq_seqno \in Nat /\ sq_seqno \in Nat /\ drain \in Nat
  /\ \A q \in gqlist : q \in [seqno : 1..gq_seqno, client : Client, name : Name]
  /\ \A q \in sqlist : q \in [seqno : 1..sq_seqno, kind : {"create", "join"},
                              client : Client, game : 1..game_id]
  /\ \A r \in reqs : r \in [seqno : 1..sq_seqno, kind : {"create", "join"}, link : Link]
  /\ hosted \in [Link -> SUBSET GsGameId]

\* The slot counter of a game server is the number of games the list holds
\* for it, through every order of creation, refusal, expiry, closing, server
\* loss and re-registration: d2gs_deactive logs "deactived but still with
\* games left" when it is not, and choose_server and the queue rely on it.
GamenumExact == \A s \in GS : gs[s].gamenum = Cardinality(OnServer(s))

\* No game outlives the registration of its server: game->d2gs never points
\* to a server that is inactive (requests would be pushed to a NULL
\* connection) or freed by d2gslist_reload.
GamesOnLiveServer ==
  \A g \in DOMAIN game :
    LET s == game[g].d2gs IN gs[s].list = "listed" /\ gs[s].connection # NULL

\* A registered server's connection is in the connection table and belongs
\* to that server, so a pointer in the registry never dangles.
RegistryLinked ==
  \A s \in GS : gs[s].connection # NULL =>
    /\ gs[s].list = "listed"
    /\ link[gs[s].connection].gs = s
    /\ link[gs[s].connection].state \in {"authed", "destroy"}

\* The gamequeue pointer of a connection and the queue entries mirror each
\* other: every entry belongs to a client in the table that points to it, and
\* no client points to an entry that was destroyed.
QueueLinked ==
  /\ \A q \in gqlist : InTable(q.client) /\ conn[q.client].gamequeue = q.seqno
  /\ \A c \in Client : Queued(c) =>
       \E q \in gqlist : q.client = c /\ q.seqno = conn[c].gamequeue

\* A reply to a create request confirms or destroys a game that still waits
\* for it: no game is confirmed twice or destroyed after it was confirmed.
CreatePendingOnce ==
  \A q \in sqlist : q.kind = "create" =>
    /\ q.game \in DOMAIN game => ~game[q.game].created
    /\ \A p \in sqlist : p.kind = "create" /\ p.game = q.game => p = q

\* The handlers of create and join replies never compare the connection the
\* reply came on with the server of the game.  Still, an unanswered request
\* for a game on the list is always one made to the connection the game's
\* server is registered with.
RepliesFromOwner ==
  \A r \in reqs, q \in sqlist :
    (q.seqno = r.seqno /\ q.game \in DOMAIN game)
      => gs[game[q.game].d2gs].connection = r.link /\ r.kind = q.kind

\* A server's game id names at most one confirmed game, so that a lookup by
\* server and id is never ambiguous, although a restarted server numbers its
\* games anew.  Whose game it is depends on the link the packet came on: an old
\* link of the server that is still authed acts on the games of the new one.
GameIdsUnique ==
  \A g, h \in DOMAIN game :
    (/\ game[g].created /\ game[h].created
     /\ game[g].d2gs = game[h].d2gs
     /\ game[g].d2gs_gameid = game[h].d2gs_gameid) => g = h

\* Game names are unique, also when the queue creates games for requests
\* whose names were checked long ago.
NamesUnique ==
  \A g, h \in DOMAIN game : game[g].name = game[h].name => g = h

\* A game that waits for its server's confirmation is confirmed or removed in
\* the end, whatever becomes of the request, the client and the answer: a
\* pending game holds its name and a slot.  Holds when max_game_idletime is
\* set; its default is 0.
PendingResolves ==
  \A g \in 1..MaxRequests :
    (g \in DOMAIN game /\ ~game[g].created) ~> (g \notin DOMAIN game \/ game[g].created)

=============================================================================
