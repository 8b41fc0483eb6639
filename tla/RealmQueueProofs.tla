-------------------------- MODULE RealmQueueProofs --------------------------
(***************************************************************************)
(* Proofs about the queue of waiting clients, the requests forwarded to    *)
(* the game servers and the games they create: pointers never dangle, a    *)
(* reply acts on the game it was asked for, names and ids stay unique.     *)
(* They rest on the invariant of RealmGamesProofs.                         *)
(***************************************************************************)
EXTENDS RealmGamesProofs

USE DEF ConnRecord, LinkRecord, GsRecord

-----------------------------------------------------------------------------
(* The create-game queue                                                   *)

\* Two entries of the queue never carry the same number, so gq_destroy of a
\* connection's pointer removes that entry alone.
QueueSeqs == \A p, q \in gqlist : p.seqno = q.seqno => p = q

QueueInv == QueueLinked /\ QueueSeqs

\* Destroying a client's entry together with its pointer.
LEMMA DequeueQueue ==
  ASSUME TypeOK, QueueInv, NEW q \in gqlist,
         gqlist' = gqlist \ {q},
         conn' = [conn EXCEPT ![q.client].gamequeue = 0]
  PROVE  QueueInv'
<1>0. /\ \A p \in gqlist : p.client \in Client /\ p.seqno \in Nat \ {0}
      /\ conn \in [Client -> ConnRecord]
  BY DEF TypeOK
<1>1. \A p \in gqlist' : p.client # q.client
  BY <1>0 DEF QueueInv, QueueLinked, QueueSeqs
<1>2. /\ \A c \in Client : conn'[c].state = conn[c].state
      /\ \A c \in Client \ {q.client} : conn'[c] = conn[c]
      /\ conn'[q.client].gamequeue = 0
  BY <1>0
<1>3. QueueSeqs'
  BY DEF QueueInv, QueueSeqs
<1>4. \A p \in gqlist' : InTable(p.client)' /\ conn'[p.client].gamequeue = p.seqno
  BY <1>0, <1>1, <1>2 DEF QueueInv, QueueLinked, InTable
<1>5. ASSUME NEW c \in Client, Queued(c)'
      PROVE  \E p \in gqlist' : p.client = c /\ p.seqno = conn'[c].gamequeue
  <2>1. c # q.client /\ conn'[c] = conn[c] /\ Queued(c)
    BY <1>2, <1>5 DEF Queued
  <2>2. PICK p \in gqlist : p.client = c /\ p.seqno = conn[c].gamequeue
    BY <2>1 DEF QueueInv, QueueLinked
  <2> QED
    BY <2>1, <2>2
<1> QED
  BY <1>3, <1>4, <1>5 DEF QueueInv, QueueLinked

\* Steps that leave the queue and the pointers into it alone.
LEMMA SameQueue ==
  ASSUME TypeOK, QueueInv, UNCHANGED gqlist,
         \A c \in Client : /\ conn'[c].gamequeue = conn[c].gamequeue
                           /\ InTable(c) => InTable(c)'
  PROVE  QueueInv'
<1>0. \A p \in gqlist : p.client \in Client
  BY DEF TypeOK
<1> QED
  BY <1>0 DEF QueueInv, QueueLinked, QueueSeqs, Queued

\* on_client_creategamereq queues a client that has no entry yet.
LEMMA EnqueueQueue ==
  ASSUME TypeOK, QueueInv, NEW c \in Client, NEW nm \in Name, NEW v \in Verdict,
         CreateReqQueued(c, nm, v)
  PROVE  QueueInv'
<1> DEFINE new == [seqno |-> gq_seqno + 1, client |-> c, name |-> nm]
<1>0. /\ \A p \in gqlist : p.client \in Client /\ p.seqno \in 1..gq_seqno
      /\ conn \in [Client -> ConnRecord] /\ gq_seqno \in Nat
  BY DEF TypeOK
<1>1. /\ gqlist' = gqlist \cup {new}
      /\ conn' = [conn EXCEPT ![c].gamequeue = gq_seqno + 1]
      /\ conn[c].gamequeue = 0 /\ conn[c].state = "char_authed"
  BY DEF CreateReqQueued, Asks, Queued
<1>2. /\ \A d \in Client : conn'[d].state = conn[d].state
      /\ \A d \in Client \ {c} : conn'[d] = conn[d]
      /\ conn'[c].gamequeue = gq_seqno + 1
  BY <1>0, <1>1
<1>3. new.seqno = gq_seqno + 1 /\ new.client = c
  OBVIOUS
<1> HIDE DEF new
<1>4. QueueSeqs'
  BY <1>0, <1>1, <1>3 DEF QueueInv, QueueSeqs
<1>5. \A p \in gqlist : p.client # c
  BY <1>0, <1>1 DEF QueueInv, QueueLinked
<1>6. \A p \in gqlist' : InTable(p.client)' /\ conn'[p.client].gamequeue = p.seqno
  BY <1>0, <1>1, <1>2, <1>3, <1>5 DEF QueueInv, QueueLinked, InTable
<1>7. ASSUME NEW d \in Client, Queued(d)'
      PROVE  \E p \in gqlist' : p.client = d /\ p.seqno = conn'[d].gamequeue
  <2>1. CASE d = c
    BY <1>1, <1>2, <1>3, <2>1
  <2>2. CASE d # c
    <3>1. Queued(d) /\ conn'[d] = conn[d]
      BY <1>2, <1>7, <2>2 DEF Queued
    <3>2. PICK p \in gqlist : p.client = d /\ p.seqno = conn[d].gamequeue
      BY <3>1 DEF QueueInv, QueueLinked
    <3> QED
      BY <1>1, <3>1, <3>2
  <2> QED
    BY <2>1, <2>2
<1> QED
  BY <1>4, <1>6, <1>7 DEF QueueInv, QueueLinked

\* A client that destroys its own entry.
LEMMA CancelQueue ==
  ASSUME TypeOK, QueueInv, NEW c \in Client, Queued(c),
         gqlist' = {q \in gqlist : q.seqno # conn[c].gamequeue},
         conn' = [conn EXCEPT ![c].gamequeue = 0]
  PROVE  QueueInv'
<1>1. PICK q \in gqlist : q.client = c /\ q.seqno = conn[c].gamequeue
  BY DEF QueueInv, QueueLinked
<1>2. gqlist' = gqlist \ {q}
  BY <1>1 DEF QueueInv, QueueSeqs
<1> QED
  BY <1>1, <1>2, DequeueQueue

\* d2cs_connlist_reap destroys the entries of the connections it destroys.
LEMMA ReapQueue ==
  ASSUME TypeOK, QueueInv, d2cs_connlist_reap
  PROVE  QueueInv'
<1> DEFINE cs == {c \in Client : conn[c].state = "destroy"}
<1>0. \A p \in gqlist : p.client \in Client /\ p.seqno \in Nat \ {0}
  BY DEF TypeOK
<1>1. /\ conn' = [c \in Client |-> IF c \in cs THEN [state |-> "gone", gamequeue |-> 0] ELSE conn[c]]
      /\ gqlist' = {q \in gqlist : \A c \in cs : conn[c].gamequeue # q.seqno}
  BY DEF d2cs_connlist_reap
<1>2. \A q \in gqlist' : q \in gqlist /\ q.client \notin cs
  BY <1>1 DEF QueueInv, QueueLinked
<1>3. /\ \A c \in Client \ cs : conn'[c] = conn[c]
      /\ \A c \in cs : conn'[c].gamequeue = 0
      /\ cs \subseteq Client
  BY <1>1
<1> HIDE DEF cs
<1>4. QueueSeqs'
  BY <1>2 DEF QueueInv, QueueSeqs
<1>5. \A p \in gqlist' : InTable(p.client)' /\ conn'[p.client].gamequeue = p.seqno
  BY <1>0, <1>2, <1>3 DEF QueueInv, QueueLinked, InTable
<1>6. ASSUME NEW c \in Client, Queued(c)'
      PROVE  \E p \in gqlist' : p.client = c /\ p.seqno = conn'[c].gamequeue
  <2>1. c \notin cs /\ conn'[c] = conn[c] /\ Queued(c)
    BY <1>3, <1>6 DEF Queued
  <2>2. PICK p \in gqlist : p.client = c /\ p.seqno = conn[c].gamequeue
    BY <2>1 DEF QueueInv, QueueLinked
  <2>3. ASSUME NEW d \in cs PROVE conn[d].gamequeue # p.seqno
    <3> SUFFICES ASSUME conn[d].gamequeue = p.seqno PROVE FALSE
      OBVIOUS
    <3>1. d \in Client /\ Queued(d)
      BY <1>0, <1>3, <2>3 DEF Queued
    <3>2. PICK q \in gqlist : q.client = d /\ q.seqno = conn[d].gamequeue
      BY <3>1 DEF QueueInv, QueueLinked
    <3>3. q = p
      BY <3>2 DEF QueueInv, QueueSeqs
    <3> QED
      BY <2>1, <2>2, <2>3, <3>2, <3>3
  <2> QED
    BY <1>1, <2>1, <2>2, <2>3
<1> QED
  BY <1>4, <1>5, <1>6 DEF QueueInv, QueueLinked

\* Every step keeps the queue and the pointers into it in step.
LEMMA NextQueue == TypeOK /\ QueueInv /\ [Next]_vars => QueueInv'
<1> SUFFICES ASSUME TypeOK, QueueInv, [Next]_vars PROVE QueueInv'
  OBVIOUS
<1>1. CASE UNCHANGED <<conn, gqlist>>
  BY <1>1, SameQueue DEF InTable
<1>2. ASSUME NEW c \in Client, ClientStep(c) PROVE QueueInv'
  <2>1. ASSUME NEW nm \in Name, NEW v \in Verdict, CreateReqQueued(c, nm, v) PROVE QueueInv'
    BY <2>1, EnqueueQueue
  <2>2. ASSUME NEW nm \in Name, NEW v \in Verdict, CreateReqDequeued(c, nm, v) PROVE QueueInv'
    BY <2>2, CancelQueue DEF CreateReqDequeued
  <2>3. CASE on_client_cancelcreategame(c)
    BY <2>3, CancelQueue DEF on_client_cancelcreategame
  <2>4. CASE on_client_joingamereq(c) \/ ClientEnters(c) \/ ClientDies(c)
    <3>1. UNCHANGED gqlist
      BY <2>4 DEF on_client_joingamereq, ClientEnters, ClientDies
    <3>2. \/ UNCHANGED conn
          \/ conn' = [conn EXCEPT ![c].state = "destroy"]
          \/ conn' = [conn EXCEPT ![c].state = "char_authed"]
      BY <2>4 DEF on_client_joingamereq, ClientEnters, ClientDies
    <3>3. conn \in [Client -> ConnRecord]
      BY DEF TypeOK
    <3>4. \A d \in Client : /\ conn'[d].gamequeue = conn[d].gamequeue
                            /\ InTable(d) => InTable(d)'
      <4>1. ASSUME NEW d \in Client
            PROVE  /\ conn'[d].gamequeue = conn[d].gamequeue
                   /\ conn'[d].state = conn[d].state \/ conn'[d].state \in {"char_authed", "destroy"}
        BY <3>2, <3>3
      <4> QED
        BY <4>1 DEF InTable
    <3> QED
      BY <3>1, <3>4, SameQueue
  <2>5. ASSUME NEW nm \in Name, NEW v \in Verdict, CreateReqRefused(c, nm, v) PROVE QueueInv'
    BY <1>1, <2>5 DEF CreateReqRefused
  <2>6. ASSUME NEW nm \in Name, NEW s \in GS, CreateReqForwarded(c, nm, s) PROVE QueueInv'
    BY <1>1, <2>6 DEF CreateReqForwarded
  <2> QED
    BY <1>2, <2>1, <2>2, <2>3, <2>4, <2>5, <2>6 DEF ClientStep, on_client_creategamereq
<1>3. CASE gqlist_check_creategame
  <2>1. ASSUME NEW q \in gqlist, NEW s \in GS, DrainForwarded(q, s) PROVE QueueInv'
    BY <2>1, DequeueQueue DEF DrainForwarded
  <2>2. ASSUME NEW q \in gqlist, NEW v \in Verdict, DrainFailed(q, v) PROVE QueueInv'
    <3>1. InTable(q.client) /\ Queued(q.client)
      BY DEF QueueInv, QueueLinked, TypeOK, Queued
    <3>2. gqlist' = gqlist \ {q} /\ conn' = [conn EXCEPT ![q.client].gamequeue = 0]
      BY <2>2, <3>1 DEF DrainFailed
    <3> QED
      BY <3>2, DequeueQueue
  <2>3. CASE DrainEnds
    BY <1>1, <2>3 DEF DrainEnds
  <2> QED
    BY <1>3, <2>1, <2>2, <2>3 DEF gqlist_check_creategame
<1>4. ASSUME NEW r \in reqs, GsReply(r) PROVE QueueInv'
  BY <1>1, <1>4 DEF GsReply, CreateReplySucceed, CreateReplyFailed, JoinReply
<1>5. ASSUME NEW k \in Link, LinkStep(k) PROVE QueueInv'
  BY <1>1, <1>5 DEF LinkStep, on_d2gs_initconn, on_d2gs_authreply, on_d2gs_setgsinfo,
                    on_d2gs_closegame, on_d2gs_updategameinfo, LinkDies
<1>6. CASE sqlist_check_timeout
  BY <1>1, <1>6 DEF sqlist_check_timeout
<1>7. ASSUME NEW g \in DOMAIN game, d2cs_gamelist_check_voidgame(g) PROVE QueueInv'
  BY <1>1, <1>7 DEF d2cs_gamelist_check_voidgame
<1>8. ASSUME NEW valid \in SUBSET GS, d2gslist_reload(valid) PROVE QueueInv'
  BY <1>1, <1>8 DEF d2gslist_reload
<1>9. CASE d2cs_connlist_reap
  BY <1>9, ReapQueue
<1>10. CASE UNCHANGED vars
  BY <1>1, <1>10 DEF vars
<1> QED
  BY <1>2, <1>3, <1>4, <1>5, <1>6, <1>7, <1>8, <1>9, <1>10 DEF Next

\* Every queue entry belongs to a client in the table that points to it, and
\* no client points to a destroyed entry, for any number of clients.
THEOREM QueueCorrect == Spec => []QueueLinked
<1>1. Init => QueueInv
  BY DEF Init, QueueInv, QueueLinked, QueueSeqs, Queued
<1>2. QueueInv => QueueLinked
  BY DEF QueueInv
<1> QED
  BY <1>1, <1>2, NextQueue, TypeCorrect, PTL DEF Spec

-----------------------------------------------------------------------------
(* What a step may do to the games and to the forwarded requests           *)

\* A request is known by its number, and a game server's answer is handled by
\* the handler of the kind of request it answers.
RequestSeqs == \A p, q \in sqlist : p.seqno = q.seqno => p = q
KindsAgree == \A r \in reqs, q \in sqlist : q.seqno = r.seqno => r.kind = q.kind

\* The server a confirmed game is on still runs the game under its id.
HostedExact ==
  \A g \in DOMAIN game :
    game[g].created => game[g].d2gs_gameid \in hosted[gs[game[g].d2gs].connection]

\* A game is created on a server with room, under a name no other game has.
Creates == \E c \in Client, nm \in Name, s \in GS :
             /\ Forward(c, nm, s) /\ HasRoom(s) /\ ~NameTaken(nm)
             /\ UNCHANGED hosted

\* A game server confirms the game it was asked for.
Confirms == \E r \in reqs, did \in GsGameId : CreateReplySucceed(r, did)

\* A client asks to join a confirmed game.
Joins ==
  /\ UNCHANGED <<gs, game, hosted>>
  /\ \E c \in Client, g \in DOMAIN game :
       /\ sq_seqno' = sq_seqno + 1
       /\ sqlist' = sqlist \cup {[seqno |-> sq_seqno + 1, kind |-> "join",
                                  client |-> c, game |-> g]}
       /\ reqs' = reqs \cup {[seqno |-> sq_seqno + 1, kind |-> "join",
                              link |-> gs[game[g].d2gs].connection]}

\* Games and requests may go; the games that stay keep everything but the
\* characters in them, and the connection their server is registered with.
Removes ==
  /\ sqlist' \subseteq sqlist /\ reqs' \subseteq reqs
  /\ DOMAIN game' \subseteq DOMAIN game
  /\ \A g \in DOMAIN game' :
       /\ game'[g].name = game[g].name
       /\ game'[g].d2gs = game[g].d2gs
       /\ game'[g].created = game[g].created
       /\ game'[g].d2gs_gameid = game[g].d2gs_gameid
       /\ gs'[game[g].d2gs].connection = gs[game[g].d2gs].connection
       /\ game[g].created => game[g].d2gs_gameid \in hosted'[gs[game[g].d2gs].connection]
  /\ \A s \in GS : gs'[s].gamenum <= gs[s].gamenum

GamesStep == Creates \/ Confirms \/ Joins \/ Removes

\* Steps that touch neither the games nor the registry.
LEMMA QuietStep ==
  ASSUME Inv, HostedExact, UNCHANGED <<gs, game, hosted>>,
         sqlist' \subseteq sqlist, reqs' \subseteq reqs
  PROVE  Removes
<1>1. \A s \in GS : gs[s].gamenum \in Nat
  BY DEF Inv, TypeOK
<1> QED
  BY <1>1 DEF Removes, HostedExact

\* game_destroy.
LEMMA DestroyStep ==
  ASSUME Inv, NEW g \in DOMAIN game, GameDestroy(g),
         sqlist' \subseteq sqlist, reqs' \subseteq reqs,
         \A h \in DOMAIN game : h # g /\ game[h].created =>
             game[h].d2gs_gameid \in hosted'[gs[game[h].d2gs].connection]
  PROVE  Removes
<1>0. TypeOK
  BY DEF Inv
<1>1. DOMAIN game' = DOMAIN game \ {g} /\ \A h \in DOMAIN game' : game'[h] = game[h]
  BY DEF GameDestroy, Without
<1>2. \A h \in DOMAIN game : game[h].d2gs \in GS
  BY <1>0 DEF TypeOK, GameRecord
<1>3. \A s \in GS : gs'[s].gamenum <= gs[s].gamenum /\ gs'[s].connection = gs[s].connection
  <2>1. PICK s \in GS : s = game[g].d2gs
    BY <1>2
  <2> QED
    BY <1>0, <2>1 DEF GameDestroy, TypeOK
<1> QED
  BY <1>1, <1>2, <1>3 DEF Removes

\* Servers that are deactivated lose their games.
LEMMA ClearStep ==
  ASSUME Inv, NEW S \in SUBSET GS,
         game' = Without(game, GamesOf(S)),
         \A s \in S : gs'[s].gamenum = 0,
         \A s \in GS \ S : gs'[s].gamenum = gs[s].gamenum /\ gs'[s].connection = gs[s].connection,
         sqlist' \subseteq sqlist, reqs' \subseteq reqs,
         \A h \in DOMAIN game : game[h].d2gs \notin S /\ game[h].created =>
             game[h].d2gs_gameid \in hosted'[gs[game[h].d2gs].connection]
  PROVE  Removes
<1>0. TypeOK
  BY DEF Inv
<1>1. /\ DOMAIN game' \subseteq DOMAIN game
      /\ \A h \in DOMAIN game' : game'[h] = game[h] /\ game[h].d2gs \notin S
  BY DEF Without, GamesOf
<1>2. \A h \in DOMAIN game : game[h].d2gs \in GS
  BY <1>0 DEF TypeOK, GameRecord
<1>3. \A s \in GS : gs'[s].gamenum <= gs[s].gamenum
  <2>1. \A s \in GS : gs[s].gamenum \in Nat
    BY <1>0 DEF TypeOK
  <2> QED
    BY <2>1
<1> QED
  BY <1>1, <1>2, <1>3 DEF Removes

\* Requests of clients, as steps on the games.
LEMMA ClientGames ==
  ASSUME Inv, HostedExact, NEW c \in Client, ClientStep(c)
  PROVE  GamesStep
<1>0. TypeOK
  BY DEF Inv
<1>1. ASSUME NEW nm \in Name, NEW s \in GS, CreateReqForwarded(c, nm, s)
      PROVE  Creates
  <2>1. Forward(c, nm, s) /\ UNCHANGED hosted /\ HasRoom(s) /\ ~NameTaken(nm)
    BY <1>1 DEF CreateReqForwarded, Accepted, Chosen, NameClash
  <2> QED
    BY <2>1 DEF Creates
<1>2. ASSUME NEW nm \in Name, NEW v \in Verdict,
             CreateReqRefused(c, nm, v) \/ CreateReqQueued(c, nm, v) \/ CreateReqDequeued(c, nm, v)
      PROVE  Removes
  BY <1>2, QuietStep DEF CreateReqRefused, CreateReqQueued, CreateReqDequeued
<1>3. CASE on_client_cancelcreategame(c) \/ ClientEnters(c) \/ ClientDies(c)
  BY <1>3, QuietStep DEF on_client_cancelcreategame, ClientEnters, ClientDies, GamesStep
<1>4. CASE on_client_joingamereq(c)
  <2>1. CASE UNCHANGED <<sqlist, sq_seqno, reqs>>
    BY <1>4, <2>1, QuietStep DEF on_client_joingamereq, GamesStep
  <2>2. CASE ~UNCHANGED <<sqlist, sq_seqno, reqs>>
    BY <1>4, <2>2 DEF on_client_joingamereq, GamesStep, Joins
  <2> QED
    BY <2>1, <2>2
<1> QED
  BY <1>1, <1>2, <1>3, <1>4 DEF ClientStep, on_client_creategamereq, GamesStep

\* Serving the queue of waiting creations.
LEMMA DrainGames ==
  ASSUME Inv, HostedExact, gqlist_check_creategame
  PROVE  GamesStep
<1>0. TypeOK
  BY DEF Inv
<1>1. ASSUME NEW q \in gqlist, NEW s \in GS, DrainForwarded(q, s)
      PROVE  Creates
  <2>1. /\ Forward(q.client, q.name, s) /\ UNCHANGED hosted
        /\ HasRoom(s) /\ ~NameTaken(q.name)
    BY <1>1 DEF DrainForwarded, Accepted, Chosen, NameClash
  <2>2. q.client \in Client /\ q.name \in Name
    BY <1>0 DEF TypeOK
  <2> QED
    BY <2>1, <2>2 DEF Creates
<1>2. ASSUME NEW q \in gqlist, NEW v \in Verdict, DrainFailed(q, v)
      PROVE  Removes
  <2>1. UNCHANGED <<gs, game, hosted, sqlist, reqs>>
    BY <1>2 DEF DrainFailed
  <2> QED
    BY <2>1, QuietStep
<1>3. CASE DrainEnds
  BY <1>3, QuietStep DEF DrainEnds, GamesStep
<1> QED
  BY <1>1, <1>2, <1>3 DEF gqlist_check_creategame, GamesStep

\* Replies of game servers.
LEMMA ReplyGames ==
  ASSUME Inv, HostedExact, NEW r \in reqs, GsReply(r)
  PROVE  GamesStep
<1>1. ASSUME NEW did \in GsGameId, CreateReplySucceed(r, did)
      PROVE  Confirms
  BY <1>1 DEF Confirms
<1>2. CASE CreateReplyFailed(r)
  <2>1. sqlist' \subseteq sqlist /\ reqs' \subseteq reqs /\ UNCHANGED hosted
    BY <1>2 DEF CreateReplyFailed, OtherRequests
  <2>2. ASSUME NEW q \in Pending(r), Alive(q), GameDestroy(q.game)
        PROVE  Removes
    BY <2>1, <2>2, DestroyStep DEF Alive, HostedExact
  <2>3. CASE UNCHANGED <<game, gs, drain>>
    BY <2>1, <2>3, QuietStep DEF GamesStep
  <2> QED
    BY <1>2, <2>2, <2>3 DEF CreateReplyFailed, GamesStep
<1>3. CASE JoinReply(r)
  BY <1>3, QuietStep DEF JoinReply, OtherRequests, GamesStep
<1> QED
  BY <1>1, <1>2, <1>3 DEF GsReply, GamesStep

\* A packet that ends a game ends the one its server runs under that id: it is
\* on the list at most once.
LEMMA CloseGames ==
  ASSUME Inv, HostedExact, GameIdsUnique, NEW k \in Link, NEW did \in GsGameId,
         on_d2gs_closegame(k, did)
  PROVE  Removes
<1>0. TypeOK /\ RegistryLinked
  BY DEF Inv
<1>1. /\ hosted' = [hosted EXCEPT ![k] = @ \ {did}]
      /\ UNCHANGED <<sqlist, reqs>>
  BY DEF on_d2gs_closegame
<1>2. ASSUME NEW h \in DOMAIN game, game[h].created, h \notin Found(link[k].gs, did)
      PROVE  game[h].d2gs_gameid \in hosted'[gs[game[h].d2gs].connection]
  <2>1. game[h].d2gs \in GS /\ gs[game[h].d2gs].connection \in Link
    BY <1>0 DEF TypeOK, GameRecord, Inv, GamesOnLiveServer
  <2>2. game[h].d2gs_gameid \in hosted[gs[game[h].d2gs].connection]
    BY <1>2 DEF HostedExact
  <2>3. CASE gs[game[h].d2gs].connection = k
    <3>1. link[k].gs = game[h].d2gs
      BY <1>0, <2>1, <2>3, ConstAssumption DEF RegistryLinked
    <3>2. game[h].d2gs_gameid # did
      BY <1>2, <3>1 DEF Found
    <3> QED
      BY <1>0, <1>1, <2>1, <2>2, <2>3, <3>2 DEF TypeOK
  <2>4. CASE gs[game[h].d2gs].connection # k
    BY <1>0, <1>1, <2>1, <2>2, <2>4 DEF TypeOK
  <2> QED
    BY <2>3, <2>4
<1>3. ASSUME NEW g \in Found(link[k].gs, did), GameDestroy(g)
      PROVE  Removes
  <2>1. g \in DOMAIN game
    BY DEF Found
  <2>2. \A h \in Found(link[k].gs, did) : h = g
    BY DEF Found, GameIdsUnique
  <2> QED
    BY <1>1, <1>2, <1>3, <2>1, <2>2, DestroyStep
<1>4. CASE Found(link[k].gs, did) = {} /\ UNCHANGED <<game, gs, drain>>
  <2>1. \A s \in GS : gs[s].gamenum \in Nat
    BY <1>0 DEF TypeOK
  <2> QED
    BY <1>1, <1>2, <1>4, <2>1 DEF Removes
<1> QED
  BY <1>3, <1>4 DEF on_d2gs_closegame

\* Game servers that come and go.
LEMMA LinkGames ==
  ASSUME Inv, HostedExact, GameIdsUnique, NEW k \in Link, LinkStep(k)
  PROVE  Removes
<1>0. TypeOK
  BY DEF Inv
<1>1. ASSUME NEW s \in GS, on_d2gs_initconn(k, s)
      PROVE  Removes
  BY <1>1, QuietStep DEF on_d2gs_initconn
<1>2. CASE on_d2gs_authreply(k)
  <2>0. PICK s \in GS : s = link[k].gs
    BY <1>2 DEF Inv, LinkBound, on_d2gs_authreply
  <2>1. game' = Without(game, GamesOf({s}))
    <3>1. gs[s].connection = NULL => GamesOf({s}) = {}
      BY DEF Inv, GamesOnLiveServer, GamesOf
    <3> QED
      BY <1>2, <2>0, <3>1 DEF on_d2gs_authreply, Replaced
  <2>2. /\ \A t \in {s} : gs'[t].gamenum = 0
        /\ \A t \in GS \ {s} : gs'[t].gamenum = gs[t].gamenum /\ gs'[t].connection = gs[t].connection
        /\ {s} \in SUBSET GS
    <3>1. PICK x : x = [gs[s] EXCEPT !.connection = k, !.gamenum = 0, !.maxgame = 0]
      OBVIOUS
    <3>2. gs \in [GS -> GsRecord]
      BY <1>0 DEF TypeOK
    <3>3. x.gamenum = 0
      BY <3>1, <3>2 DEF GsRecord
    <3>4. gs' = [gs EXCEPT ![s] = x]
      BY <1>2, <2>0, <3>1, <3>2 DEF on_d2gs_authreply, GsRecord
    <3> QED
      BY <3>2, <3>3, <3>4
  <2>3. UNCHANGED <<sqlist, reqs, hosted>>
    BY <1>2 DEF on_d2gs_authreply
  <2> QED
    BY <2>1, <2>2, <2>3, ClearStep DEF HostedExact
<1>3. ASSUME NEW m \in MaxGames, on_d2gs_setgsinfo(k, m)
      PROVE  Removes
  <2>1. \A t \in GS : /\ gs[t].gamenum \in Nat
                      /\ gs'[t].gamenum = gs[t].gamenum
                      /\ gs'[t].connection = gs[t].connection
    BY <1>0, <1>3 DEF on_d2gs_setgsinfo, TypeOK
  <2>2. \A h \in DOMAIN game : game[h].d2gs \in GS
    BY <1>0 DEF TypeOK, GameRecord
  <2>3. UNCHANGED <<game, sqlist, reqs, hosted>>
    BY <1>3 DEF on_d2gs_setgsinfo
  <2> QED
    BY <2>1, <2>2, <2>3 DEF Removes, HostedExact
<1>4. ASSUME NEW did \in GsGameId, on_d2gs_closegame(k, did)
      PROVE  Removes
  BY <1>4, CloseGames
<1>5. ASSUME NEW did \in GsGameId, NEW c \in Client, on_d2gs_updategameinfo(k, did, c)
      PROVE  Removes
  <2>1. PICK g \in Found(link[k].gs, did) :
          \/ game' = [game EXCEPT ![g].chars = @ \cup {c}]
          \/ game' = [game EXCEPT ![g].chars = @ \ {c}]
    BY <1>5 DEF on_d2gs_updategameinfo
  <2>2. DOMAIN game' = DOMAIN game
    BY <2>1
  <2>3. ASSUME NEW h \in DOMAIN game
        PROVE  /\ game'[h].name = game[h].name
               /\ game'[h].d2gs = game[h].d2gs
               /\ game'[h].created = game[h].created
               /\ game'[h].d2gs_gameid = game[h].d2gs_gameid
    <3>1. game[h] \in GameRecord
      BY <1>0 DEF TypeOK
    <3>2. \/ game'[h] = game[h]
          \/ game'[h] = [game[h] EXCEPT !.chars = @ \cup {c}]
          \/ game'[h] = [game[h] EXCEPT !.chars = @ \ {c}]
      BY <2>1
    <3> QED
      BY <3>1, <3>2 DEF GameRecord
  <2>4. \A s \in GS : gs[s].gamenum \in Nat
    BY <1>0 DEF TypeOK
  <2>5. UNCHANGED <<gs, sqlist, reqs, hosted>>
    BY <1>5 DEF on_d2gs_updategameinfo
  <2> QED
    BY <2>2, <2>3, <2>4, <2>5 DEF Removes, HostedExact
<1>6. CASE LinkDies(k)
  BY <1>6, QuietStep DEF LinkDies
<1> QED
  BY <1>1, <1>2, <1>3, <1>4, <1>5, <1>6 DEF LinkStep

\* A reload of the configuration.
LEMMA ReloadGames ==
  ASSUME Inv, HostedExact, NEW valid \in SUBSET GS, d2gslist_reload(valid)
  PROVE  Removes
<1>0. TypeOK
  BY DEF Inv
<1> DEFINE out == {s \in GS \ valid : gs[s].list = "listed"}
<1>1. game' = Without(game, GamesOf(out)) /\ UNCHANGED <<sqlist, reqs, hosted>>
  BY DEF d2gslist_reload
<1>2. \A s \in out : gs'[s].gamenum = 0
  BY <1>0 DEF d2gslist_reload, Deactivated, TypeOK
<1>3. \A s \in GS \ out : gs'[s].gamenum = gs[s].gamenum /\ gs'[s].connection = gs[s].connection
  BY <1>0 DEF d2gslist_reload, TypeOK
<1>4. out \in SUBSET GS
  OBVIOUS
<1> HIDE DEF out
<1> QED
  BY <1>1, <1>2, <1>3, <1>4, ClearStep DEF HostedExact

\* Connections that are destroyed.
LEMMA ReapGames ==
  ASSUME Inv, HostedExact, d2cs_connlist_reap
  PROVE  Removes
<1>0. TypeOK
  BY DEF Inv
<1> DEFINE ks == {k \in Link : link[k].state = "destroy"}
           down == ServersOf(ks)
<1>1. /\ game' = Without(game, GamesOf(down))
      /\ gs' = Deactivated(down)
      /\ hosted' = [k \in Link |-> IF k \in ks THEN {} ELSE hosted[k]]
      /\ reqs' \subseteq reqs /\ UNCHANGED sqlist
  BY DEF d2cs_connlist_reap
<1>2. down \in SUBSET GS /\ ks \subseteq Link
  BY DEF ServersOf
<1>3. ASSUME NEW h \in DOMAIN game, game[h].d2gs \notin down, game[h].created
      PROVE  game[h].d2gs_gameid \in hosted'[gs[game[h].d2gs].connection]
  <2>1. game[h].d2gs \in GS /\ gs[game[h].d2gs].connection \in Link
    BY <1>0 DEF TypeOK, GameRecord, Inv, GamesOnLiveServer
  <2>2. gs[game[h].d2gs].connection \notin ks
    BY <1>3, <2>1 DEF Inv, GamesOnLiveServer, ServersOf
  <2> HIDE DEF ks
  <2> QED
    BY <1>1, <1>3, <2>1, <2>2 DEF HostedExact
<1> HIDE DEF down
<1>4. ASSUME NEW s \in down PROVE gs'[s].gamenum = 0
  <2>1. gs[s] \in GsRecord
    BY <1>0, <1>2 DEF TypeOK
  <2>2. gs'[s] = [gs[s] EXCEPT !.connection = NULL, !.gamenum = 0, !.maxgame = 0]
    BY <1>1, <1>2 DEF Deactivated
  <2> QED
    BY <2>1, <2>2
<1>5. \A s \in GS \ down : gs'[s] = gs[s]
  BY <1>1 DEF Deactivated
<1> QED
  BY <1>1, <1>2, <1>3, <1>4, <1>5, ClearStep

\* Every step is one of the four kinds.
LEMMA NextGames ==
  ASSUME Inv, HostedExact, GameIdsUnique, [Next]_vars
  PROVE  GamesStep
<1>1. CASE sqlist_check_timeout
  BY <1>1, QuietStep DEF sqlist_check_timeout, GamesStep
<1>2. ASSUME NEW g \in DOMAIN game, d2cs_gamelist_check_voidgame(g) PROVE GamesStep
  BY <1>2, DestroyStep DEF d2cs_gamelist_check_voidgame, HostedExact, GamesStep
<1>3. CASE UNCHANGED vars
  BY <1>3, QuietStep DEF vars, GamesStep
<1> QED
  BY <1>1, <1>2, <1>3, ClientGames, DrainGames, ReplyGames, LinkGames, ReloadGames, ReapGames
  DEF Next, GamesStep

-----------------------------------------------------------------------------
(* Requests, names and ids                                                 *)

\* The inductive invariant of requests and games, on top of Inv.
RequestInv ==
  /\ RequestSeqs /\ KindsAgree /\ RepliesFromOwner /\ CreatePendingOnce
  /\ HostedExact /\ GameIdsUnique /\ NamesUnique

\* A new game, its request and the server asked for it.
LEMMA CreateRequests ==
  ASSUME Inv, RequestInv, Creates
  PROVE  RequestInv'
<1> USE DEF RequestInv
<1>0. TypeOK
  BY DEF Inv
<1>1. PICK c \in Client, nm \in Name, s \in GS :
        Forward(c, nm, s) /\ HasRoom(s) /\ ~NameTaken(nm) /\ UNCHANGED hosted
  BY DEF Creates
<1> DEFINE new == game_id + 1
           q0 == [seqno |-> sq_seqno + 1, kind |-> "create", client |-> c, game |-> new]
           r0 == [seqno |-> sq_seqno + 1, kind |-> "create", link |-> gs[s].connection]
<1>2. /\ DOMAIN game' = DOMAIN game \cup {new} /\ new \notin DOMAIN game
      /\ \A g \in DOMAIN game : game'[g] = game[g]
      /\ game'[new].name = nm /\ game'[new].d2gs = s /\ ~game'[new].created
  BY <1>0, <1>1 DEF Forward, TypeOK
<1>3. /\ sqlist' = sqlist \cup {q0} /\ reqs' = reqs \cup {r0}
      /\ q0.seqno = sq_seqno + 1 /\ q0.kind = "create" /\ q0.game = new
      /\ r0.seqno = sq_seqno + 1 /\ r0.kind = "create" /\ r0.link = gs[s].connection
  BY <1>1 DEF Forward
<1>4. /\ \A q \in sqlist : q.seqno \in Nat /\ q.seqno <= sq_seqno /\ q.game # new
      /\ \A r \in reqs : r.seqno \in Nat /\ r.seqno <= sq_seqno
      /\ sq_seqno \in Nat
  BY <1>0 DEF TypeOK
<1>5. /\ \A g \in DOMAIN game : game[g].d2gs \in GS
      /\ \A t \in GS : gs'[t].connection = gs[t].connection
  BY <1>0, <1>1 DEF TypeOK, GameRecord, Forward
<1>6. UNCHANGED hosted /\ ~NameTaken(nm)
  BY <1>1
<1> HIDE DEF q0, r0, new
<1>7. RequestSeqs' /\ KindsAgree'
  BY <1>3, <1>4 DEF RequestSeqs, KindsAgree
<1>8. RepliesFromOwner'
  <2> SUFFICES ASSUME NEW r \in reqs', NEW q \in sqlist', q.seqno = r.seqno, q.game \in DOMAIN game'
               PROVE  gs'[game'[q.game].d2gs].connection = r.link /\ r.kind = q.kind
    BY DEF RepliesFromOwner
  <2>1. CASE r = r0
    <3>1. q = q0
      BY <1>3, <1>4, <2>1
    <3> QED
      BY <1>2, <1>3, <1>5, <2>1, <3>1
  <2>2. CASE r # r0
    <3>1. r \in reqs /\ q \in sqlist
      BY <1>3, <1>4, <2>2
    <3>2. q.game \in DOMAIN game
      BY <1>2, <1>4, <3>1
    <3> QED
      BY <1>2, <1>5, <3>1, <3>2 DEF RepliesFromOwner
  <2> QED
    BY <2>1, <2>2
<1>9. CreatePendingOnce'
  BY <1>2, <1>3, <1>4 DEF CreatePendingOnce
<1>10. HostedExact'
  BY <1>2, <1>5, <1>6 DEF HostedExact
<1>11. GameIdsUnique'
  BY <1>2 DEF GameIdsUnique
<1>12. NamesUnique'
  BY <1>2, <1>6 DEF NamesUnique, NameTaken
<1> QED
  BY <1>7, <1>8, <1>9, <1>10, <1>11, <1>12

\* The confirmed game is the one asked for, on the server that answers.
LEMMA ConfirmRequests ==
  ASSUME Inv, RequestInv, Confirms
  PROVE  RequestInv'
<1> USE DEF RequestInv
<1>0. TypeOK
  BY DEF Inv
<1>1. PICK r \in reqs, did \in GsGameId : CreateReplySucceed(r, did)
  BY DEF Confirms
<1>2. /\ r.kind = "create" /\ r.link \in Link /\ did \notin hosted[r.link]
      /\ reqs' \subseteq reqs
      /\ sqlist' = sqlist \ Pending(r)
      /\ DOMAIN game' = DOMAIN game
      /\ gs' = gs
  BY <1>0, <1>1 DEF CreateReplySucceed, OtherRequests, TypeOK
<1>3. /\ \A k \in Link : hosted[k] \subseteq hosted'[k]
      /\ did \in hosted'[r.link]
  BY <1>0, <1>1, <1>2 DEF CreateReplySucceed, TypeOK
<1> DEFINE Hit(g) == \E q \in Pending(r) : Alive(q) /\ q.game = g
<1>4. \A g \in DOMAIN game :
        game'[g] = IF Hit(g) THEN [game[g] EXCEPT !.created = TRUE, !.d2gs_gameid = did] ELSE game[g]
  BY <1>1 DEF CreateReplySucceed
<1>5. ASSUME NEW g \in DOMAIN game
      PROVE  /\ game'[g].name = game[g].name /\ game'[g].d2gs = game[g].d2gs
             /\ Hit(g) => game'[g].created /\ game'[g].d2gs_gameid = did
             /\ ~Hit(g) => game'[g] = game[g]
  <2> HIDE DEF Hit
  <2>1. game[g] \in GameRecord
    BY <1>0 DEF TypeOK
  <2> QED
    BY <1>4, <2>1 DEF GameRecord
<1>6. ASSUME NEW g \in DOMAIN game, Hit(g)
      PROVE  \E q \in sqlist : q.seqno = r.seqno /\ q.kind = "create" /\ q.game = g
  BY <1>2, <1>6 DEF Pending, KindsAgree
<1>7. ASSUME NEW g \in DOMAIN game, Hit(g)
      PROVE  gs[game[g].d2gs].connection = r.link
  BY <1>7 DEF Pending, RepliesFromOwner
<1>8. ASSUME NEW g \in DOMAIN game, NEW h \in DOMAIN game, Hit(g), Hit(h)
      PROVE  g = h
  BY <1>8 DEF Pending, RequestSeqs
<1>9. \A g \in DOMAIN game : gs[game[g].d2gs].connection \in Link
  BY <1>0 DEF TypeOK, GameRecord, Inv, GamesOnLiveServer
<1> HIDE DEF Hit
<1>10. RequestSeqs' /\ KindsAgree' /\ NamesUnique'
  BY <1>2, <1>5 DEF RequestSeqs, KindsAgree, NamesUnique
<1>11. RepliesFromOwner'
  BY <1>2, <1>5 DEF RepliesFromOwner
<1>12. CreatePendingOnce'
  <2> SUFFICES ASSUME NEW q \in sqlist', q.kind = "create"
               PROVE  /\ q.game \in DOMAIN game' => ~game'[q.game].created
                      /\ \A p \in sqlist' : p.kind = "create" /\ p.game = q.game => p = q
    BY DEF CreatePendingOnce
  <2>1. q \in sqlist /\ q \notin Pending(r)
    BY <1>2
  <2>2. ASSUME q.game \in DOMAIN game' PROVE ~game'[q.game].created
    <3>1. ~Hit(q.game)
      BY <1>2, <1>6, <2>1, <2>2 DEF CreatePendingOnce, Pending
    <3> QED
      BY <1>2, <1>5, <2>1, <2>2, <3>1 DEF CreatePendingOnce
  <2> QED
    BY <1>2, <2>1, <2>2 DEF CreatePendingOnce
<1>13. HostedExact'
  BY <1>2, <1>3, <1>5, <1>7, <1>9 DEF HostedExact
<1>14. GameIdsUnique'
  <2>1. ASSUME NEW g \in DOMAIN game, NEW h \in DOMAIN game, Hit(g), ~Hit(h),
               game[h].created, game[g].d2gs = game[h].d2gs, game[h].d2gs_gameid = did
        PROVE  FALSE
    BY <1>2, <1>7, <2>1 DEF HostedExact
  <2> SUFFICES ASSUME NEW g \in DOMAIN game, NEW h \in DOMAIN game,
                      game'[g].created, game'[h].created, game'[g].d2gs = game'[h].d2gs,
                      game'[g].d2gs_gameid = game'[h].d2gs_gameid
               PROVE  g = h
    BY <1>2 DEF GameIdsUnique
  <2>2. CASE Hit(g) /\ Hit(h)
    BY <1>8, <2>2
  <2>3. CASE Hit(g) /\ ~Hit(h)
    BY <1>5, <2>1, <2>3
  <2>4. CASE ~Hit(g) /\ Hit(h)
    BY <1>5, <2>1, <2>4
  <2>5. CASE ~Hit(g) /\ ~Hit(h)
    BY <1>5, <2>5 DEF GameIdsUnique
  <2> QED
    BY <2>2, <2>3, <2>4, <2>5
<1> QED
  BY <1>10, <1>11, <1>12, <1>13, <1>14

\* Every step preserves the invariant of requests and games.
LEMMA NextRequests == Inv /\ RequestInv /\ [Next]_vars => RequestInv'
<1> SUFFICES ASSUME Inv, RequestInv, [Next]_vars PROVE RequestInv'
  OBVIOUS
<1>0. GamesStep /\ TypeOK
  BY NextGames DEF RequestInv, Inv
<1>1. CASE Joins
  <2>1. PICK c \in Client, g \in DOMAIN game :
          /\ sqlist' = sqlist \cup {[seqno |-> sq_seqno + 1, kind |-> "join",
                                     client |-> c, game |-> g]}
          /\ reqs' = reqs \cup {[seqno |-> sq_seqno + 1, kind |-> "join",
                                 link |-> gs[game[g].d2gs].connection]}
    BY <1>1 DEF Joins
  <2>2. /\ \A q \in sqlist : q.seqno \in Nat /\ q.seqno <= sq_seqno
        /\ \A r \in reqs : r.seqno \in Nat /\ r.seqno <= sq_seqno
        /\ sq_seqno \in Nat
    BY <1>0 DEF TypeOK
  <2>3. UNCHANGED <<gs, game, hosted>>
    BY <1>1 DEF Joins
  <2>4. RequestSeqs' /\ KindsAgree'
    BY <2>1, <2>2 DEF RequestInv, RequestSeqs, KindsAgree
  <2>5. RepliesFromOwner'
    BY <2>1, <2>2, <2>3 DEF RequestInv, RepliesFromOwner
  <2>6. CreatePendingOnce'
    BY <2>1, <2>3 DEF RequestInv, CreatePendingOnce
  <2>7. HostedExact' /\ GameIdsUnique' /\ NamesUnique'
    BY <2>3 DEF RequestInv, HostedExact, GameIdsUnique, NamesUnique
  <2> QED
    BY <2>4, <2>5, <2>6, <2>7 DEF RequestInv
<1>2. CASE Removes
  <2>1. RequestSeqs' /\ KindsAgree'
    BY <1>2 DEF Removes, RequestInv, RequestSeqs, KindsAgree
  <2>2. RepliesFromOwner' /\ CreatePendingOnce'
    BY <1>2 DEF Removes, RequestInv, RepliesFromOwner, CreatePendingOnce
  <2>3. HostedExact' /\ GameIdsUnique' /\ NamesUnique'
    BY <1>2 DEF Removes, RequestInv, HostedExact, GameIdsUnique, NamesUnique
  <2> QED
    BY <2>1, <2>2, <2>3 DEF RequestInv
<1> QED
  BY <1>0, <1>1, <1>2, CreateRequests, ConfirmRequests DEF GamesStep

\* The invariant holds in every state of every behaviour.
LEMMA RequestInvariance == Spec => []RequestInv
<1>1. Init => RequestInv
  BY DEF Init, RequestInv, RequestSeqs, KindsAgree, RepliesFromOwner, CreatePendingOnce,
         HostedExact, GameIdsUnique, NamesUnique
<1> QED
  BY <1>1, NextRequests, Invariance, PTL DEF Spec

\* A reply to a create request meets a game that still waits for it.
THEOREM PendingOnceCorrect == Spec => []CreatePendingOnce
<1>1. RequestInv => CreatePendingOnce
  BY DEF RequestInv
<1> QED
  BY <1>1, RequestInvariance, PTL

\* The reply handlers never check it, and still a reply for a game on the list
\* always comes from the connection that game's server is registered with.
THEOREM RepliesCorrect == Spec => []RepliesFromOwner
<1>1. RequestInv => RepliesFromOwner
  BY DEF RequestInv
<1> QED
  BY <1>1, RequestInvariance, PTL

\* A server's game id names at most one confirmed game, across restarts of
\* the server.
THEOREM GameIdsCorrect == Spec => []GameIdsUnique
<1>1. RequestInv => GameIdsUnique
  BY DEF RequestInv
<1> QED
  BY <1>1, RequestInvariance, PTL

\* Game names are unique, also for games the queue creates.
THEOREM NamesCorrect == Spec => []NamesUnique
<1>1. RequestInv => NamesUnique
  BY DEF RequestInv
<1> QED
  BY <1>1, RequestInvariance, PTL
=============================================================================
