-------------------------- MODULE RealmGamesProofs --------------------------
(***************************************************************************)
(* Proofs that the realm server's tables stay consistent with each other,  *)
(* for any number of clients, game servers, connections and requests.      *)
(***************************************************************************)
EXTENDS RealmGames, FiniteSetTheorems, TLAPS

\* A connection that was opened for a game server carries that server's id.
LinkBound == \A k \in Link : link[k].state # "out" => link[k].gs \in GS

\* The inductive invariant.
Inv == TypeOK /\ LinkBound /\ GamenumExact /\ GamesOnLiveServer /\ RegistryLinked

USE DEF ConnRecord, LinkRecord, GsRecord

-----------------------------------------------------------------------------
(* Counting the games of a server                                          *)

\* The game list is finite, so the number of games of a server is a number.
LEMMA OnServerFinite ==
  ASSUME TypeOK, NEW s
  PROVE  IsFiniteSet(OnServer(s)) /\ Cardinality(OnServer(s)) \in Nat
<1>0. 1 \in Int /\ game_id \in Int
  BY DEF TypeOK
<1>1. IsFiniteSet(1..game_id)
  BY <1>0, FS_Interval
<1>2. OnServer(s) \subseteq 1..game_id
  BY DEF TypeOK, OnServer
<1> QED
  BY <1>1, <1>2, FS_Subset, FS_CardinalityType

\* d2cs_game_create with d2gs_add_gamenum(1): the counter of the chosen server
\* and the number of its games grow together.
LEMMA ForwardCount ==
  ASSUME TypeOK, GamenumExact, NEW c, NEW nm \in Name, NEW s \in GS, Forward(c, nm, s)
  PROVE  GamenumExact'
<1> SUFFICES ASSUME NEW t \in GS PROVE gs'[t].gamenum = Cardinality(OnServer(t)')
  BY DEF GamenumExact
<1>0. game_id + 1 \notin DOMAIN game
  BY DEF TypeOK
<1>1. CASE t = s
  <2>1. OnServer(s)' = OnServer(s) \cup {game_id + 1}
    BY <1>0 DEF Forward, OnServer
  <2>2. game_id + 1 \notin OnServer(s)
    BY <1>0 DEF OnServer
  <2>3. Cardinality(OnServer(s)') = Cardinality(OnServer(s)) + 1
    BY <2>1, <2>2, OnServerFinite, FS_AddElement
  <2>4. gs'[s].gamenum = gs[s].gamenum + 1
    BY DEF Forward, TypeOK
  <2> QED
    BY <1>1, <2>3, <2>4 DEF GamenumExact, OnServer
<1>2. CASE t # s
  <2>1. OnServer(t)' = OnServer(t)
    BY <1>0, <1>2 DEF Forward, OnServer
  <2>2. gs'[t].gamenum = gs[t].gamenum
    BY <1>2 DEF Forward, TypeOK
  <2> QED
    BY <2>1, <2>2 DEF GamenumExact
<1> QED
  BY <1>1, <1>2

\* game_destroy with d2gs_add_gamenum(-1): the counter was positive and stays exact.
LEMMA DestroyCount ==
  ASSUME TypeOK, GamenumExact, NEW g \in DOMAIN game, GameDestroy(g)
  PROVE  GamenumExact' /\ gs[game[g].d2gs].gamenum > 0
<1>0. PICK s \in GS : s = game[g].d2gs
  BY DEF TypeOK, GameRecord
<1>1. g \in OnServer(s)
  BY <1>0 DEF OnServer
<1>2. OnServer(s)' = OnServer(s) \ {g}
  BY DEF GameDestroy, OnServer, Without
<1>3. Cardinality(OnServer(s)') = Cardinality(OnServer(s)) - 1
  BY <1>1, <1>2, OnServerFinite, FS_RemoveElement
<1>4. Cardinality(OnServer(s)) > 0
  BY <1>1, OnServerFinite, FS_EmptySet
<1>5. ASSUME NEW t \in GS PROVE gs'[t].gamenum = Cardinality(OnServer(t)')
  <2>1. CASE t = s
    <3>1. gs'[s].gamenum = gs[s].gamenum - 1
      BY <1>0 DEF GameDestroy, TypeOK
    <3> QED
      BY <2>1, <3>1, <1>3, <1>0 DEF GamenumExact, OnServer
  <2>2. CASE t # s
    <3>1. OnServer(t)' = OnServer(t)
      BY <1>0, <2>2 DEF GameDestroy, OnServer, Without
    <3>2. gs'[t].gamenum = gs[t].gamenum
      BY <1>0, <2>2 DEF GameDestroy, TypeOK
    <3> QED
      BY <3>1, <3>2 DEF GamenumExact
  <2> QED
    BY <2>1, <2>2
<1> QED
  BY <1>0, <1>4, <1>5 DEF GamenumExact

\* d2gs_deactive for the servers of S: their games go, their counters are zeroed.
LEMMA ClearCount ==
  ASSUME TypeOK, GamenumExact, NEW S \in SUBSET GS,
         game' = Without(game, GamesOf(S)),
         \A s \in S : gs'[s].gamenum = 0,
         \A s \in GS \ S : gs'[s].gamenum = gs[s].gamenum
  PROVE  GamenumExact'
<1> SUFFICES ASSUME NEW t \in GS PROVE gs'[t].gamenum = Cardinality(OnServer(t)')
  BY DEF GamenumExact
<1>1. CASE t \in S
  <2>1. OnServer(t)' = {}
    BY <1>1 DEF OnServer, Without, GamesOf
  <2> QED
    BY <1>1, <2>1, FS_EmptySet
<1>2. CASE t \notin S
  <2>1. OnServer(t)' = OnServer(t)
    BY <1>2 DEF OnServer, Without, GamesOf
  <2> QED
    BY <1>2, <2>1 DEF GamenumExact
<1> QED
  BY <1>1, <1>2

-----------------------------------------------------------------------------
(* The invariant                                                           *)

\* Steps that leave the game list, the registry and the game server
\* connections alone preserve everything but, possibly, the types.
LEMMA SameTables ==
  ASSUME Inv, UNCHANGED <<link, gs, game>>, TypeOK'
  PROVE  Inv'
BY DEF Inv, LinkBound, GamenumExact, OnServer, GamesOnLiveServer, RegistryLinked

\* What Forward writes has the right type.
LEMMA ForwardTypes ==
  ASSUME TypeOK, NEW c \in Client, NEW nm \in Name, NEW s \in GS, HasRoom(s),
         Forward(c, nm, s)
  PROVE  /\ gs' \in [GS -> GsRecord]
         /\ DOMAIN game' \subseteq 1..game_id'
         /\ \A g \in DOMAIN game' : game'[g] \in GameRecord
         /\ game' = [g \in DOMAIN game' |-> game'[g]]
         /\ game_id' \in Nat /\ sq_seqno' \in Nat
         /\ \A q \in sqlist' : q \in [seqno : 1..sq_seqno', kind : {"create", "join"},
                                     client : Client, game : 1..game_id']
         /\ \A r \in reqs' : r \in [seqno : 1..sq_seqno', kind : {"create", "join"}, link : Link]
<1>1. gs[s].connection \in Link
  BY DEF HasRoom, TypeOK
<1>2. DOMAIN game' = DOMAIN game \cup {game_id + 1}
  BY DEF Forward
<1>3. \A g \in DOMAIN game' : game'[g] \in GameRecord
  BY <1>2 DEF Forward, TypeOK, GameRecord
<1>4. game' = [g \in DOMAIN game' |-> game'[g]]
  BY <1>2 DEF Forward
<1>5. DOMAIN game' \subseteq 1..game_id' /\ game_id' \in Nat /\ sq_seqno' \in Nat
  BY <1>2 DEF Forward, TypeOK
<1>6. gs' \in [GS -> GsRecord]
  <2>1. gs[s] \in GsRecord /\ gs'= [gs EXCEPT ![s] = [gs[s] EXCEPT !.gamenum = @ + 1]]
    BY DEF Forward, TypeOK
  <2>2. [gs[s] EXCEPT !.gamenum = @ + 1] \in GsRecord
    BY <2>1
  <2> QED
    BY <2>1, <2>2 DEF TypeOK
<1>7. \A q \in sqlist' : q \in [seqno : 1..sq_seqno', kind : {"create", "join"},
                              client : Client, game : 1..game_id']
  BY DEF Forward, TypeOK
<1>8. \A r \in reqs' : r \in [seqno : 1..sq_seqno', kind : {"create", "join"}, link : Link]
  BY <1>1 DEF Forward, TypeOK
<1> QED
  BY <1>3, <1>4, <1>5, <1>6, <1>7, <1>8

\* A game is only created on a registered server.
LEMMA ForwardTables ==
  ASSUME Inv, NEW c \in Client, NEW nm \in Name, NEW s \in GS, HasRoom(s),
         Forward(c, nm, s), UNCHANGED link, TypeOK'
  PROVE  Inv'
<1> USE DEF Inv
<1>1. GamenumExact'
  BY ForwardCount
<1>2. \A t \in GS : /\ gs'[t].list = gs[t].list
                    /\ gs'[t].connection = gs[t].connection
  BY DEF Forward, TypeOK
<1>3. GamesOnLiveServer'
  <2> SUFFICES ASSUME NEW g \in DOMAIN game'
               PROVE  gs'[game'[g].d2gs].list = "listed" /\ gs'[game'[g].d2gs].connection # NULL
    BY DEF GamesOnLiveServer
  <2>1. PICK t \in GS : t = game'[g].d2gs /\ gs[t].list = "listed" /\ gs[t].connection # NULL
    <3>1. CASE g = game_id + 1
      BY <3>1 DEF Forward, HasRoom
    <3>2. CASE g # game_id + 1
      <4>1. g \in DOMAIN game /\ game'[g] = game[g]
        BY <3>2 DEF Forward
      <4>2. game[g].d2gs \in GS
        BY <4>1 DEF TypeOK, GameRecord
      <4> QED
        BY <4>1, <4>2 DEF GamesOnLiveServer
    <3> QED
      BY <3>1, <3>2
  <2> QED
    BY <1>2, <2>1
<1>4. RegistryLinked' /\ LinkBound'
  BY <1>2 DEF RegistryLinked, LinkBound
<1> QED
  BY <1>1, <1>3, <1>4

\* What GameDestroy writes has the right type; it keeps the tables linked.
LEMMA DestroyTables ==
  ASSUME Inv, NEW g \in DOMAIN game, GameDestroy(g)
  PROVE  /\ gs' \in [GS -> GsRecord]
         /\ DOMAIN game' \subseteq DOMAIN game
         /\ \A h \in DOMAIN game' : game'[h] = game[h]
         /\ game' = [h \in DOMAIN game' |-> game'[h]]
         /\ drain' \in Nat
         /\ GamenumExact' /\ GamesOnLiveServer'
         /\ \A t \in GS : /\ gs'[t].list = gs[t].list
                          /\ gs'[t].connection = gs[t].connection
<1> USE DEF Inv
<1>0. PICK s \in GS : s = game[g].d2gs
  BY DEF TypeOK, GameRecord
<1>1. GamenumExact' /\ gs[s].gamenum > 0
  BY <1>0, DestroyCount
<1>2. /\ gs' \in [GS -> GsRecord]
      /\ \A t \in GS : /\ gs'[t].list = gs[t].list
                       /\ gs'[t].connection = gs[t].connection
  BY <1>0, <1>1 DEF GameDestroy, TypeOK
<1>3. drain' \in Nat
  BY <1>0 DEF GameDestroy, TypeOK, Positive
<1>4. /\ DOMAIN game' \subseteq DOMAIN game
      /\ \A h \in DOMAIN game' : game'[h] = game[h]
      /\ game' = [h \in DOMAIN game' |-> game'[h]]
  BY DEF GameDestroy, Without
<1>5. GamesOnLiveServer'
  BY <1>2, <1>4 DEF GamesOnLiveServer, TypeOK, GameRecord
<1> QED
  BY <1>1, <1>2, <1>3, <1>4, <1>5

\* The invariant holds when the server starts.
LEMMA InitInv == Init => Inv
<1> SUFFICES ASSUME Init PROVE Inv
  OBVIOUS
<1> USE ConstAssumption
<1>1. DOMAIN game = {}
  BY DEF Init
<1>2. TypeOK
  BY <1>1 DEF Init, TypeOK
<1>3. GamenumExact
  <2>1. \A s \in GS : OnServer(s) = {} /\ gs[s].gamenum = 0
    BY <1>1 DEF Init, OnServer
  <2> QED
    BY <2>1, FS_EmptySet DEF GamenumExact
<1>4. GamesOnLiveServer
  BY <1>1 DEF GamesOnLiveServer
<1>5. LinkBound /\ RegistryLinked
  BY DEF Init, LinkBound, RegistryLinked
<1> QED
  BY <1>2, <1>3, <1>4, <1>5 DEF Inv

\* Client packets.
LEMMA ClientInv ==
  ASSUME Inv, NEW c \in Client, ClientStep(c)
  PROVE  Inv'
<1> USE ConstAssumption
<1>0. TypeOK /\ GamesOnLiveServer
  BY DEF Inv
<1>1. ASSUME NEW nm \in Name, NEW v \in Verdict, CreateReqRefused(c, nm, v)
      PROVE  Inv'
  <2>1. TypeOK'
    BY <1>0, <1>1 DEF TypeOK, CreateReqRefused
  <2> QED
    BY <1>1, <2>1, SameTables DEF CreateReqRefused
<1>2. ASSUME NEW nm \in Name, NEW v \in Verdict, CreateReqQueued(c, nm, v)
      PROVE  Inv'
  <2>1. TypeOK'
    BY <1>0, <1>2 DEF TypeOK, CreateReqQueued
  <2> QED
    BY <1>2, <2>1, SameTables DEF CreateReqQueued
<1>3. ASSUME NEW nm \in Name, NEW v \in Verdict, CreateReqDequeued(c, nm, v)
      PROVE  Inv'
  <2>1. TypeOK'
    BY <1>0, <1>3 DEF TypeOK, CreateReqDequeued
  <2> QED
    BY <1>3, <2>1, SameTables DEF CreateReqDequeued
<1>4. ASSUME NEW nm \in Name, NEW s \in GS, CreateReqForwarded(c, nm, s)
      PROVE  Inv'
  <2>0. HasRoom(s)
    BY <1>4 DEF CreateReqForwarded, Accepted, Chosen
  <2>1. TypeOK'
    BY <1>0, <1>4, <2>0, ForwardTypes DEF TypeOK, CreateReqForwarded
  <2> QED
    BY <1>4, <2>0, <2>1, ForwardTables DEF CreateReqForwarded
<1>5. CASE on_client_cancelcreategame(c)
  <2>1. TypeOK'
    BY <1>0, <1>5 DEF TypeOK, on_client_cancelcreategame
  <2> QED
    BY <1>5, <2>1, SameTables DEF on_client_cancelcreategame
<1>6. CASE on_client_joingamereq(c)
  <2>0. \A g \in DOMAIN game : gs[game[g].d2gs].connection \in Link
    BY <1>0 DEF TypeOK, GameRecord, GamesOnLiveServer
  <2>a. /\ conn' \in [Client -> ConnRecord]
        /\ sq_seqno' \in Nat /\ sq_seqno' >= sq_seqno
    <3>1. conn \in [Client -> ConnRecord] /\ sq_seqno \in Nat
      BY <1>0 DEF TypeOK
    <3>2. conn' = conn \/ conn' = [conn EXCEPT ![c].state = "destroy"]
      BY <1>6 DEF on_client_joingamereq
    <3>3. sq_seqno' = sq_seqno \/ sq_seqno' = sq_seqno + 1
      BY <1>6 DEF on_client_joingamereq
    <3>4. CASE conn' = [conn EXCEPT ![c].state = "destroy"]
      BY <3>1, <3>3, <3>4
    <3> QED
      BY <3>1, <3>2, <3>3, <3>4
  <2>b. \A q \in sqlist' : q \in [seqno : 1..sq_seqno', kind : {"create", "join"},
                                client : Client, game : 1..game_id]
    BY <1>0, <1>6 DEF TypeOK, on_client_joingamereq
  <2>c. \A r \in reqs' : r \in [seqno : 1..sq_seqno', kind : {"create", "join"}, link : Link]
    BY <1>0, <1>6, <2>0 DEF TypeOK, on_client_joingamereq
  <2>1. TypeOK'
    BY <1>0, <1>6, <2>a, <2>b, <2>c DEF TypeOK, on_client_joingamereq
  <2> QED
    BY <1>6, <2>1, SameTables DEF on_client_joingamereq
<1>7. CASE ClientEnters(c) \/ ClientDies(c)
  <2>0. conn' \in [Client -> ConnRecord]
    BY <1>0, <1>7 DEF TypeOK, ClientEnters, ClientDies, ConnRecord
  <2>a. UNCHANGED <<link, gs, game, game_id, gqlist, gq_seqno, sqlist, sq_seqno, drain,
                    reqs, hosted>>
    BY <1>7 DEF ClientEnters, ClientDies
  <2>1. TypeOK'
    BY <1>0, <2>0, <2>a DEF TypeOK
  <2> QED
    BY <1>7, <2>1, SameTables DEF ClientEnters, ClientDies
<1> QED
  BY <1>1, <1>2, <1>3, <1>4, <1>5, <1>6, <1>7 DEF ClientStep, on_client_creategamereq

\* The iterations of gqlist_check_creategame.
LEMMA DrainInv ==
  ASSUME Inv, gqlist_check_creategame
  PROVE  Inv'
<1>0. TypeOK
  BY DEF Inv
<1>1. ASSUME NEW q \in gqlist, NEW s \in GS, DrainForwarded(q, s)
      PROVE  Inv'
  <2>0. HasRoom(s) /\ q.client \in Client /\ q.name \in Name
    BY <1>0, <1>1 DEF DrainForwarded, Accepted, Chosen, TypeOK
  <2>1. conn' \in [Client -> ConnRecord]
    <3>1. conn \in [Client -> ConnRecord] /\ conn' = [conn EXCEPT ![q.client].gamequeue = 0]
      BY <1>0, <1>1 DEF DrainForwarded, TypeOK
    <3> QED
      BY <3>1
  <2>2. Forward(q.client, q.name, s)
    BY <1>1 DEF DrainForwarded
  <2>a. drain > 0 /\ drain' = drain - 1 /\ gqlist' = gqlist \ {q}
    BY <1>1 DEF DrainForwarded
  <2>b. drain' \in Nat
    BY <1>0, <2>a DEF TypeOK
  <2>c. UNCHANGED <<link, gq_seqno, hosted>>
    BY <1>1 DEF DrainForwarded
  <2>3. TypeOK'
    BY <1>0, <2>0, <2>1, <2>2, <2>a, <2>b, <2>c, ForwardTypes DEF TypeOK
  <2> QED
    BY <1>1, <2>0, <2>2, <2>3, ForwardTables DEF DrainForwarded
<1>2. ASSUME NEW q \in gqlist, NEW v \in Verdict, DrainFailed(q, v)
      PROVE  Inv'
  <2>1. conn' \in [Client -> ConnRecord]
    BY <1>0, <1>2 DEF DrainFailed, TypeOK
  <2>a. drain > 0 /\ (drain' = drain \/ drain' = 0 \/ drain' = drain - 1)
    BY <1>2 DEF DrainFailed
  <2>2. drain' \in Nat
    BY <1>0, <2>a DEF TypeOK
  <2>b. /\ gqlist' \subseteq gqlist
        /\ UNCHANGED <<link, gs, game, game_id, gq_seqno, sqlist, sq_seqno, reqs, hosted>>
    BY <1>2 DEF DrainFailed
  <2>3. TypeOK'
    BY <1>0, <2>1, <2>2, <2>b DEF TypeOK
  <2> QED
    BY <1>2, <2>3, SameTables DEF DrainFailed
<1>3. CASE DrainEnds
  <2>1. TypeOK'
    BY <1>0, <1>3 DEF TypeOK, DrainEnds
  <2> QED
    BY <1>3, <2>1, SameTables DEF DrainEnds
<1> QED
  BY <1>1, <1>2, <1>3 DEF gqlist_check_creategame

\* Replies of game servers.
LEMMA ReplyInv ==
  ASSUME Inv, NEW r \in reqs, GsReply(r)
  PROVE  Inv'
<1> USE ConstAssumption
<1>0. TypeOK
  BY DEF Inv
<1>1. ASSUME NEW did \in GsGameId, CreateReplySucceed(r, did)
      PROVE  Inv'
  <2>1. DOMAIN game' = DOMAIN game
    BY <1>1 DEF CreateReplySucceed
  <2>a. \A g \in DOMAIN game :
          \/ game'[g] = game[g]
          \/ game'[g] = [game[g] EXCEPT !.created = TRUE, !.d2gs_gameid = did]
    BY <1>1 DEF CreateReplySucceed
  <2>2. \A g \in DOMAIN game : game'[g] \in GameRecord /\ game'[g].d2gs = game[g].d2gs
    <3> SUFFICES ASSUME NEW g \in DOMAIN game
                 PROVE  game'[g] \in GameRecord /\ game'[g].d2gs = game[g].d2gs
      OBVIOUS
    <3>1. game[g] \in GameRecord
      BY <1>0 DEF TypeOK
    <3>2. CASE game'[g] = game[g]
      BY <3>1, <3>2 DEF GameRecord
    <3>3. CASE game'[g] = [game[g] EXCEPT !.created = TRUE, !.d2gs_gameid = did]
      BY <3>1, <3>3 DEF GameRecord
    <3> QED
      BY <2>a, <3>2, <3>3
  <2>3. game' = [g \in DOMAIN game' |-> game'[g]]
    BY <1>1, <2>1 DEF CreateReplySucceed
  <2>4. hosted' \in [Link -> SUBSET GsGameId]
    BY <1>0, <1>1 DEF CreateReplySucceed, TypeOK
  <2>5. TypeOK'
    BY <1>0, <1>1, <2>1, <2>2, <2>3, <2>4 DEF TypeOK, CreateReplySucceed, OtherRequests
  <2>6. \A s \in GS : OnServer(s)' = OnServer(s)
    BY <2>1, <2>2 DEF OnServer
  <2>7. GamenumExact'
    BY <1>1, <2>6 DEF Inv, GamenumExact, CreateReplySucceed
  <2>8. GamesOnLiveServer'
    BY <1>1, <2>1, <2>2 DEF Inv, GamesOnLiveServer, CreateReplySucceed
  <2>9. RegistryLinked' /\ LinkBound'
    BY <1>1 DEF Inv, RegistryLinked, LinkBound, CreateReplySucceed
  <2> QED
    BY <2>5, <2>7, <2>8, <2>9 DEF Inv
<1>2. CASE CreateReplyFailed(r)
  <2>1. ASSUME NEW q \in Pending(r), Alive(q), GameDestroy(q.game)
        PROVE  Inv'
    <3>1. q.game \in DOMAIN game
      BY <2>1 DEF Alive
    <3>2. TypeOK'
      BY <1>0, <1>2, <2>1, <3>1, DestroyTables DEF TypeOK, CreateReplyFailed, OtherRequests
    <3>3. RegistryLinked' /\ LinkBound'
      BY <1>2, <2>1, <3>1, DestroyTables DEF Inv, RegistryLinked, LinkBound, CreateReplyFailed
    <3> QED
      BY <2>1, <3>1, <3>2, <3>3, DestroyTables DEF Inv
  <2>2. CASE UNCHANGED <<game, gs, drain>>
    <3>1. TypeOK'
      BY <1>0, <1>2, <2>2 DEF TypeOK, CreateReplyFailed, OtherRequests
    <3> QED
      BY <1>2, <2>2, <3>1, SameTables DEF CreateReplyFailed
  <2> QED
    BY <1>2, <2>1, <2>2 DEF CreateReplyFailed
<1>3. CASE JoinReply(r)
  <2>1. TypeOK'
    BY <1>0, <1>3 DEF TypeOK, JoinReply, OtherRequests
  <2> QED
    BY <1>3, <2>1, SameTables DEF JoinReply
<1> QED
  BY <1>1, <1>2, <1>3 DEF GsReply

\* Packets and the loss of game server connections.
LEMMA LinkInv ==
  ASSUME Inv, NEW k \in Link, LinkStep(k)
  PROVE  Inv'
<1> USE ConstAssumption
<1>0. TypeOK
  BY DEF Inv
<1>1. ASSUME NEW s \in GS, on_d2gs_initconn(k, s)
      PROVE  Inv'
  <2>1. TypeOK'
    BY <1>0, <1>1 DEF TypeOK, on_d2gs_initconn
  <2>2. GamenumExact' /\ GamesOnLiveServer'
    BY <1>1 DEF Inv, on_d2gs_initconn, GamenumExact, OnServer, GamesOnLiveServer
  <2>3. RegistryLinked' /\ LinkBound'
    BY <1>0, <1>1 DEF Inv, on_d2gs_initconn, RegistryLinked, LinkBound, TypeOK
  <2> QED
    BY <2>1, <2>2, <2>3 DEF Inv
<1>2. CASE on_d2gs_authreply(k)
  <2>0. PICK s \in GS : s = link[k].gs
    BY <1>2 DEF Inv, LinkBound, on_d2gs_authreply
  <2>1. game' = Without(game, GamesOf({s}))
    <3>1. gs[s].connection = NULL => GamesOf({s}) = {}
      BY DEF Inv, GamesOnLiveServer, GamesOf
    <3> QED
      BY <1>2, <2>0, <3>1 DEF on_d2gs_authreply, Replaced
  <2>2. /\ gs' \in [GS -> GsRecord]
        /\ gs'[s].connection = k /\ gs'[s].gamenum = 0 /\ gs'[s].list = "listed"
        /\ \A t \in GS \ {s} : gs'[t] = gs[t]
    <3>1. PICK x : x = [gs[s] EXCEPT !.connection = k, !.gamenum = 0, !.maxgame = 0]
      OBVIOUS
    <3>2. gs \in [GS -> GsRecord] /\ gs[s].list = "listed"
      BY <1>0, <1>2, <2>0 DEF on_d2gs_authreply, TypeOK
    <3>3. x \in GsRecord /\ x.connection = k /\ x.gamenum = 0 /\ x.list = "listed"
      BY <3>1, <3>2
    <3>4. gs' = [gs EXCEPT ![s] = x]
      BY <1>2, <2>0, <3>1, <3>2 DEF on_d2gs_authreply
    <3> QED
      BY <3>2, <3>3, <3>4
  <2>3. /\ DOMAIN game' \subseteq DOMAIN game
        /\ \A h \in DOMAIN game' : game'[h] = game[h] /\ game'[h].d2gs # s
        /\ game' = [h \in DOMAIN game' |-> game'[h]]
    BY <2>1 DEF Without, GamesOf
  <2>a. /\ link' \in [Link -> LinkRecord]
        /\ link'[k].state = "authed" /\ link'[k].gs = s
        /\ \A j \in Link \ {k} : link'[j] = link[j]
    <3>1. link \in [Link -> LinkRecord] /\ link' = [link EXCEPT ![k] = [link[k] EXCEPT !.state = "authed"]]
      BY <1>0, <1>2 DEF on_d2gs_authreply, TypeOK
    <3>2. [link[k] EXCEPT !.state = "authed"] \in LinkRecord
      BY <3>1
    <3> QED
      BY <2>0, <3>1, <3>2
  <2>4. TypeOK'
    BY <1>0, <1>2, <2>2, <2>3, <2>a DEF on_d2gs_authreply, TypeOK
  <2>5. GamenumExact'
    <3>1. /\ {s} \in SUBSET GS
          /\ \A t \in {s} : gs'[t].gamenum = 0
          /\ \A t \in GS \ {s} : gs'[t].gamenum = gs[t].gamenum
      BY <2>2
    <3> QED
      BY <1>0, <2>1, <3>1, ClearCount DEF Inv
  <2>6. GamesOnLiveServer'
    BY <1>0, <2>2, <2>3 DEF Inv, GamesOnLiveServer, TypeOK, GameRecord
  <2>7. RegistryLinked' /\ LinkBound'
    <3>1. ASSUME NEW t \in GS \ {s} PROVE gs[t].connection # k
      <4>1. link[k].gs = s /\ link[k].gs # t
        BY <2>0, <3>1
      <4>2. k # NULL
        BY ConstAssumption
      <4> QED
        BY <4>1, <4>2 DEF Inv, RegistryLinked
    <3>2. \A t \in GS : gs[t].connection \in Link \cup {NULL}
      BY <1>0 DEF TypeOK
    <3>3. ASSUME NEW t \in GS \ {s}, gs[t].connection # NULL
          PROVE  gs'[t] = gs[t] /\ link'[gs[t].connection] = link[gs[t].connection]
      BY <2>2, <2>a, <3>1, <3>2, <3>3
    <3>4. RegistryLinked'
      BY <2>2, <2>a, <3>3 DEF Inv, RegistryLinked
    <3>5. LinkBound'
      BY <2>a DEF Inv, LinkBound
    <3> QED
      BY <3>4, <3>5
  <2> QED
    BY <2>4, <2>5, <2>6, <2>7 DEF Inv
<1>3. ASSUME NEW m \in MaxGames, on_d2gs_setgsinfo(k, m)
      PROVE  Inv'
  <2>0. PICK s \in GS : s = link[k].gs
    BY <1>3 DEF Inv, LinkBound, on_d2gs_setgsinfo, Serves
  <2>1. /\ gs' \in [GS -> GsRecord]
        /\ \A t \in GS : /\ gs'[t].list = gs[t].list
                         /\ gs'[t].connection = gs[t].connection
                         /\ gs'[t].gamenum = gs[t].gamenum
    BY <1>0, <1>3, <2>0 DEF on_d2gs_setgsinfo, TypeOK
  <2>2. drain' \in Nat
    BY <1>0, <1>3, <2>0 DEF on_d2gs_setgsinfo, TypeOK, Positive
  <2>3. TypeOK'
    BY <1>0, <1>3, <2>1, <2>2 DEF on_d2gs_setgsinfo, TypeOK
  <2>4. GamenumExact'
    BY <1>3, <2>1 DEF Inv, on_d2gs_setgsinfo, GamenumExact, OnServer
  <2>5. GamesOnLiveServer'
    <3>1. game' = game
      BY <1>3 DEF on_d2gs_setgsinfo
    <3>2. \A g \in DOMAIN game : game[g].d2gs \in GS
      BY <1>0 DEF TypeOK, GameRecord
    <3> QED
      BY <2>1, <3>1, <3>2 DEF Inv, GamesOnLiveServer
  <2>6. link' = link
    BY <1>3 DEF on_d2gs_setgsinfo
  <2>7. LinkBound'
    BY <2>6 DEF Inv, LinkBound
  <2>8. RegistryLinked'
    <3> SUFFICES ASSUME NEW t \in GS, gs'[t].connection # NULL
                 PROVE  /\ gs'[t].list = "listed"
                        /\ link'[gs'[t].connection].gs = t
                        /\ link'[gs'[t].connection].state \in {"authed", "destroy"}
      BY DEF RegistryLinked
    <3>1. gs'[t].list = gs[t].list /\ gs'[t].connection = gs[t].connection
      BY <2>1
    <3> QED
      BY <2>6, <3>1 DEF Inv, RegistryLinked
  <2> QED
    BY <2>3, <2>4, <2>5, <2>7, <2>8 DEF Inv
<1>4. ASSUME NEW did \in GsGameId, on_d2gs_closegame(k, did)
      PROVE  Inv'
  <2>0. hosted' \in [Link -> SUBSET GsGameId]
    BY <1>0, <1>4 DEF on_d2gs_closegame, TypeOK
  <2>1. ASSUME NEW g \in Found(link[k].gs, did), GameDestroy(g)
        PROVE  Inv'
    <3>1. g \in DOMAIN game
      BY <2>1 DEF Found
    <3>2. TypeOK'
      BY <1>0, <1>4, <2>0, <2>1, <3>1, DestroyTables DEF TypeOK, on_d2gs_closegame
    <3>3. RegistryLinked' /\ LinkBound'
      BY <1>4, <2>1, <3>1, DestroyTables DEF Inv, RegistryLinked, LinkBound, on_d2gs_closegame
    <3> QED
      BY <2>1, <3>1, <3>2, <3>3, DestroyTables DEF Inv
  <2>2. CASE UNCHANGED <<game, gs, drain>>
    <3>1. TypeOK'
      BY <1>0, <1>4, <2>0, <2>2 DEF TypeOK, on_d2gs_closegame
    <3> QED
      BY <1>4, <2>2, <3>1, SameTables DEF on_d2gs_closegame
  <2> QED
    BY <1>4, <2>1, <2>2 DEF on_d2gs_closegame
<1>5. ASSUME NEW did \in GsGameId, NEW c \in Client, on_d2gs_updategameinfo(k, did, c)
      PROVE  Inv'
  <2>1. PICK g \in Found(link[k].gs, did) :
          \/ game' = [game EXCEPT ![g].chars = @ \cup {c}]
          \/ game' = [game EXCEPT ![g].chars = @ \ {c}]
    BY <1>5 DEF on_d2gs_updategameinfo
  <2>2. /\ DOMAIN game' = DOMAIN game
        /\ game' = [h \in DOMAIN game' |-> game'[h]]
        /\ \A h \in DOMAIN game : game'[h] \in GameRecord /\ game'[h].d2gs = game[h].d2gs
    <3>1. g \in DOMAIN game
      BY DEF Found
    <3>2. DOMAIN game' = DOMAIN game /\ game' = [h \in DOMAIN game' |-> game'[h]]
      BY <2>1
    <3>3. \A h \in DOMAIN game : h # g => game'[h] = game[h]
      BY <2>1
    <3>4. \/ game'[g] = [game[g] EXCEPT !.chars = @ \cup {c}]
          \/ game'[g] = [game[g] EXCEPT !.chars = @ \ {c}]
      BY <2>1, <3>1
    <3>5. game[g] \in GameRecord
      BY <1>0, <3>1 DEF TypeOK
    <3>6. game'[g] \in GameRecord /\ game'[g].d2gs = game[g].d2gs
      BY <3>4, <3>5 DEF GameRecord
    <3>7. \A h \in DOMAIN game : game[h] \in GameRecord
      BY <1>0 DEF TypeOK
    <3> QED
      BY <3>2, <3>3, <3>6, <3>7
  <2>3. TypeOK'
    BY <1>0, <1>5, <2>2 DEF TypeOK, on_d2gs_updategameinfo
  <2>4. \A s \in GS : OnServer(s)' = OnServer(s)
    BY <2>2 DEF OnServer
  <2>5. GamenumExact'
    BY <1>5, <2>4 DEF Inv, GamenumExact, on_d2gs_updategameinfo
  <2>6. GamesOnLiveServer'
    BY <1>5, <2>2 DEF Inv, GamesOnLiveServer, on_d2gs_updategameinfo
  <2>7. RegistryLinked' /\ LinkBound'
    BY <1>5 DEF Inv, RegistryLinked, LinkBound, on_d2gs_updategameinfo
  <2> QED
    BY <2>3, <2>5, <2>6, <2>7 DEF Inv
<1>6. CASE LinkDies(k)
  <2>1. TypeOK'
    BY <1>0, <1>6 DEF TypeOK, LinkDies
  <2>2. GamenumExact' /\ GamesOnLiveServer'
    BY <1>6 DEF Inv, LinkDies, GamenumExact, OnServer, GamesOnLiveServer
  <2>3. RegistryLinked' /\ LinkBound'
    BY <1>0, <1>6 DEF Inv, LinkDies, RegistryLinked, LinkBound, TypeOK
  <2> QED
    BY <2>1, <2>2, <2>3 DEF Inv
<1> QED
  BY <1>1, <1>2, <1>3, <1>4, <1>5, <1>6 DEF LinkStep

\* d2gslist_reload: a server that is dropped takes its games along.
LEMMA ReloadInv ==
  ASSUME Inv, NEW valid \in SUBSET GS, d2gslist_reload(valid)
  PROVE  Inv'
<1> USE ConstAssumption
<1>0. TypeOK
  BY DEF Inv
<1> DEFINE out == {s \in GS \ valid : gs[s].list = "listed"}
<1>1. /\ game' = Without(game, GamesOf(out))
      /\ link' = [k \in Link |-> IF \E s \in out : gs[s].connection = k
                                THEN [link[k] EXCEPT !.state = "destroy"] ELSE link[k]]
  BY DEF d2gslist_reload
<1>2. ASSUME NEW s \in out
      PROVE  gs'[s] = [list |-> "freed", connection |-> NULL, gamenum |-> 0, maxgame |-> 0]
  <2>1. gs[s] \in GsRecord /\ s \in GS
    BY <1>0 DEF TypeOK
  <2>2. gs'[s] = [[gs[s] EXCEPT !.connection = NULL, !.gamenum = 0, !.maxgame = 0] EXCEPT !.list = "freed"]
    BY DEF d2gslist_reload, Deactivated
  <2> QED
    BY <2>1, <2>2
<1>3. ASSUME NEW s \in GS \ out
      PROVE  /\ gs'[s].connection = gs[s].connection
             /\ gs'[s].gamenum = gs[s].gamenum
             /\ gs[s].list = "listed" => gs'[s].list = "listed"
  BY <1>0 DEF d2gslist_reload, TypeOK
<1>4. gs' \in [GS -> GsRecord]
  <2>1. \A s \in GS \ out : gs'[s] = gs[s] \/ gs'[s] = [gs[s] EXCEPT !.list = "listed"]
    BY DEF d2gslist_reload
  <2>2. ASSUME NEW s \in GS PROVE gs'[s] \in GsRecord
    <3>1. gs[s] \in GsRecord
      BY <1>0 DEF TypeOK
    <3>2. CASE s \in out
      BY <1>2, <3>2
    <3>3. CASE s \notin out /\ gs'[s] = gs[s]
      BY <3>1, <3>3
    <3>4. CASE s \notin out /\ gs'[s] = [gs[s] EXCEPT !.list = "listed"]
      BY <3>1, <3>4
    <3> QED
      BY <2>1, <3>2, <3>3, <3>4
  <2>3. gs' = [s \in GS |-> gs'[s]]
    BY DEF d2gslist_reload
  <2> QED
    BY <2>2, <2>3
<1>5. /\ DOMAIN game' \subseteq DOMAIN game
      /\ \A h \in DOMAIN game' : game'[h] = game[h] /\ game[h].d2gs \notin out
      /\ game' = [h \in DOMAIN game' |-> game'[h]]
  BY <1>1 DEF Without, GamesOf
<1>6. /\ link' \in [Link -> LinkRecord]
      /\ \A k \in Link : /\ link'[k].gs = link[k].gs
                         /\ link'[k].state = link[k].state \/ link'[k].state = "destroy"
  <2>1. \A k \in Link : link'[k] = link[k] \/ link'[k] = [link[k] EXCEPT !.state = "destroy"]
    BY <1>1
  <2>2. link' = [k \in Link |-> link'[k]]
    BY <1>1
  <2>3. ASSUME NEW k \in Link
        PROVE  /\ link'[k] \in LinkRecord
               /\ link'[k].gs = link[k].gs
               /\ link'[k].state = link[k].state \/ link'[k].state = "destroy"
    <3>1. link[k] \in LinkRecord
      BY <1>0 DEF TypeOK
    <3>2. CASE link'[k] = link[k]
      BY <3>1, <3>2
    <3>3. CASE link'[k] = [link[k] EXCEPT !.state = "destroy"]
      BY <3>1, <3>3
    <3> QED
      BY <2>1, <3>2, <3>3
  <2> QED
    BY <2>2, <2>3
<1>7. TypeOK'
  BY <1>0, <1>4, <1>5, <1>6 DEF d2gslist_reload, TypeOK
<1>8. GamenumExact'
  <2>1. out \in SUBSET GS
    OBVIOUS
  <2>2. \A s \in out : gs'[s].gamenum = 0
    BY <1>2
  <2> HIDE DEF out
  <2> QED
    BY <1>0, <1>1, <1>3, <2>1, <2>2, ClearCount DEF Inv
<1>9. GamesOnLiveServer'
  <2> HIDE DEF out
  <2> QED
    BY <1>0, <1>3, <1>5 DEF Inv, GamesOnLiveServer, TypeOK, GameRecord
<1>10. RegistryLinked'
  <2> SUFFICES ASSUME NEW s \in GS, gs'[s].connection # NULL
               PROVE  /\ gs'[s].list = "listed"
                      /\ link'[gs'[s].connection].gs = s
                      /\ link'[gs'[s].connection].state \in {"authed", "destroy"}
    BY DEF RegistryLinked
  <2>1. s \notin out
    BY <1>2
  <2>2. gs'[s].connection = gs[s].connection /\ gs[s].connection \in Link
    BY <1>0, <1>3, <2>1 DEF TypeOK
  <2>3. /\ gs[s].list = "listed" /\ link[gs[s].connection].gs = s
        /\ link[gs[s].connection].state \in {"authed", "destroy"}
    BY <2>2 DEF Inv, RegistryLinked
  <2> HIDE DEF out
  <2> QED
    BY <1>3, <1>6, <2>1, <2>2, <2>3
<1>11. LinkBound'
  <2>1. \A k \in Link : link'[k].state # "out" => link[k].state # "out"
    <3> SUFFICES ASSUME NEW k \in Link, NEW s \in out, gs[s].connection = k
                 PROVE  link[k].state # "out"
      BY <1>1
    <3> QED
      BY DEF Inv, RegistryLinked
  <2>2. \A k \in Link : link'[k].gs = link[k].gs
    BY <1>6
  <2> HIDE DEF out
  <2> QED
    BY <2>1, <2>2 DEF Inv, LinkBound
<1> QED
  BY <1>7, <1>8, <1>9, <1>10, <1>11 DEF Inv

\* d2cs_connlist_reap: the registry forgets exactly the connections that die.
LEMMA ReapInv ==
  ASSUME Inv, d2cs_connlist_reap
  PROVE  Inv'
<1> USE ConstAssumption
<1>0. TypeOK
  BY DEF Inv
<1> DEFINE ks == {k \in Link : link[k].state = "destroy"}
           down == ServersOf(ks)
<1>1. /\ game' = Without(game, GamesOf(down))
      /\ gs' = Deactivated(down)
      /\ link' = [k \in Link |-> IF k \in ks THEN [link[k] EXCEPT !.state = "gone"] ELSE link[k]]
      /\ reqs' \subseteq reqs /\ gqlist' \subseteq gqlist
      /\ UNCHANGED <<game_id, gq_seqno, sqlist, sq_seqno, drain>>
  BY DEF d2cs_connlist_reap
<1>2. /\ conn' \in [Client -> ConnRecord]
      /\ hosted' \in [Link -> SUBSET GsGameId]
  BY <1>0 DEF d2cs_connlist_reap, TypeOK
<1>3. down \in SUBSET GS
  BY DEF ServersOf
<1>4. /\ \A s \in down : gs'[s].connection = NULL /\ gs'[s].gamenum = 0
      /\ \A s \in GS \ down : gs'[s] = gs[s]
      /\ gs' \in [GS -> GsRecord]
  <2>1. \A s \in GS : gs'[s] = IF s \in down
            THEN [gs[s] EXCEPT !.connection = NULL, !.gamenum = 0, !.maxgame = 0] ELSE gs[s]
    BY <1>1 DEF Deactivated
  <2>2. gs' = [s \in GS |-> gs'[s]]
    BY <1>1 DEF Deactivated
  <2>3. ASSUME NEW s \in GS
        PROVE  /\ gs'[s] \in GsRecord
               /\ s \in down => gs'[s].connection = NULL /\ gs'[s].gamenum = 0
               /\ s \notin down => gs'[s] = gs[s]
    <3>1. gs[s] \in GsRecord
      BY <1>0 DEF TypeOK
    <3> HIDE DEF down
    <3>2. CASE s \in down
      <4>1. gs'[s] = [gs[s] EXCEPT !.connection = NULL, !.gamenum = 0, !.maxgame = 0]
        BY <2>1, <3>2
      <4>2. gs'[s] = [list |-> gs[s].list, connection |-> NULL, gamenum |-> 0, maxgame |-> 0]
        BY <3>1, <4>1
      <4> QED
        BY <3>1, <3>2, <4>2
    <3>3. CASE s \notin down
      BY <2>1, <3>1, <3>3
    <3> QED
      BY <3>2, <3>3
  <2> HIDE DEF down
  <2> QED
    BY <1>3, <2>2, <2>3
<1>5. /\ DOMAIN game' \subseteq DOMAIN game
      /\ \A h \in DOMAIN game' : game'[h] = game[h] /\ game[h].d2gs \notin down
      /\ game' = [h \in DOMAIN game' |-> game'[h]]
  <2> HIDE DEF down
  <2> QED
    BY <1>1 DEF Without, GamesOf
<1>6. /\ link' \in [Link -> LinkRecord]
      /\ \A k \in Link : /\ link'[k].gs = link[k].gs
                         /\ k \notin ks => link'[k].state = link[k].state
                         /\ k \in ks => link[k].state # "out"
  BY <1>0, <1>1 DEF TypeOK
<1>7. TypeOK'
  <2> HIDE DEF down, ks
  <2> QED
    BY <1>0, <1>1, <1>2, <1>4, <1>5, <1>6 DEF TypeOK
<1>8. GamenumExact'
  <2> HIDE DEF down
  <2> QED
    BY <1>0, <1>1, <1>3, <1>4, ClearCount DEF Inv
<1>9. GamesOnLiveServer'
  <2> HIDE DEF down
  <2> QED
    BY <1>0, <1>4, <1>5 DEF Inv, GamesOnLiveServer, TypeOK, GameRecord
<1>10. RegistryLinked'
  <2> SUFFICES ASSUME NEW s \in GS, gs'[s].connection # NULL
               PROVE  /\ gs'[s].list = "listed"
                      /\ link'[gs'[s].connection].gs = s
                      /\ link'[gs'[s].connection].state \in {"authed", "destroy"}
    BY DEF RegistryLinked
  <2>1. s \notin down
    BY <1>4
  <2>2. gs'[s] = gs[s] /\ gs[s].connection \in Link
    BY <1>0, <1>4, <2>1 DEF TypeOK
  <2>3. gs[s].list = "listed" /\ gs[s].connection \notin ks
    BY <2>1, <2>2 DEF Inv, RegistryLinked, ServersOf
  <2>4. /\ link[gs[s].connection].gs = s
        /\ link[gs[s].connection].state \in {"authed", "destroy"}
    BY <2>2 DEF Inv, RegistryLinked
  <2> HIDE DEF ks
  <2> QED
    BY <1>6, <2>2, <2>3, <2>4
<1>11. LinkBound'
  <2>1. \A k \in Link : link'[k].gs = link[k].gs /\ (link'[k].state # "out" => link[k].state # "out")
    BY <1>6
  <2> HIDE DEF ks
  <2> QED
    BY <2>1 DEF Inv, LinkBound
<1> QED
  BY <1>7, <1>8, <1>9, <1>10, <1>11 DEF Inv

\* The two timers.
LEMMA TimerInv ==
  /\ Inv /\ sqlist_check_timeout => Inv'
  /\ \A g \in DOMAIN game : Inv /\ d2cs_gamelist_check_voidgame(g) => Inv'
<1>1. ASSUME Inv, sqlist_check_timeout PROVE Inv'
  <2>1. TypeOK'
    BY <1>1 DEF Inv, TypeOK, sqlist_check_timeout
  <2> QED
    BY <1>1, <2>1, SameTables DEF sqlist_check_timeout
<1>2. ASSUME NEW g \in DOMAIN game, Inv, d2cs_gamelist_check_voidgame(g) PROVE Inv'
  <2>1. GameDestroy(g)
    BY <1>2 DEF d2cs_gamelist_check_voidgame
  <2>2. TypeOK'
    BY <1>2, <2>1, DestroyTables DEF Inv, TypeOK, d2cs_gamelist_check_voidgame
  <2>3. RegistryLinked' /\ LinkBound'
    BY <1>2, <2>1, DestroyTables
    DEF Inv, RegistryLinked, LinkBound, d2cs_gamelist_check_voidgame
  <2> QED
    BY <1>2, <2>1, <2>2, <2>3, DestroyTables DEF Inv
<1> QED
  BY <1>1, <1>2

\* Every handler, timer and reaper pass preserves the invariant.
LEMMA NextInv == Inv /\ [Next]_vars => Inv'
<1> SUFFICES ASSUME Inv, [Next]_vars PROVE Inv'
  OBVIOUS
<1>1. CASE UNCHANGED vars
  <2>1. TypeOK'
    BY <1>1 DEF Inv, TypeOK, vars
  <2> QED
    BY <1>1, <2>1, SameTables DEF vars
<1>2. CASE Next
  BY <1>2, ClientInv, DrainInv, ReplyInv, LinkInv, ReloadInv, ReapInv, TimerInv DEF Next
<1> QED
  BY <1>1, <1>2

-----------------------------------------------------------------------------
(* Theorems                                                                *)

\* The inductive invariant holds in every reachable state.
THEOREM Invariance == Spec => []Inv
BY InitInv, NextInv, PTL DEF Spec

\* The tables keep their types; in particular the unsigned slot counter of a
\* game server is never decremented below zero.
THEOREM TypeCorrect == Spec => []TypeOK
<1>1. Inv => TypeOK
  BY DEF Inv
<1> QED
  BY <1>1, Invariance, PTL

\* gamenum is the number of games on the list, in every reachable state.
THEOREM GamenumCorrect == Spec => []GamenumExact
<1>1. Inv => GamenumExact
  BY DEF Inv
<1> QED
  BY <1>1, Invariance, PTL

\* No game outlives the registration of its server.
THEOREM GamesLive == Spec => []GamesOnLiveServer
<1>1. Inv => GamesOnLiveServer
  BY DEF Inv
<1> QED
  BY <1>1, Invariance, PTL

\* The registry's connection pointers never dangle.
THEOREM RegistryCorrect == Spec => []RegistryLinked
<1>1. Inv => RegistryLinked
  BY DEF Inv
<1> QED
  BY <1>1, Invariance, PTL
=============================================================================
