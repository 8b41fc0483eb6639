------------------------------- MODULE Bnetd -------------------------------
(***************************************************************************)
(* bnetd for clients of one game: connections and account logins           *)
(* (src/src/bnetd/connection.cpp, handle_bnet.cpp), the channels and the    *)
(* games they enter and leave, the commands that move others, and the      *)
(* reload of the channel file (src/src/bnetd/command.cpp, server.cpp).      *)
(*                                                                         *)
(* bnetd is one thread; what interleaves are the packets of clients, the    *)
(* end of connections and the delayed connlist_reap: a connection that is   *)
(* to be destroyed stays, in its channel, its game and on its account,     *)
(* until its output queue has drained.                                     *)
(***************************************************************************)
EXTENDS BnetdChannels

CONSTANTS
  Status,       \* the game statuses clients ask for
  Use           \* bounds: a set of records [conns, live, list, names, games,
                \* auth, offices, moderate], one chosen for a behaviour: how
                \* many connections, games and channels there are at a time,
                \* the names clients ask for, the offices accounts have at the
                \* start and those that commands change, and whether channels
                \* get moderated

VARIABLES
  kick_old_login,  \* the preference
  use,             \* the bounds of this behaviour
  conn,            \* the connections
  acctconn,        \* the connection of an account, account_get_conn
  auth,            \* the offices that accounts hold, BNET\\auth\\...
  chan,            \* the channel list
  channellist_old, \* while channellist_reload runs, the channels there were and
                   \* their members who have not returned
  game             \* the games

vars == <<kick_old_login, use, conn, acctconn, auth, chan, channellist_old, game>>

Free == [state |-> "free", account |-> NULL, channel |-> NULL, game |-> NULL, tmpOP |-> NULL]

ASSUME BnetdAssumption ==
  /\ Status \subseteq {"open", "full", "loaded", "started", "done"}
  /\ \A u \in Use :
       /\ u.names \subseteq ChannelName /\ u.conns \in Nat
       /\ u.live \in 0..Cardinality(GameId) /\ u.games \subseteq GameName

Init ==
  /\ kick_old_login \in BOOLEAN
  /\ use \in Use
  /\ conn = [c \in Conn |-> Free]
  /\ acctconn = [a \in Account |-> NULL] /\ auth = use.auth
  /\ chan = ChannelFile /\ channellist_old = <<>>
  /\ game = [g \in GameId |-> NULL]

\* The world as it is, and a step to another one.
World == [conn |-> conn, chan |-> chan, game |-> game]

Becomes(w) ==
  /\ conn' = w.conn /\ chan' = w.chan /\ game' = w.game
  /\ UNCHANGED <<kick_old_login, use, acctconn, auth>>

\* The offices become A, and nothing else changes.
Holds(A) ==
  /\ (A \ auth) \union (auth \ A) \subseteq use.offices
  /\ auth' = A /\ UNCHANGED <<kick_old_login, use, conn, acctconn, chan, game>>

\* A packet or a command of c that the server looks at.
LoggedIn(c) == conn[c].state = "loggedin"

\* For a connection in a channel: the channel and its name, whether an account
\* or the connection has power in it, and whether an account is there too.
ChannelOf(c) == chan[Place(chan, conn[c].channel)]
NameOf(c) == ChannelOf(c).name
IsOfficer(c, a) == account_is_operator_or_admin(auth, a, NameOf(c))
IsChannelAdmin(c) == \E n \in {NULL, NameOf(c)} : account_get_auth_admin(auth, conn[c].account, n)
channel_conn_is_tmpOP(c, d) == d # NULL /\ conn[d].tmpOP = NameOf(c)
InSameChannel(c, a) == acctconn[a] # NULL /\ conn[acctconn[a]].channel = conn[c].channel

-----------------------------------------------------------------------------
(* Connections                                                             *)

\* sd_accept, conn_create and the first packet.
sd_accept(c) ==
  /\ conn[c].state = "free"
  /\ Cardinality({d \in Conn : conn[d].state # "free"}) < use.conns
  /\ Becomes([World EXCEPT !.conn[c].state = "connected"])

\* conn_login, conn_set_account: a connection that has the account already is
\* to be destroyed.
conn_set_account(c, a) ==
  /\ conn' = [d \in Conn |->
       IF d = c THEN [conn[c] EXCEPT !.state = "loggedin", !.account = a]
       ELSE IF d = acctconn[a] THEN [conn[d] EXCEPT !.state = "destroy"]
       ELSE conn[d]]
  /\ acctconn' = [acctconn EXCEPT ![a] = c]
  /\ UNCHANGED <<kick_old_login, use, auth, chan, game>>

\* _client_loginreq1 with the right password; the account may be logged in only
\* with kick_old_login.
_client_loginreq1(c, a) ==
  /\ conn[c].state = "connected"
  /\ acctconn[a] = NULL \/ kick_old_login
  /\ conn_set_account(c, a)

\* conn_set_state(destroy): the client closed the connection, a handler failed
\* or an admin killed it.
conn_close_read(c) ==
  /\ conn[c].state \in {"connected", "loggedin"}
  /\ Becomes([World EXCEPT !.conn[c].state = "destroy"])

\* Fault: the account forgets its connection whichever is destroyed.
DestroyClearsAccount(c) ==
  IF conn[c].account = NULL THEN acctconn
  ELSE [acctconn EXCEPT ![conn[c].account] = NULL]

\* conn_destroy: the account keeps a newer connection.
LogoutAccount(c) ==
  [a \in Account |-> IF acctconn[a] = c THEN NULL ELSE acctconn[a]]

\* connlist_reap when the output queue is empty, conn_destroy: out of the
\* channel, a disconnect reported for a started game, out of the game.
conn_destroy(c) ==
  LET w1 == conn_part_channel(World, c)
      id == conn[c].game
      w2 == IF id # NULL /\ game[id].status = "started"
            THEN game_set_self_report(w1, id, c) ELSE w1
      w3 == LeaveGame(w2, c)
  IN  /\ conn[c].state = "destroy"
      /\ conn' = [w3.conn EXCEPT ![c] = Free]
      /\ chan' = w3.chan /\ game' = w3.game
      /\ acctconn' = LogoutAccount(c)
      /\ UNCHANGED <<kick_old_login, use, auth>>

-----------------------------------------------------------------------------
(* Channels                                                                *)

\* _client_joinchannel; nothing happens in a channel of that full name.
_client_joinchannel(c, name) ==
  /\ LoggedIn(c) /\ (conn[c].channel # NULL => NameOf(c) # name)
  /\ Becomes(JoinOrVoid(auth, World, c, name)) /\ Len(chan') <= use.list

\* _handle_channel_command is _client_joinchannel outside of games.

\* A command of a client in a channel.
InChannel(c) == LoggedIn(c) /\ conn[c].channel # NULL

\* channel_rejoin asks for the name of the channel that was left.
channel_rejoin(c) ==
  /\ InChannel(c)
  /\ Becomes(JoinOrVoid(auth, conn_part_channel(World, c), c, NameOf(c))) /\ Len(chan') <= use.list

_client_leavechannel(c) ==
  /\ LoggedIn(c)
  /\ Becomes(conn_part_channel(World, c))

\* _handle_kick_command: the target is the connection of an account.
_handle_kick_command(c, a) ==
  /\ InChannel(c)
  /\ IsOfficer(c, conn[c].account) \/ channel_conn_is_tmpOP(c, c)
  /\ InSameChannel(c, a) /\ ~IsOfficer(c, a)
  /\ Becomes(conn_set_channel(auth, conn_part_channel(World, acctconn[a]), acctconn[a], Void).w)

\* _handle_ban_command: the connection of the account is sent away.
_handle_ban_command(c, a) ==
  LET w == channel_ban_user(World, conn[c].channel, a)
  IN  /\ InChannel(c)
      /\ IsOfficer(c, conn[c].account) /\ ~IsOfficer(c, a)
      /\ IF InSameChannel(c, a)
         THEN Becomes(conn_set_channel(auth, w, acctconn[a], Void).w) ELSE Becomes(w)

_handle_unban_command(c, a) ==
  /\ InChannel(c)
  /\ IsOfficer(c, conn[c].account) /\ a \in ChannelOf(c).banned
  /\ Becomes(channel_unban_user(World, conn[c].channel, a))

_handle_moderate_command(c) ==
  /\ InChannel(c) /\ NameOf(c) \in use.moderate
  /\ IsOfficer(c, conn[c].account)
  /\ Becomes(channel_set_flags(World, conn[c].channel))

-----------------------------------------------------------------------------
(* Offices                                                                 *)

\* The connection of a becomes operator of the channel of c, until it leaves.
TmpOP(c, a) ==
  /\ InSameChannel(c, a) /\ ~IsOfficer(c, a)
  /\ Becomes([World EXCEPT !.conn[acctconn[a]].tmpOP = NameOf(c)])

_handle_tmpop_command(c, a) ==
  /\ InChannel(c)
  /\ IsOfficer(c, conn[c].account) \/ channel_conn_is_tmpOP(c, c)
  /\ TmpOP(c, a)

\* _handle_op_command: an officer makes others operators of the channel for
\* good, a temporary operator makes them temporary ones.
_handle_op_command(c, a) ==
  /\ InChannel(c)
  /\ \/ IsOfficer(c, conn[c].account) /\ Holds(auth \union {<<a, "operator", NameOf(c)>>})
     \/ /\ ~IsOfficer(c, conn[c].account) /\ channel_conn_is_tmpOP(c, c)
        /\ TmpOP(c, a)

\* The offices an officer takes from a with _handle_deop_command; the one of a
\* channel admin only if c is one.
Demoted(c, a) ==
  {<<a, "operator", NameOf(c)>>} \union
  (IF IsChannelAdmin(c) THEN {<<a, "admin", NameOf(c)>>} ELSE {})

\* _handle_deop_command: offices in the channel go, and the temporary power.
_handle_deop_command(c, a) ==
  LET d == acctconn[a]
      A == IF IsOfficer(c, conn[c].account) THEN auth \ Demoted(c, a) ELSE auth
  IN  /\ InChannel(c)
      /\ IsOfficer(c, conn[c].account) \/ channel_conn_is_tmpOP(c, c)
      /\ auth \ A \subseteq use.offices
      /\ auth' = A
      /\ conn' = IF channel_conn_is_tmpOP(c, d) THEN [conn EXCEPT ![d].tmpOP = NULL] ELSE conn
      /\ UNCHANGED <<kick_old_login, use, acctconn, chan, game>>

_handle_aop_command(c, a) ==
  /\ InChannel(c) /\ IsChannelAdmin(c)
  /\ Holds(auth \union {<<a, "admin", NameOf(c)>>})

\* _handle_admin_command and _handle_operator_command, with + or -: offices on
\* the whole server, given and taken by whom the command groups let do that.
_handle_admin_command(c, a) ==
  /\ LoggedIn(c)
  /\ \E A \in {auth \union {<<a, "admin", NULL>>}, auth \ {<<a, "admin", NULL>>}} : Holds(A)

_handle_operator_command(c, a) ==
  /\ LoggedIn(c)
  /\ \E A \in {auth \union {<<a, "operator", NULL>>}, auth \ {<<a, "operator", NULL>>}} : Holds(A)

-----------------------------------------------------------------------------
(* The reload of the channel file                                          *)

\* The server's reload (SIGHUP, /rehash): channellist_reload sends everybody
\* away ...
Reload ==
  /\ use.names # {} /\ channellist_old = <<>>
  /\ Becomes(channellist_reload(World)) /\ channellist_old' = chan

\* ... and, before bnetd does anything else, lets the members return one by
\* one, those of the last channel first and of a channel the oldest first, to
\* the short name of the channel they were in.
Rejoin ==
  LET last == Len(channellist_old)
      ch == channellist_old[last]
  IN  /\ channellist_old # <<>>
      /\ IF ch.members = <<>>
         THEN Becomes(World) /\ channellist_old' = Front(channellist_old)
         ELSE /\ Becomes(conn_set_channel(auth, World, Last(ch.members), ch.short).w)
              /\ channellist_old' = [channellist_old EXCEPT ![last].members = Front(@)]

-----------------------------------------------------------------------------
(* Games                                                                   *)

\* The bound on games: a new one fits.
MayCreate(name) ==
  Available(World, name) # {} \/ Cardinality(GameId \ Unused(World)) < use.live

\* _client_joingame: the channel is left even if there is no such game.
_client_joingame(c, name, pass) ==
  LET w == conn_part_channel(World, c)
      open == Available(w, name)
  IN  /\ LoggedIn(c)
      /\ IF open = {} THEN Becomes(w)
         ELSE Becomes(conn_set_game(w, c, name, game[CHOOSE g \in open : TRUE].type, pass))

\* _client_startgame1 and _client_startgame3: a game started without leaving the
\* channel, or a new status for the game of the client.
_client_startgame1(c, name, type, status) ==
  /\ LoggedIn(c)
  /\ IF conn[c].game # NULL THEN Becomes(game_set_status(World, conn[c].game, status))
     ELSE status # "done" /\ MayCreate(name) /\ Becomes(conn_set_game(World, c, name, type, TRUE))

\* _client_startgame4: the channel is left first; an open game of the name is
\* not joined.
_client_startgame4(c, name, type, status) ==
  LET w == conn_part_channel(World, c)
      w1 == conn_set_game(w, c, name, type, TRUE)
      id == w1.conn[c].game
  IN  /\ LoggedIn(c) /\ status # "done"
      /\ IF conn[c].game # NULL THEN Becomes(game_set_status(w, conn[c].game, status))
         ELSE IF Available(w, name) # {} THEN Becomes(w)
         ELSE /\ MayCreate(name)
              /\ IF id # NULL /\ status \in {"full", "loaded"}
                 THEN Becomes(game_set_status(w1, id, status)) ELSE Becomes(w1)

\* _client_closegame; CLOSEGAME of Warcraft III only marks the game started.
_client_closegame(c) ==
  /\ LoggedIn(c) /\ conn[c].game # NULL
  /\ \/ Becomes(LeaveGame(World, c))
     \/ Becomes(game_set_status(World, conn[c].game, "started"))

\* _client_gamereport; a report without a result for its sender is dropped.
_client_gamereport(c) ==
  /\ LoggedIn(c) /\ conn[c].game # NULL
  /\ \E w \in {World, game_set_reported_results(World, conn[c].game, c)} : Becomes(LeaveGame(w, c))

-----------------------------------------------------------------------------
\* What clients and players make bnetd do.
Handle(c) ==
  \/ sd_accept(c) \/ conn_close_read(c) \/ conn_destroy(c)
  \/ channel_rejoin(c) \/ _client_leavechannel(c) \/ _handle_moderate_command(c)
  \/ _client_closegame(c) \/ _client_gamereport(c)
  \/ \E a \in Account :
       \/ _client_loginreq1(c, a)
       \/ _handle_kick_command(c, a) \/ _handle_ban_command(c, a)
       \/ _handle_unban_command(c, a)
       \/ _handle_tmpop_command(c, a) \/ _handle_op_command(c, a)
       \/ _handle_deop_command(c, a) \/ _handle_aop_command(c, a)
       \/ _handle_admin_command(c, a) \/ _handle_operator_command(c, a)
  \/ \E name \in use.names : _client_joinchannel(c, name)
  \/ \E name \in use.games :
       \/ \E pass \in BOOLEAN : _client_joingame(c, name, pass)
       \/ \E type \in {"normal", "ladder"}, status \in Status :
            \/ _client_startgame1(c, name, type, status)
            \/ _client_startgame4(c, name, type, status)

Next ==
  \/ Reload \/ Rejoin
  \/ \E c \in Conn : channellist_old = <<>> /\ Handle(c) /\ UNCHANGED channellist_old

Spec == Init /\ [][Next]_vars

-----------------------------------------------------------------------------
(* Properties                                                              *)

Live(c) == conn[c].state # "free"

\* An account and the connection that logged it in know each other, whatever
\* the order in which old connections end (conn_set_account, conn_destroy).
AccountLinked ==
  /\ \A c \in Conn : LoggedIn(c) => acctconn[conn[c].account] = c
  /\ \A a \in Account : acctconn[a] # NULL =>
       /\ conn[acctconn[a]].account = a
       /\ conn[acctconn[a]].state \in {"loggedin", "destroy"}

\* A channel lists exactly the connections that are in it, each once, also
\* where several channels have one name; a channel of users has a member; a
\* temporary operator is one of the channel it is in, so that leaving, a kick, a
\* reload or a channel of the same name created later never leaves the power
\* behind (channel_create, channel_add_connection, channel_del_connection,
\* conn_set_channel, channellist_reload).
ChannelsLinked ==
  /\ \A i \in DOMAIN chan :
       /\ IsInjective(chan[i].members)
       /\ \A c \in Conn : (c \in ToSet(chan[i].members)) <=> (conn[c].channel = chan[i].id)
       /\ chan[i].perm \/ chan[i].members # <<>>
  /\ \A c \in Conn :
       /\ conn[c].channel # NULL => Live(c) /\ conn[c].channel \in Ids(chan)
       /\ conn[c].tmpOP # NULL => conn[c].channel # NULL /\ conn[c].tmpOP = NameOf(c)

\* An account that is banned from a channel is not in it, whatever offices it
\* gets, whichever of the channels of one name it asks for and wherever a full
\* channel, a kick or a reload sends it, unless through an old connection that
\* waits to be destroyed (conn_set_channel, _handle_ban_command).
BansHold ==
  \A i \in DOMAIN chan : \A a \in chan[i].banned :
    acctconn[a] = NULL \/ conn[acctconn[a]].channel # chan[i].id

\* The names by which a channel can be found: its own, and the short names of
\* the channels that have its name; a copy that is for officers only, as what it
\* copies, may have been made for the short name of any channel.
AskedAs(list, ch) ==
  {ch.name} \union {list[i].short : i \in {j \in DOMAIN list : list[j].name = ch.name \/ ch.max = 0}}

\* Who comes into a channel in a step finds room there, or is an officer for a
\* name by which the channel can be found.
RoomStep ==
  \A c \in Conn : conn'[c].channel \notin {NULL, conn[c].channel} =>
    LET ch == chan'[Place(chan', conn'[c].channel)]
    IN  \/ ch.max = -1 \/ Len(ch.members) <= ch.max
        \/ \E name \in AskedAs(chan', ch) :
             account_is_operator_or_admin(auth, conn[c].account, name)

\* Nobody but an officer enters a full channel, also when it is a copy, a
\* channel of users or the one a reload sends back to.  (Officers may exceed the
\* limit, and they stay when a /deop takes their office, so the limit is none on
\* the members a channel has.)  (conn_set_channel,
\* channellist_find_channel_by_name)
RoomOnEntry == [][RoomStep]_vars

InGame(g) == {c \in Conn : conn[c].game = g}

\* The places of a game and its host are the connections that are in it.
PlacesExact(id) ==
  /\ \A c \in InGame(id) : \E i \in DOMAIN game[id].slots : game[id].slots[i].conn = c
  /\ game[id].ref > 0 => game[id].owner \in InGame(id)

\* A game counts the connections that are in it, and for each account as many
\* places as it has connections there: no connection points to a game that was
\* destroyed, and a game without players is one that was created for a player
\* it then refused.  Unless an old login may linger beside the new one, places
\* and host are exact (conn_set_game, game_add_player, game_del_player).
GamesLinked ==
  /\ \A c \in Conn : conn[c].game # NULL => Live(c) /\ game[conn[c].game] # NULL
  /\ \A id \in GameId : game[id] # NULL => LET g == game[id]  IN
       /\ g.ref = Cardinality(InGame(id))
       /\ \A a \in Account : Cardinality({i \in Here(g) : g.slots[i].account = a})
                             = Cardinality({c \in InGame(id) : conn[c].account = a})
       /\ g.ref = 0 => g.slots = <<>> /\ g.type = "ladder"
       /\ kick_old_login \/ PlacesExact(id)

\* At most one game of a name can be joined: a join by name is never ambiguous,
\* though finished and started games keep their name (game_create,
\* conn_set_game, game_set_status).
AvailableUnique == \A name \in GameName : Cardinality(Available(World, name)) <= 1

\* The results a player reported have an entry for every place of the game:
\* game_evaluate_results reads one per place, game_add_player may add a place
\* after the report (game_set_reported_results, game_add_player).
ReportsFit ==
  \A id \in GameId : game[id] # NULL =>
    \A i \in DOMAIN game[id].slots :
      game[id].slots[i].report \in {0, Len(game[id].slots)}

\* A started game from one state to the next: it is not opened again, nobody
\* comes or comes back to it, and what was reported stands.
Sealed(g, h) ==
  g.status \in {"started", "done"} =>
    /\ h.status \in {g.status, "done"} /\ DOMAIN h.slots = DOMAIN g.slots
    /\ \A i \in DOMAIN g.slots :
         /\ h.slots[i].account = g.slots[i].account
         /\ h.slots[i].conn \in {g.slots[i].conn, NULL}
         /\ g.slots[i].report # 0 => h.slots[i].report = g.slots[i].report

SealedStep ==
  \A id \in GameId :
    (game[id] # NULL /\ game'[id] # NULL /\ game'[id].name = game[id].name)
    => Sealed(game[id], game'[id])

\* From its start to its end a game keeps its players and their reports, so
\* that game_report rates those who played, whoever joins by its name, starts
\* it again, reports twice or is destroyed late; a place in memory that is used
\* again in one step is that of a game with another name
\* (gamelist_find_game_available, game_set_status, game_set_reported_results,
\* game_del_player, conn_set_game).
GamesSealed == [][SealedStep]_vars

=============================================================================
