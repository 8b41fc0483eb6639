----------------------------- MODULE BnetdGames -----------------------------
(***************************************************************************)
(* The game list of bnetd (src/src/bnetd/game.cpp) and the membership of a  *)
(* connection in a game (conn_set_game in src/src/bnetd/connection.cpp).    *)
(*                                                                         *)
(* The operators change a world w, a record with the connections (w.conn),  *)
(* the channel list (w.chan) and the games (w.game).  A game is named by    *)
(* its place in memory, which is used again once the game is destroyed.     *)
(* Of the reported results only the length of the array is kept.            *)
(***************************************************************************)
EXTENDS Integers, Sequences, FiniteSets, FiniteSetsExt

CONSTANTS
  Conn,       \* places of connections in memory
  Account,
  GameName,
  GameId,     \* places of games in memory, a set of numbers
  Wins,       \* accounts with the ten wins a ladder game asks for
  NULL

\* A player's place: connections[i], players[i] and the number of entries of
\* reported_results[i], which is 0 when there is no report.
Slot(c, a) == [conn |-> c, account |-> a, report |-> 0]
Slots == [conn : Conn \cup {NULL}, account : Account, report : Nat]

Game == [name : GameName, type : {"normal", "ladder"},
         status : {"open", "full", "loaded", "started", "done"},
         slots : Seq(Slots), ref : Nat, owner : Conn \cup {NULL}]

ASSUME BnetdGamesAssumption ==
  /\ GameId \subseteq Nat /\ IsFiniteSet(GameId) /\ IsFiniteSet(Conn)
  /\ Wins \subseteq Account
  /\ NULL \notin Conn \cup Account \cup GameId \cup Game

Here(g) == {i \in DOMAIN g.slots : g.slots[i].conn # NULL}

\* game_choose_host: the first player with a connection.
game_choose_host(g) ==
  IF Here(g) = {} THEN g ELSE [g EXCEPT !.owner = g.slots[Min(Here(g))].conn]

\* Fault: a game can be joined until it is done.
AvailableUntilDone(w, name) ==
  {g \in GameId : w.game[g] # NULL /\ w.game[g].name = name /\ w.game[g].status # "done"}

\* gamelist_find_game_available with game_type_all, and with one type.
Available(w, name) ==
  {g \in GameId : w.game[g] # NULL /\ w.game[g].name = name
                  /\ w.game[g].status \notin {"started", "done"}}

gamelist_find_game_available(w, name, type) ==
  LET G == {g \in Available(w, name) : w.game[g].type = type}
  IN  IF G = {} THEN NULL ELSE CHOOSE g \in G : TRUE

\* Where the next game is created.
Unused(w) == {g \in GameId : w.game[g] = NULL}

NewGame(name, type) ==
  [name |-> name, type |-> type, status |-> "open", slots |-> <<>>, ref |-> 0, owner |-> NULL]

\* Fault: a place is never used twice.
PlayerAppended(g, c, a) ==
  game_choose_host([g EXCEPT !.slots = Append(@, Slot(c, a)), !.ref = @ + 1])

\* game_add_player for a connection that may join: the first place without a
\* connection or, if there is none, a new one.
game_add_player(g, c, a) ==
  LET free == DOMAIN g.slots \ Here(g)
      slots == IF free = {} THEN Append(g.slots, Slot(c, a))
               ELSE [g.slots EXCEPT ![Min(free)] = Slot(c, a)]
  IN  game_choose_host([g EXCEPT !.slots = slots, !.ref = @ + 1])

\* game_destroy frees the game, with all reports.
game_destroy(w, id) == [w EXCEPT !.game[id] = NULL]

\* Fault: the last player who leaves does not take the game along.
PlayerLeaves(w, id, c) ==
  LET g == w.game[id]
      places == {i \in Here(g) : g.slots[i].account = w.conn[c].account}
  IN  IF places = {} THEN w
      ELSE [w EXCEPT !.game[id] =
              game_choose_host([g EXCEPT !.slots[Min(places)].conn = NULL, !.ref = @ - 1])]

\* game_del_player: the first place of the connection's account that has a
\* connection, whichever connection that is.  The last one to leave has the
\* game reported and destroyed.
game_del_player(w, id, c) ==
  LET g == w.game[id]
      places == {i \in Here(g) : g.slots[i].account = w.conn[c].account}
  IN  IF places = {} THEN w
      ELSE IF g.ref < 2 THEN game_destroy(w, id)
      ELSE [w EXCEPT !.game[id] =
              game_choose_host([g EXCEPT !.slots[Min(places)].conn = NULL, !.ref = @ - 1])]

\* conn_set_game without a name.
LeaveGame(w, c) ==
  IF w.conn[c].game = NULL THEN w
  ELSE [game_del_player(w, w.conn[c].game, c) EXCEPT !.conn[c].game = NULL]

\* The rest of conn_set_game: the game joined, one of this type that is still
\* open or a new one if no game of the name is.  A game that was created for a
\* player who then may not join it stays.
EnterGame(w, c, name, type, pass) ==
  LET open == gamelist_find_game_available(w, name, type)
      create == open = NULL /\ Available(w, name) = {}
      id == IF create THEN Min(Unused(w)) ELSE open
      w1 == IF create THEN [w EXCEPT !.game[id] = NewGame(name, type)] ELSE w
      a == w.conn[c].account
  IN  IF id = NULL THEN w
      ELSE IF ~pass \/ (type = "ladder" /\ a \notin Wins) THEN w1
      ELSE [w1 EXCEPT !.game[id] = game_add_player(@, c, a), !.conn[c].game = id]

\* conn_set_game with a name; pass says whether the password is the game's.
conn_set_game(w, c, name, type, pass) ==
  LET id == w.conn[c].game
  IN  IF id # NULL /\ w.game[id].name = name THEN w
      ELSE EnterGame(LeaveGame(w, c), c, name, type, pass)

\* Fault: the status a client asks for is set.
StatusSet(w, id, status) == [w EXCEPT !.game[id].status = status]

\* game_set_status: a started game is not opened again, a finished one stays.
game_set_status(w, id, status) ==
  LET old == w.game[id].status
  IN  IF \/ old = "started" /\ status \in {"open", "full", "loaded"}
         \/ old = "done"
      THEN w ELSE [w EXCEPT !.game[id].status = status]

\* game_set_reported_results for the account of c, unless it has reported.
game_set_reported_results(w, id, c) ==
  LET g == w.game[id]
      places == {i \in DOMAIN g.slots : g.slots[i].account = w.conn[c].account}
  IN  IF places = {} \/ g.slots[Min(places)].report # 0 THEN w
      ELSE [w EXCEPT !.game[id].slots[Min(places)].report = Len(g.slots)]

\* game_set_self_report: a report that says nothing of the others.
game_set_self_report(w, id, c) == game_set_reported_results(w, id, c)

=============================================================================
