# A TLA+ verification project for the PvPGN servers

PvPGN emulates Battle.net. The repository builds three server programs:

* **bnetd** holds accounts, chat, games of the other products, and vouches for
  the realm logins of clients;
* **d2cs** (character/realm server) talks to clients and to game servers: it
  logs characters in, keeps the list of games and decides which game server
  runs which game;
* **d2dbs** (database server) stores characters for the game servers and
  locks a character while a game server has it.

The game servers themselves (d2gs) are not part of the repository. Each program
is a single-threaded event loop, so the concurrency is between programs: what
a handler reads may have been made stale by another connection's packets, by
a timer, or by the death of a connection. This project models the login of
players into a realm and the link between d2cs and bnetd, the game creation of
d2cs, the locking and storage of d2dbs, the character files d2cs and d2dbs
share, and the connections, channels and games of bnetd.

Paths below are relative to the repository (`src/`).

## Inventory

| Part | State | Operations | Talks to | What makes it correct |
|---|---|---|---|---|
| d2cs game list (`d2cs/game.cpp`) | games: name, server, created, server's game id, characters | create, confirm, add/remove character, destroy, idle purge | registry (slot counter), queue (drain on destroy) | names unique; every game on a live server; pending games end |
| d2cs server registry (`d2cs/d2gs.cpp`) | servers: connection, gamenum, maxgame | reload, active, deactive, choose | game list, connections | gamenum counts the games; pointer to a live connection; limit kept |
| d2cs create-game queue (`d2cs/gamequeue.cpp`) | waiting requests, mirrored by a pointer in the connection | create, destroy, drain | client handler | entry and pointer mirror each other; nobody is dropped silently |
| d2cs request queue (`d2cs/serverqueue.cpp`) | requests sent to game servers and bnetd | create, find, destroy, expire | reply handlers | a reply acts once, on the right game |
| d2cs handlers (`handle_d2cs.cpp`, `handle_d2gs.cpp`, `handle_init.cpp`) | - | one per packet type | all of the above | |
| d2cs connections (`connection.cpp`, `server.cpp`) | connection table, states, dead list | accept, state change, reap, timeout | registry, queue | what points to a connection goes with it |
| d2cs login (`handle_bnetd.cpp`, `s2s.cpp`, `bnetd.cpp`) | account, charname, charinfo of a connection | account login, character login | bnetd | one connection per character; charinfo matches charname |
| d2cs character files (`d2charfile.cpp`) | files shared with d2dbs | create, convert, delete | file system | never destroys a stored character |
| d2dbs lock table (`d2dbs/charlock.cpp`) | hash table and per-server lists of heap nodes | query, lock, unlock, unlock all | packets, connections | one holder; lists intact |
| d2dbs connections (`dbserver.cpp`) | connections with read and write buffers | accept, verify, close, time out, keepalive | lock table | one connection per server; locks go with it |
| d2dbs packets (`dbspacket.cpp`) | character files | get, save, lock, ladder | lock table, file system | mutual exclusion; no lost or partial save |
| d2dbs ladder, dupe check (`d2ladder.cpp`, `dbsdupecheck.cpp`) | ranking tables | update, save | file system | sorted tables |
| bnetd realms (`bnetd/realm.cpp`, `handle_d2cs.cpp`) | realm: active, connection | authenticate d2cs, activate, deactivate, reload, answer logins | d2cs | one served connection per realm, the one the realm knows |
| bnetd connections and accounts (`bnetd/connection.cpp`, `account.cpp`) | connection table, account's connection | accept, login, replace, destroy | everything in bnetd | account and connection know each other |
| bnetd channels (`channel.cpp`) | list of channels: members, bans, limit | join, leave, roll over, ban, operators, reload | connections | members and pointers mirror each other; limits and bans hold; power ends with membership |
| bnetd games (`game.cpp`) | games: places, host, status, reports | start, join, leave, report, destroy | connections, ladder | places match connections; names unambiguous; reports fit |
| bnetd matching, clans, friends, mail, ladder, tournament, storage, IRC/WOL/telnet front ends, Lua | see `PROJECT.json` | many | clients, files, SQL | not modelled |
| common, compat, win32, tools | - | - | - | libraries and stand-alone tools |

The behaviours that are hard to test are listed at their lines under `hazards`
in `PROJECT.json`. In short: answers that arrive after their request expired, or
after the client or the server connection is gone; a game server that
registers again while its old connection is open, and a d2cs that does; a
login that replaces another one which is destroyed later; a queue whose entries are
run long after they were checked; locks that must go with a connection
however it ends; requests that are run twice because their answer did not fit;
crashes between two file operations, and two programs working on one file.

## Modules

| Module | Models | Runs |
|---|---|---|
| `RealmGames` | d2cs: game list, registry, queues, client and server connections | `realm_games`, `realm_idle`, `realm_pending` |
| `CharLock` | what `charlock.h` promises (abstract) | |
| `CharLockTable` | `charlock.cpp`, down to the nodes and links | `charlock_table` |
| `Dbs` | d2dbs connections, requests and locks; EXTENDS `CharLock` | `dbs_*` |
| `CharSave` | d2dbs storage of one character, one file operation per step | `char_save`, `char_torn` |
| `RealmLink` | the connection between d2cs and bnetd, both ends | |
| `RealmLogin` | account and character login over it; EXTENDS `RealmLink` | `realm_login`, `realm_double` |
| `CharFiles` | the files of one name: d2cs, d2dbs and two game servers | `char_files` |
| `BnetdGames`, `BnetdChannels` | games and channels of bnetd, as operators on its memory | |
| `Bnetd` | connections, packets and commands; EXTENDS both | `bnetd_core` |
| `RealmGamesProofs`, `RealmQueueProofs` | theorems about `RealmGames`: registry and counters; queues, requests and names | |
| `CharLockProofs`, `DbsProofs`, `CharSaveProofs`, `CharFilesProofs` | theorems about the module of that name (`CharLockProofs`: `CharLockTable`) | |
| `RealmLoginProofs` | theorems about `RealmLink` and `RealmLogin` | |
| `BnetdProofs` | theorems about `Bnetd` | |
| `MC...` | instances for TLC | |

Definitions whose comment begins with "Fault" are wrong variants of the
definition after them. No specification uses them; they are put in its place to
see that the property concerned notices (`mutants` in `PROJECT.json`).

### RealmGames

A client connection has a state (`out`: not yet logged in a character,
`char_authed`, `destroy`: marked by `d2cs_conn_set_state`, `gone`) and its
`gamequeue` pointer, as the number of a queue entry. A game server connection
has a state and the server it was opened for. `gs` is the registry, with
`connection` NULL for an inactive server; `game` the game list, by id;
`gqlist` and `sqlist` the two queues. Session numbers, game ids and request
numbers are never reused, as in the code, short of the wrap of a 32-bit
counter.

Actions have the names of the handlers. `on_client_creategamereq` is split into
its four outcomes (refused, queued, silently dequeued, forwarded). The
character's fitness for the game (difficulty, dead hardcore character) is a
verdict chosen freely, as it depends on data nothing else here looks at.
`Forward` is everything the handler does when it accepts: the game, the slot,
the request, the packet.

`gqlist_check_creategame` is a loop called at the end of `game_destroy` and
`on_d2gs_setgsinfo`. It is the variable `drain`: the number of iterations left.
While it is positive nothing else can happen, so the loop is atomic as in the
code. It keeps the loop's peculiarities: failed attempts use up iterations;
an entry the handler itself destroyed ends the traversal; in `d2gs_deactive`,
where maxgame is zeroed first, it does nothing.

`d2cs_connlist_reap` is `d2cs_conn_destroy` for all marked connections, with
`d2gs_deactive` for those a server is registered through. Between marking
and reaping a connection is still found by session number; the drain and the
answers do find it, as in the code.

External: `reqs` is what game servers have received and not answered, `hosted`
the game ids a game server process uses. A server process lives as long as its
connection, answers in any order, with success or failure, or never, and may
number its games anew after a reconnect.

### CharLock, CharLockTable

`CharLock` says: a character is free or locked for one server; locks are taken
when free, released by their holder, or all at once. `CharLockTable` is
`charlock.cpp` on an explicit heap: chains per hash bucket as sequences,
the per-server lists through `gsqnext`/`gsqprev`, and the walk of
`cl_unlock_all_char_by_gsid` node by node. `cl_unlock_char` searches the chain
of a name for the first lock of that server and takes that place out of it
(`FoundLock`). A use of a freed node would be an
application outside a function's domain, or show in `NoDangling`. The
refinement mapping is what a search finds: `lock[c] <- LockOf(c)`.

### Dbs

A connection goes `out`, `new` (accepted), `verified` (first byte handled by
`dbs_verify_ipaddr`), `closed`. `serverid` belongs to the peer's address
(`get_preset_d2gsid`), so two connections with one id are one address. `peer`
says whether the game server behind it is alive; a dead one neither sends nor
reads. `wlen` counts the write buffer in units of a short reply (a reply with
data takes two). `request` is the packet at the head of the read buffer: when
its reply does not fit it stays and is handled again, *after* the locking was
done. `owned` is history: the characters the peer was given, or
asked the lock of when nobody else held it.

The uninitialised `gsid` of a failed load is a choice between the lock being
removed and being kept (`GetFailed`).

### CharSave

Each file (`charsave`, `charinfo`) has its final name, its backup, its temporary
name and, for saves, the `.d2s` import. Contents are a version number and
whether it is complete. `dbs_packet_savedata` starts a task whose steps are
the calls in their order: `fopen`, `fwrite`, `fclose`, rename to the backup
(failure only logged), rename to the final name (failure ends the request),
then `dbs_packet_fix_charinfo` (the same steps on the charinfo) when the save
calls for it, then the reply, or the whole request again when the reply does not
fit. `Crash` may come between any two steps. `Flush` holds the possible
outcomes of `fclose`: `{TRUE}` when buffered data always reaches the file,
`{TRUE, FALSE}` when it may not.

### RealmLink, RealmLogin

A link is one TCP connection. d2cs and bnetd each have their own state of it
(`dstate`, `bstate`), `tcp` says whether it still carries data, and `toD`, `toB`
hold what is under way, so one side may have given up a link the other still
serves. `bnetd_check` opens a new link when `bnetd_connection` is NULL.
`realm_deactive` marks the connection the realm record names;
`conn_destroy` of an old connection calls it even when the realm has a
new connection by then, and so takes that one down as well. `realm.conn` is
never cleared, as in the code. One realm is modelled, and `realmlist_reload`
keeps it.

A login is a request in `sqlist` and a packet to bnetd; the answer finds its
request by sequence number and its client by session number, either of which
may be gone. `charinfo` is set at the request, `charname` at the answer.
`d2cs_conn_set_state` keeps `dead` (connlist_dead), also when an answer sets the
state of a connection that was marked for destruction. The lookup by character
name walks a table that is keyed by session number: the relation `meets`
says for which pairs the two hashes agree. In the program that is practically
none, which is what `realm_double` takes; `realm_login` takes all, where the
check refuses as much as it ever can, or, with the check off, none. Packets carry the client they are for as a history field, which no
handler reads.

### CharFiles

One character name, whose save file is found by the name alone and whose info
file is found by account and name. `op` is the create or delete request d2cs
works on, `task` the save d2dbs works on, each at one of its file
operations; `sess` is the character in the memory of a game server, with a
version number that grows with every creation and every load. A restart may come
anywhere. Where the code has no defence, `mishaps` records that the
unfortunate case has happened: d2cs looked for the file between the two renames
of d2dbs (`gap`), a character was deleted while it was chosen, in a game or being
saved (`in_play`), the second rename did not happen (`unsaved`), a creation or
deletion stopped half way (`half`), a game server lost its lock and kept the
character (`cut`). `FilesMatch` and `NewestKept` name the mishaps without which
all is well. Each of them is necessary: with any one of them removed from a
property's list TLC finds a violation, so the lists are the exact exposure of
the code.

### BnetdGames, BnetdChannels, Bnetd

The memory of bnetd is a record of connections, channels and games. Each function
of `game.cpp` and `channel.cpp` that changes it is an operator from one such
record to another, so that a handler that calls several of them is their
composition and stays one step, as bnetd is one thread. Places in memory of
connections, channels and games are reused. A channel name is a word and the
numbers that `channel_format_name` has put after it. Full names are not unique:
`channel_create` refuses a permanent channel only if the first one of that full
name is for the same clients or has other parameters, and the delivered
`conf/channel.conf.in` has such pairs ("Diablo II-1" twice, the W3XP and WAR3
channels). So a connection points to its channel by an id, its place in memory,
while offices, temporary operators and requests go by name, as in the code
(`channellist_find_channel_by_name` takes the first channel of a name). A full
channel is copied once more for every request that finds all copies full.

`auth` is the set of offices of the accounts: admin or operator, of a channel's
name or (NULL) of the whole server. `/op`, `/aop`, `/deop`, `/admin` and
`/operator` change it at run time, `/deop` with both its branches. The limit of a
channel is looked at on entry only. An officer may enter a full channel and stays
when his office goes, so there is no limit on the ordinary members a channel has
at a time; `RoomOnEntry` is what the code does promise. A channel of users has
the limit `maxusers_per_channel`, if that is positive. `conn_set_channel` keeps the order of the code: look up (which may create a
copy), leave the old channel (which may destroy it), check, leave the game, enter.
`game_del_player` looks for the account, not the connection. A game that was
created for a player who may not join it (a ladder game without ten wins) stays
on the list with no players. A report is the length of its array. What a game is
rated by, its players and their reports, must stand from its start on:
`GamesSealed` compares a started game before and after each step, and takes
a place in memory that is freed and used again in one step for another game
when its name is another.
`kick_old_login` is a variable that never changes, so the run covers both values.

`channellist_reload` is the one function that is several steps. `Reload` is its
first half: everybody leaves and the file is read again. `channellist_old` is
the function's local list of the same name, and while it is not empty only
`Rejoin` can happen, which lets one member return, in the order of the code. So
the reload is atomic for everybody else, as in the code, and the properties are
checked after every single return.

## Runs

| Run | Instance | Shows |
|---|---|---|
| `realm_games` | 2 clients, 2 sessions, 2 names, no multi-login check; 1 server, limit 2, 3 requests, or 2 servers, limit 1 each, 2 requests (`Small`) | `GamenumExact`, `GamesOnLiveServer`, `RegistryLinked`, `QueueLinked`, `CreatePendingOnce`, `GameIdsUnique`, `RepliesFromOwner`, `NamesUnique` |
| `realm_idle` | 1 client, 1 server, 2 sessions, idle purge on | `PendingResolves` |
| `realm_pending` | the same, 1 session, idle purge off, servers always answer | **violates** `PendingResolves` |
| `realm_login` | four bounds: 7 links and 2 faults without clients; 2 clients, 2 characters and 4 requests on a good link; 2 requests and a fault; a link or a d2cs replaced under a request | `RealmLinked`, `AnswersMatch`, `DeadExact`, `SummaryOfChar`, `RealmComesBack`, `LeaversReaped` |
| `realm_double` | 2 clients, 2 characters, 4 requests on a good link; hashes that never agree | **violates** `OneLogin` |
| `charlock_table` | 3 names (2 collide), 3 servers (2 share a bucket), 3 nodes | `NoDangling`, `GsqLinked`, `UnlockAllComplete`, `OthersKept`, `ImplementsCharLock` |
| `dbs_locks` | 1 character, 3 servers (2 listed), 2 connections, buffer of 2 | `TypeOK`, `OneVerified`, `LocksBacked`, `Exclusive`, `LockSpec`, `DeadReleased` |
| `dbs_leak` | the same | **violates** `LockGranted` |
| `char_save` | 4 saves, writes reach the file | `Recoverable`, `NoPartialSave`, `NoRollback` |
| `char_torn` | 2 saves, `fclose` may lose data | **violates** `NoPartialSave` |
| `char_files` | 2 accounts, 2 game servers, 3 versions | `FilesMatch`, `NewestKept` |
| `bnetd_core` | 3 connections, 2 accounts (one has wins) with and without offices, two permanent channels of one full name with room for one, The Void, a user's channel, 2 games; both values of `kick_old_login` | `AccountLinked`, `ChannelsLinked`, `BansHold`, `RoomOnEntry`, `GamesLinked`, `AvailableUnique`, `ReportsFit`, `GamesSealed` |

What the properties say is in the comment above each of them.

### What the violations show

* `realm_pending`: `d2cs/README.md:330` says a game is "removed when all players leave
  or timeout". A create request that expires (`serverqueue.cpp:79`), or whose
  client left before the answer (`handle_d2gs.cpp:286`), leaves an unconfirmed
  game that holds its name and a slot. Only the idle purge removes it, and that
  is off by default (`max_game_idletime = 0`, `conf/d2cs.conf.in:216`).
* `dbs_leak`: after a failed load the lock is released under an uninitialised
  server id (`dbspacket.cpp:404`, `:460`, `:473`); and a get request whose
  reply did not fit finds its own lock when it is handled again (`:512`). The
  character stays locked until its server disconnects.
* `char_torn`: `d2dbs/README.md:309` says "Rename to final filename only after
  successful write"; the result of `fclose` (`dbspacket.cpp:119`, `:174`), which
  is where a full disk shows, is ignored.
* `realm_double`: `d2cs/README.md:1079` says "**Multi-Login Prevention**: Enable
  `check_multilogin` to prevent account sharing". `conn_check_multilogin`
  (`d2cs/connection.cpp:146`) is called at the request and again at bnetd's answer,
  but its lookup (`:182`) walks the list hashed by session number with the hash of
  the name, so it does not find the other connection, and both get the character.

Three more disagreements were met while modelling and are listed under `findings`
without a run of their own. A client in the queue that asks again while there is
no room is taken off the queue without an answer (`handle_d2cs.cpp:275-279`;
`d2cs/README.md:505` lists other reasons only): the action `CreateReqDequeued`.
`channellist_reload` copies a short name that may be absent.
`game_set_reported_results` clears the wrong entry of a bad report.

### Bounds

`MaxRequests` bounds the requests forwarded and queued over a behaviour, and
with it games and queue entries; a queued request keeps a number in reserve, so
a drain is never stopped by the bound. Three requests are enough for two games
that fill a server and a request that has to queue; two sessions for a
reconnection that overlaps its predecessor; one server game id, so that a
restarted server has to reuse it. `Small` is the constraint of `realm_games` that
looks at these sizes one beside the other: with server 1 alone up to three
requests and a limit of two, with two servers of limit 1 two requests, which
fill both. In `charlock_table` three nodes make a list with a middle, and the
mutations of either end were found with them. In `dbs_locks` two connections are
two servers or one that reconnects, and a buffer of two is full after two short
replies or one with data. `MaxVer = 4` covers save, repeat, failure and another
save of both kinds.

`Bound` of `RealmLogin` and `Use` of `Bnetd` are sets of bounds, one of which
Init picks, so that one run looks at several small instances instead of a large one
that would be too big. A fault (a lost link, a failed connect, a restart, a
reload, a client or player who leaves, an expiry) is counted; two faults overlap,
and each costs at most three reconnects, so seven links are enough for
`RealmComesBack` to be about a realm that can come back. Four requests are two
clients that each log in an account and ask for a character; two characters let
one connection ask for another before the first is answered. In `char_files`
three versions are a creation, a load that is saved and a second load that
competes with it, or a second creation. In `bnetd_core` three connections of
two accounts are an old login, a new one and somebody else; a room for one makes
the second visitor roll over to a copy; two lines of the file have one full name
for different clients, and a third is refused. `use.names` are the names clients ask
for: one that is copied, one of a user's channel, or both a copied one and the
name a copy gets, so that a channel of users and a copy have one name.
`use.offices` are the offices commands may give and take in a behaviour, `use.auth`
those accounts start with, `use.moderate` the channels `/moderate` is used in (its
flag is a parameter that `channel_create` compares). `use.list` bounds the channels
there are at a time: the code has no bound, since a copy may be made on every
request that finds all copies full. Two places for games make a started game and
an open one of the same name.

The runs of `RealmGames`, `CharSave`, `RealmLogin`, `CharFiles` and `Bnetd` do
not check for deadlock: when the bounds are used up and everybody has left, the
model stops. Symmetry is used for clients, sessions and names in the runs
without liveness, for accounts and servers in `char_files` and for connections
in `bnetd_core`; server ids, session numbers of `RealmLogin` and links are
ordered and are not symmetric.

### Fairness

`TimerFairness`: `server_loop` runs the timers and the reaper in every
pass, and a drain is a loop that ends. Timers get strong fairness because the
drain's steps, one handler in the code, disable them for a while. No fairness
of clients or game servers is assumed in `realm_idle`. `AnswerFairness`
(only in `realm_pending`) makes game servers answer what they can, so that
the violation is not due to a silent server. In `Dbs`, `dbs_check_timeout` runs
in every pass of `dbs_server_loop`, and the idle time passes; nothing is assumed
of peers. In `RealmLogin` (`FairSpec`) both servers run their loops: packets that
arrived are handled, sockets that were closed are read by d2cs, marked
connections are reaped, and d2cs keeps opening links. That bnetd notices a broken
link (`bnetd_read_fails`) is not assumed, since it may never be told;
the realm comes back all the same, because the new link replaces the old one.
Nothing is assumed of clients and players.

## Proofs

All hold for every value of the constants that satisfies the `ASSUME`s.
They are checked by TLAPS with Z3, Zenon and LS4.

**RealmGamesProofs** proves `Spec => []Inv` with
`Inv == TypeOK /\ LinkBound /\ GamenumExact /\ GamesOnLiveServer /\ RegistryLinked`,
from which `TypeCorrect`, `GamenumCorrect`, `GamesLive` and `RegistryCorrect`
follow. None of the last three is inductive alone. That gamenum is exact after
`d2gs_active` sets it to 0 needs that an inactive server has no games
(`GamesOnLiveServer`); that a game's server stays registered when a connection
is reaped needs that the registry points to the connection that is reaped
(`RegistryLinked`); that a decrement never wraps (`TypeOK`) needs
`GamenumExact` and the game that is being destroyed. `LinkBound` adds that a
connection past `out` belongs to a server. Lemmas give the effect on
`Cardinality(OnServer(s))` of adding a game, removing one and removing all
of a set of servers; there is one step per action.

**DbsProofs** proves
`Inv == TypeOK /\ VerifiedId /\ OneVerified /\ LocksBacked /\ Exclusive` and from
it `OneConnection`, `CrashRecovery`, `MutualExclusion`, and `ImplementsLock`
(`Spec => LockSpec`). `Exclusive` needs `OneVerified`: if a server had two
connections, closing one would release the locks of the other.
`VerifiedId` says that an open connection has a server id.

**CharSaveProofs** assumes `Flush = {TRUE}` and proves
`Inv == TypeOK /\ Imported /\ AllWhole /\ Progress /\ NoRollback /\ Recoverable`,
giving `Durability`, `Atomicity` and `Monotonicity`. `Progress` is the heart: it
says for the steps of a save what the task has achieved, namely that from
`fclose` on the temporary file is whole and new, and that from the second rename
on the data is in its place and stays there while the charinfo is brought up to
date. So the reply acknowledges a version that is stored, and the rename to the
backup moves a whole file that is not older than the acknowledged one.
`AllWhole` says that every file but the temporary ones is whole; `Imported` that
the imported copy is only there before the first load, when nothing was saved.

**RealmQueueProofs** builds on that invariant. `QueueCorrect` is proved with
`QueueInv`, which adds that two entries of the create-game queue never have the
same number: without it `gq_destroy` of one client's pointer could remove the
entry of another. For the requests the invariant is `RequestInv`: numbers of
requests are unique (`RequestSeqs`), a request and the packet of that number a
game server holds are of the same kind (`KindsAgree`), and the server of a
confirmed game still runs it under its id (`HostedExact`). From it follow `PendingOnceCorrect`, `RepliesCorrect` (a reply
for a game on the list comes from the connection of the game's server, although
the handlers never check it), `GameIdsCorrect` and `NamesCorrect`.

**CharLockProofs** proves `Inv == TypeOK /\ Chains /\ Lists /\ RankInv` and from it
`DanglingFree`, `LinksCorrect`, `UnlockAllCorrect`, `OthersCorrect` and
`TableImplements` (`Spec => ImplementsCharLock`). Links that lead both ways do not
say that every node can be reached from its head. That would be an
induction along the list; `RankInv` says it without one: there is a numbering of
the nodes that falls along the links, with the highest at the head and no gaps
in a bucket. A walk is then ahead of all locks of its server that are left, as
they rank no higher than the node it is at, and when it is at the end there are
none. A new lock goes to the head and gets a new highest rank; a removal keeps the
ranks.

**RealmLoginProofs** proves `Inv == TypeOK /\ LinkInv /\ LoginInv`. `LinkInv` says
what each end of a link implies for the other, and that d2cs has one link in
use; with it `RealmCorrect` holds: the connection of an active realm has the
realm (`RealmOwned`), so its destruction deactivates it. `LoginInv` says that
packets and requests of the same number are about the same client and the same
thing (`InFlight`), and that on a link replies and, behind them, requests travel
in the order of their numbers. This gives `AnswersCorrect`, and with
`SummaryOK`, for the latest character request only, the action property
`SummaryCorrect`. `DeadCorrect` is inductive with `ClientsOK`. None of it depends
on `HashMeets`.

**CharFilesProofs** proves `Inv == TypeOK /\ FilesInv /\ VersInv` for any number of
accounts, game servers and versions, and from it `FilesCorrect` and
`NewestCorrect`. `FilesInv` has the three situations of a name that was spared
the mishaps: nothing there and nobody about; one account's, and everyone who plays
or saves it does so as that account; d2cs half way with a creation or a deletion and
nobody else about. `VersInv` says that without a mishap at most one game server
holds the character, under the lock, with a version no file exceeds.

**BnetdProofs** proves the six invariants and the two action properties of `bnetd_core`
for any number of connections, accounts, names, offices and games, and for channel
files as described below, with any number of channels of equal full names. Since handlers
are compositions of operators on a world, so is the argument: `WorldInv(w, kick)`
holds between any two calls, there is a lemma for every operator
(`conn_part_channel`, `channel_add_connection`, `conn_set_channel`, `LeaveGame`,
`EnterGame`, `game_set_status`, reports, bans, operators, the reload), and a step
chains the lemmas of its calls. Some parts do not hold between calls and are
kept apart: a channel of users is empty between its creation and its first member
(`Kept(w, id)`), who was just banned is still there until he is sent away
(`Bans(w, ac, D)`), and who has just reported still has his place
(`Reports(g, p)`). The strengthenings that matter:

* `Stages`: who is in a channel or a game has an account. Without it a game could
  not find the place of who leaves.
* `Sole` and `Places`: without `kick_old_login` an account has one connection, so
  that `game_del_player`, which looks for the account, frees the right place.
  With it only the counts per account (`Counts`) hold.
* `Reports`: who has reported has left. It makes `ReportsFit` inductive: a new
  place is only appended when every place is taken, and then nobody has
  reported.
* `Distinct`: channels have ids of their own. Names are not unique, so members and
  pointers are compared by id (`Members`, `Listed`), and a temporary operator by
  the name of the channel he is in (`Operators`).
* `Shorts`: only The Void has one of its names, so that a kick or a ban ends
  there and not in a copy, and a user's channel has one name.
* `OldInv`: the members who are to return after a reload have logged in.

`BansHoldAlways` follows from `Bans` and `RoomOnEntryHolds` step by step: only
`conn_set_channel` brings somebody into a channel (`Enters`, `Stays`), the lookup
returns a channel with room, or one of the name that was asked for, or a new copy,
and `Refused` lets nobody but an officer for that name into a full one (`Admits`).
A copy of a channel that is for officers only (limit 0) is full from the start, so
who enters it has an office for the short name it was made for (`AskedAs`).

`GamesSealedHolds` follows step by step: every call but `EnterGame` lets each game
go on as it was, freed of a player, with a new status or report, or ends it
(`Lasts`, which is transitive), and `EnterGame` touches only a game that can be
joined or a free place (`Onward`). Of the invariant it takes the types and
`GameRefs`, and that a step which creates a game has room for one (`CreateRoom`).
The subtle case is `conn_set_game`, which leaves a game and may create one in
its place: its early return for a game of the same name is what makes the two
differ by name.

Assumptions on the constants are facts of the code or of the representation:
NULL is none of the values it stands beside; server ids are positive; the tables
of `charlock.cpp` have a length; connections and games are finite sets. What is
asked of the channel file is more than the code insists on, and less than the
delivered file (`conf/channel.conf.in`) gives: channels start empty, a short name
is no name that `channel_format_name` makes ("P-2"), nor the full name of another
channel, and only The Void has its names. Without this a request for one name may
lead on to a second lookup (`channel.cpp:1480`) under another. Every `ASSUME` is
evaluated by TLC on the runs.

Only model-checked: the liveness properties `PendingResolves`, `DeadReleased`,
`RealmComesBack` and `LeaversReaped`, which are beyond this prover, and the
violations. Every safety property of a passing run is also a theorem.

## Not modelled

* bnetd: automatic matching, clans, friends and mail, ladder and tournament,
  storage, the IRC, WOL, bot and telnet front ends, most commands, Lua. Of the
  modelled parts: passwords and versions (a request is accepted or refused),
  ip bans, flood control and idle timers of connections; clan channels, who may
  speak in a moderated channel, language variants, a limit set by the IRC MODE
  command (`irc.cpp:1613`); the evaluation of results when a game ends; realms
  that a reload adds or removes.
* d2cs: the conversion of a character, the ladder reset of an expired season,
  the packets that only ask (game list, game info, ladder, message of the
  day); keepalive and restart messages; socket buffering, so a packet pushed to a
  connection is received unless the connection dies.
* Most of the repository's lines are not control logic and have no model: vendored
  libraries (`src/src/json`, `src/src/common/pugixml.cpp`, `src/lib/fmt`), packet
  layouts (`*_protocol.h`), preferences and their parsing, formatting of
  replies and texts, storage back ends, platform layers, and the tools. The
  modules cover the functions that keep and change shared state in the two
  realm servers and in the core of bnetd.
* Failing allocations and the wrap of 32-bit counters of sessions, games
  and requests.
* d2dbs: ladder updates; what is in a character file (checksum failures are a
  failing save); a crash of the machine, which may lose data that was
  never synced; a rename that is not atomic (`compat/rename.h` removes the target
  first on Windows).
* In `CharSave` one game server sends saves in order; two servers, and d2cs on
  the same files, are the subject of `CharFiles`, where the writing of the
  temporary file is one step with the request, and the import of a `.d2s` file and
  the backup of the info file, which nothing reads, are left out.

## Plan

Done: the modules and runs above, and a proof of every invariant, action
property and refinement that a passing run checks.

1. bnetd: clans (invitations, creation votes), automatic matching, the
   evaluation of game results, each with its inductive invariant.
2. The d2dbs ladder as operators against a reference definition.
3. Action properties that would add to what is proved: who is kicked, and who is
   only overtaken, by a login; what a reload may not change.
