--------------------------- MODULE BnetdChannels ---------------------------
(***************************************************************************)
(* The channels of bnetd (src/src/bnetd/channel.cpp) and the membership of  *)
(* a connection in a channel (conn_set_channel in                           *)
(* src/src/bnetd/connection.cpp).                                           *)
(*                                                                         *)
(* A channel name is a word and the numbers channel_format_name has put     *)
(* after it: <<"P", <<>>>> is "P", <<"P", <<2>>>> is "P-2".  Several        *)
(* channels may have one full name (the delivered channel file has such     *)
(* channels, for different client tags), so a connection points to its     *)
(* channel by an id, which stands for the place in memory.  Country and     *)
(* realm are those of one kind of client; clan channels and bots are left  *)
(* out.                                                                    *)
(***************************************************************************)
EXTENDS BnetdGames, SequencesExt

CONSTANTS
  ChannelFile,          \* the channels channellist_load_permanent makes
  UserFlags,            \* the flags of a channel that a user creates
  maxusers_per_channel, \* the preference; 0 for no limit
  Void                  \* CHANNEL_NAME_BANNED and CHANNEL_NAME_KICKED

\* A word and the numbers after it.
ChannelName == STRING \X Seq(Nat)

channel_format_name(short, n) == <<short[1], Append(short[2], n)>>

\* A channel without members; max is -1 when there is no limit.
Channel(id, name, short, perm, tag, flags, max) ==
  [id |-> id, name |-> name, short |-> short, perm |-> perm, tag |-> tag, flags |-> flags,
   max |-> max, members |-> <<>>, banned |-> {}]
ChannelFlags == {"bots", "opers", "log", "moderated"}
Channels == [id : Nat, name : ChannelName, short : ChannelName, perm : BOOLEAN,
             tag : STRING \union {NULL}, flags : SUBSET ChannelFlags, max : Nat \union {-1},
             members : Seq(Conn), banned : SUBSET Account]

\* What the model asks of the channel file: no short name is one that
\* channel_format_name makes, or the full name of another channel, and only The
\* Void has its names.  Then
\* channellist_find_channel_by_name, when it asks itself for a full name, meets
\* no channel that has it as short name.  Full names may occur more than once;
\* the delivered file (conf/channel.conf.in), where some do, is of this kind.
ASSUME BnetdChannelsAssumption ==
  /\ NULL \notin ChannelName /\ NULL \notin Nat
  /\ UserFlags \subseteq ChannelFlags /\ maxusers_per_channel \in Nat
  /\ Void \in ChannelName /\ Void[2] = <<>>
  /\ ChannelFile \in Seq(Channels)
  /\ \A i \in DOMAIN ChannelFile : LET ch == ChannelFile[i] IN
       /\ ch = Channel(i, ch.name, ch.short, TRUE, ch.tag, ch.flags, ch.max)
       /\ ch.short[2] = <<>> /\ (ch.short = Void <=> ch.name = Void)
       /\ (\E j \in DOMAIN ChannelFile : ChannelFile[j].name = ch.short) => ch.name = ch.short

Ids(list) == {list[i].id : i \in DOMAIN list}
Place(list, id) == CHOOSE i \in DOMAIN list : list[i].id = id
NewId(list) == CHOOSE id \in 1..(Len(list) + 1) : id \notin Ids(list)

Room(ch) == ch.max = -1 \/ Len(ch.members) < ch.max

\* channellist_find_channel_by_fullname for the name of the i-th channel: the
\* first that has it.
SameName(list, i) == {j \in DOMAIN list : list[j].name = list[i].name}
Special(list, i) == Min(SameName(list, i))

\* channel_create refuses a permanent channel whose full name is in use if the
\* first that has the name is for the same clients or has other parameters.
Clash(list, name, tag, flags, max) ==
  \E i \in DOMAIN list :
    /\ list[i].name = name /\ Special(list, i) = i
    /\ \/ list[i].tag = tag /\ tag # NULL
       \/ list[i].flags # flags \/ list[i].max # max

\* channel_create: the world after it and the channel, NULL if it is refused.
channel_create(w, name, short, perm, tag, flags, max) ==
  IF perm /\ Clash(w.chan, name, tag, flags, max) THEN [w |-> w, id |-> NULL]
  ELSE [w |-> [w EXCEPT !.chan = Append(@, Channel(NewId(@), name, short, perm, tag, flags, max))],
        id |-> NewId(w.chan)]

\* channellist_load_permanent on lines [name, short, tag, flags, max].
channellist_load_permanent(lines) ==
  FoldLeft(LAMBDA list, l :
             channel_create([chan |-> list], l.name, l.short, TRUE, l.tag, l.flags, l.max).w.chan,
           <<>>, lines)

\* channellist_find_channel_by_name: the first channel in the list that has the
\* name, or has it as short name; in its stead the first that has its full name,
\* if that has room.  If all are full, another copy of the last is created,
\* unless channel_create refuses.
channellist_find_channel_by_name(w, name) ==
  LET short == {i \in DOMAIN w.chan : w.chan[i].short = name}
      hits == {i \in DOMAIN w.chan :
                 w.chan[i].name = name \/ (i \in short /\ Room(w.chan[Special(w.chan, i)]))}
      last == w.chan[Special(w.chan, Max(short))]
  IN  IF hits # {} THEN [w |-> w, id |-> w.chan[Special(w.chan, Min(hits))].id]
      ELSE IF short = {} THEN [w |-> w, id |-> NULL]
      ELSE channel_create(w, channel_format_name(last.short, Cardinality(short) + 1),
                          last.short, TRUE, last.tag, last.flags, last.max)

\* channel_destroy takes an empty channel off the list.
channel_destroy(w, i) == [w EXCEPT !.chan = RemoveAt(@, i)]

\* A list without the first occurrence of c, which is on it.
Without(s, c) ==
  RemoveAt(s, CHOOSE i \in DOMAIN s : s[i] = c /\ \A j \in DOMAIN s : s[j] = c => i <= j)

\* Fault: the privilege of the first member outlives the membership.
MemberLeaves(w, id, c) ==
  LET i == Place(w.chan, id)
      w1 == [w EXCEPT !.chan[i].members = Without(@, c)]
  IN  IF w1.chan[i].members = <<>> /\ ~w1.chan[i].perm
      THEN channel_destroy(w1, i) ELSE w1

\* channel_del_connection; an empty channel a user created is destroyed.
channel_del_connection(w, id, c) ==
  LET i == Place(w.chan, id)
      w1 == [w EXCEPT !.chan[i].members = Without(@, c),
                      !.conn[c].tmpOP = IF @ = w.chan[i].name THEN NULL ELSE @]
  IN  IF w1.chan[i].members = <<>> /\ ~w1.chan[i].perm
      THEN channel_destroy(w1, i) ELSE w1

\* conn_part_channel, also conn_kick_channel, for a connection in a channel.
conn_part_channel(w, c) ==
  IF w.conn[c].channel = NULL THEN w
  ELSE [channel_del_connection(w, w.conn[c].channel, c) EXCEPT !.conn[c].channel = NULL]

-----------------------------------------------------------------------------
(* What accounts may do: A is a set of offices <<account, kind, name>>, where *)
(* name is a channel name, or NULL for an office on the whole server.         *)

account_get_auth_admin(A, a, name) == <<a, "admin", name>> \in A
account_get_auth_operator(A, a, name) == <<a, "operator", name>> \in A

account_is_operator_or_admin(A, a, name) ==
  \E n \in {NULL, name} : account_get_auth_admin(A, a, n) \/ account_get_auth_operator(A, a, n)

\* channel_add_connection, after conn_set_channel has checked the ban list: the
\* first member of a user's channel is its operator for now.
channel_add_connection(A, w, id, c) ==
  LET i == Place(w.chan, id)
      ch == w.chan[i]
      first == /\ ~ch.perm /\ ch.short # Void /\ ch.members = <<>>
               /\ ~account_is_operator_or_admin(A, w.conn[c].account, ch.name)
  IN  [w EXCEPT !.chan[i].members = <<c>> \o @,
                !.conn[c].channel = id,
                !.conn[c].tmpOP = IF first THEN ch.name ELSE @]

\* Fault: one member too many is let in.
RefusedLate(A, w, ch, c, name) ==
  \/ w.conn[c].account \in ch.banned
  \/ /\ ~account_is_operator_or_admin(A, w.conn[c].account, name)
     /\ ch.max # -1 /\ Len(ch.members) > ch.max

\* Fault: the ban list is not asked for who holds an office.
OfficersUnbanned(A, w, ch, c, name) ==
  /\ ~account_is_operator_or_admin(A, w.conn[c].account, name)
  /\ \/ w.conn[c].account \in ch.banned
     \/ ch.max # -1 /\ Len(ch.members) >= ch.max

\* The checks of conn_set_channel on a channel that exists.  What counts are the
\* offices for the name that was asked for; nobody else enters where max is 0.
Refused(A, w, ch, c, name) ==
  \/ w.conn[c].account \in ch.banned
  \/ /\ ~account_is_operator_or_admin(A, w.conn[c].account, name)
     /\ ch.max # -1 /\ Len(ch.members) >= ch.max

UserMax == IF maxusers_per_channel > 0 THEN maxusers_per_channel ELSE -1

\* conn_set_channel: the world after it and whether it succeeded.  The old
\* channel is left before the checks; a game is left if they succeed.
conn_set_channel(A, w, c, name) ==
  LET found == channellist_find_channel_by_name(w, name)
      w1 == conn_part_channel(found.w, c)
      ch == w1.chan[Place(w1.chan, found.id)]
      w2 == LeaveGame(w1, c)
      new == channel_create(w2, name, name, FALSE, NULL, UserFlags, UserMax)
  IN  IF found.id # NULL /\ found.id = w.conn[c].channel THEN [w |-> found.w, ok |-> TRUE]
      ELSE IF found.id = NULL
      THEN [w |-> channel_add_connection(A, new.w, new.id, c), ok |-> TRUE]
      ELSE IF Refused(A, w1, ch, c, name) THEN [w |-> w1, ok |-> FALSE]
      ELSE [w |-> channel_add_connection(A, w2, found.id, c), ok |-> TRUE]

\* conn_set_channel, and The Void if it fails: _client_joinchannel,
\* _handle_channel_command and channel_rejoin.
JoinOrVoid(A, w, c, name) ==
  LET r == conn_set_channel(A, w, c, name)
  IN  IF r.ok THEN r.w ELSE conn_set_channel(A, r.w, c, Void).w

\* channel_ban_user, which refuses for The Void, and channel_unban_user.
channel_ban_user(w, id, a) ==
  LET i == Place(w.chan, id)
  IN  IF w.chan[i].name = Void THEN w ELSE [w EXCEPT !.chan[i].banned = @ \union {a}]

channel_unban_user(w, id, a) == [w EXCEPT !.chan[Place(w.chan, id)].banned = @ \ {a}]

\* channel_set_flags as _handle_moderate_command calls it.
channel_set_flags(w, id) ==
  LET i == Place(w.chan, id)
      flip == {"moderated"}
  IN  [w EXCEPT !.chan[i].flags = (@ \ flip) \union (flip \ @)]

\* channellist_reload up to the second pass: everybody leaves, all channels are
\* destroyed and the file is read again.
channellist_reload(w) ==
  [w EXCEPT !.chan = ChannelFile,
            !.conn = [c \in Conn |-> [@[c] EXCEPT !.channel = NULL, !.tmpOP = NULL]]]

=============================================================================
