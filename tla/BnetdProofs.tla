----------------------------- MODULE BnetdProofs ----------------------------
(***************************************************************************)
(* Proofs about the connections, channels and games of bnetd, for any      *)
(* number of each.                                                         *)
(*                                                                         *)
(* The functions of bnetd are operators on a world, so the invariant is a  *)
(* predicate of a world too: a lemma for each operator, and the steps are  *)
(* their compositions.                                                     *)
(***************************************************************************)
EXTENDS Bnetd, SequenceTheorems, FiniteSetTheorems, WellFoundedInduction, TLAPS

-----------------------------------------------------------------------------
(* The inductive invariant                                                 *)

Maybe(S) == S \cup {NULL}

ConnRec ==
  [state : {"free", "connected", "loggedin", "destroy"}, account : Maybe(Account),
   channel : Maybe(Nat), game : Maybe(GameId), tmpOP : Maybe(ChannelName)]
Worlds == [conn : [Conn -> ConnRec], chan : Seq(Channels), game : [GameId -> Maybe(Game)]]

\* Types of the state.
TypeOK ==
  /\ kick_old_login \in BOOLEAN /\ use \in Use
  /\ conn \in [Conn -> ConnRec] /\ chan \in Seq(Channels) /\ game \in [GameId -> Maybe(Game)]
  /\ acctconn \in [Account -> Maybe(Conn)]
  /\ channellist_old \in Seq(Channels)

\* Who has logged in; nobody else is in a channel or in a game.
Stages(w) ==
  \A c \in Conn :
    /\ w.conn[c].state \in {"free", "connected"} => w.conn[c].account = NULL
    /\ w.conn[c].state = "loggedin" => w.conn[c].account # NULL
    /\ w.conn[c].account = NULL => w.conn[c].channel = NULL /\ w.conn[c].game = NULL

\* Unless a login may replace another, an account has one connection.
AccountInv ==
  /\ AccountLinked
  /\ kick_old_login \/ \A c \in Conn : conn[c].account # NULL => acctconn[conn[c].account] = c
Sole(w) ==
  \A c, d \in Conn : w.conn[c].account # NULL /\ w.conn[c].account = w.conn[d].account => c = d

\* Ids are unique, members and their pointers mirror each other, a temporary
\* operator is one of its channel, only The Void has one of its names, and a
\* channel of users has one name.
Distinct(w) == \A i, j \in DOMAIN w.chan : w.chan[i].id = w.chan[j].id => i = j
On(ch, c) == \E k \in DOMAIN ch.members : ch.members[k] = c
Members(w) ==
  \A i \in DOMAIN w.chan :
    /\ \A j, k \in DOMAIN w.chan[i].members : w.chan[i].members[j] = w.chan[i].members[k] => j = k
    /\ \A c \in Conn : On(w.chan[i], c) <=> w.conn[c].channel = w.chan[i].id
Listed(w) ==
  \A c \in Conn : w.conn[c].channel # NULL => \E i \in DOMAIN w.chan : w.chan[i].id = w.conn[c].channel
Operators(w) ==
  \A c \in Conn : w.conn[c].tmpOP # NULL =>
    /\ w.conn[c].channel # NULL
    /\ \A i \in DOMAIN w.chan : w.chan[i].id = w.conn[c].channel => w.chan[i].name = w.conn[c].tmpOP
Shorts(w) ==
  \A i \in DOMAIN w.chan :
    (w.chan[i].short = Void <=> w.chan[i].name = Void) /\ (w.chan[i].perm \/ w.chan[i].short = w.chan[i].name)
ChanLinks(w) == Distinct(w) /\ Members(w) /\ Listed(w) /\ Operators(w) /\ Shorts(w)

\* A channel of users other than this one has a member.
Kept(w, id) == \A i \in DOMAIN w.chan : w.chan[i].perm \/ w.chan[i].members # <<>> \/ w.chan[i].id = id

\* Who is banned is not there, other than the connections of D; ac is what the
\* accounts have for their connections.
Bans(w, ac, D) ==
  \A i \in DOMAIN w.chan : \A a \in w.chan[i].banned :
    ac[a] \in Conn \ D => w.conn[ac[a]].channel # w.chan[i].id

\* Who is in a game, and which places an account has.
In(w, id) == {c \in Conn : w.conn[c].game = id}
InAs(w, id, a) == {c \in In(w, id) : w.conn[c].account = a}
HereAs(g, a) == {i \in Here(g) : g.slots[i].account = a}

\* Every connection in a game is in one that exists.
GameRefs(w) == \A c \in Conn : w.conn[c].game # NULL => w.game[w.conn[c].game] # NULL

\* A game counts its connections, in all and for each account.
Counts(w, id) ==
  /\ w.game[id].ref = Cardinality(In(w, id))
  /\ \A a \in Account : Cardinality(HereAs(w.game[id], a)) = Cardinality(InAs(w, id, a))

\* A game without players never had one.
Fresh(g) == g.ref = 0 => g.slots = <<>> /\ g.type = "ladder"

\* Who has reported has left, unless it is the player of place p, and the
\* report was made for all places.
Reports(g, p) ==
  \A i \in DOMAIN g.slots : g.slots[i].report # 0 =>
    (g.slots[i].conn = NULL \/ i = p) /\ g.slots[i].report = Len(g.slots)

\* The places are those of the connections in the game, one of them the host.
Places(w, id) ==
  /\ \A i \in Here(w.game[id]) :
       /\ w.game[id].slots[i].conn \in In(w, id)
       /\ w.conn[w.game[id].slots[i].conn].account = w.game[id].slots[i].account
  /\ \A c \in In(w, id) : \E i \in DOMAIN w.game[id].slots : w.game[id].slots[i].conn = c
  /\ w.game[id].ref > 0 => w.game[id].owner \in In(w, id)

\* Open games have different names.
Open(w, id) == w.game[id] # NULL /\ w.game[id].status \notin {"started", "done"}
Unique(w) ==
  \A g, h \in GameId : Open(w, g) /\ Open(w, h) /\ w.game[g].name = w.game[h].name => g = h

\* kick is the preference kick_old_login.
Games(w, kick) ==
  /\ GameRefs(w) /\ Unique(w)
  /\ \A id \in GameId : w.game[id] # NULL =>
       Counts(w, id) /\ Fresh(w.game[id]) /\ Reports(w.game[id], 0) /\ (kick \/ Places(w, id))

\* The invariant of a world, as it is between any two calls of a handler.
WorldInv(w, kick) ==
  /\ w \in Worlds /\ Stages(w) /\ ChanLinks(w) /\ Games(w, kick)
  /\ kick \/ Sole(w)

\* The members who are to return have logged in.
OldInv ==
  \A i \in DOMAIN channellist_old : \A k \in DOMAIN channellist_old[i].members :
    conn[channellist_old[i].members[k]].account # NULL

Inv ==
  /\ TypeOK /\ AccountInv /\ OldInv
  /\ WorldInv(World, kick_old_login) /\ Kept(World, NULL) /\ Bans(World, acctconn, {})

-----------------------------------------------------------------------------
(* Numbers and sequences                                                   *)

\* The least of a set of numbers is one of them.
LEMMA MinFacts ==
  ASSUME NEW S \in SUBSET Nat, S # {}
  PROVE  Min(S) \in S /\ \A y \in S : Min(S) <= y
<1>1. IsWellFoundedOn(OpToRel(<, Nat), Nat)
  BY NatLessThanWellFounded
<1>2. PICK x \in S : \A y \in S : ~(<<y, x>> \in OpToRel(<, Nat))
  BY <1>1, WFMin, Zenon
<1>3. \A y \in S : ~(y < x)
  BY <1>2 DEF OpToRel
<1>4. \A y \in S : x <= y
  BY <1>3
<1> QED
  BY <1>4 DEF Min

\* A sequence without its i-th element, place by place.
LEMMA RemoveAtFacts ==
  ASSUME NEW S, NEW s \in Seq(S), NEW i \in DOMAIN s
  PROVE  /\ RemoveAt(s, i) \in Seq(S)
         /\ DOMAIN s = 1..Len(s) /\ Len(s) \in Nat
         /\ DOMAIN RemoveAt(s, i) = 1..(Len(s) - 1)
         /\ \A j \in 1..(Len(s) - 1) : RemoveAt(s, i)[j] = IF j < i THEN s[j] ELSE s[j + 1]
<1> DEFINE n == Len(s)
           u == SubSeq(s, 1, i - 1)
           v == SubSeq(s, i + 1, n)
           w == u \o v
<1>1. DOMAIN s = 1..n /\ n \in Nat /\ i \in 1..n /\ \A j \in 1..n : s[j] \in S
  BY LenProperties, ElementOfSeq
<1>2. /\ u \in Seq(S) /\ Len(u) = i - 1 /\ \A j \in 1..(i - 1) : u[j] = s[j]
  <2>1. \A j \in 1..(i - 1) : s[j] \in S
    BY <1>1
  <2>2. i - 1 \in Int /\ 1 \in Int
    BY <1>1
  <2>3. /\ u \in Seq(S) /\ Len(u) = IF 1 <= i - 1 THEN (i - 1) - 1 + 1 ELSE 0
        /\ \A j \in 1..((i - 1) - 1 + 1) : u[j] = s[1 + j - 1]
    BY <2>1, <2>2, SubSeqProperties
  <2> HIDE DEF u
  <2> QED
    BY <1>1, <2>3
<1>3. /\ v \in Seq(S) /\ Len(v) = n - i /\ \A j \in 1..(n - i) : v[j] = s[j + i]
  <2>1. \A j \in (i + 1)..n : s[j] \in S
    BY <1>1
  <2>2. i + 1 \in Int /\ n \in Int
    BY <1>1
  <2>3. /\ v \in Seq(S) /\ Len(v) = IF i + 1 <= n THEN n - (i + 1) + 1 ELSE 0
        /\ \A j \in 1..(n - (i + 1) + 1) : v[j] = s[(i + 1) + j - 1]
    BY <2>1, <2>2, SubSeqProperties
  <2> HIDE DEF v, n
  <2>4. n - (i + 1) + 1 = n - i /\ \A j \in 1..(n - i) : (i + 1) + j - 1 = j + i
    BY <1>1
  <2>5. \A j \in 1..(n - i) : v[j] = s[j + i]
    BY <2>3, <2>4
  <2>6. Len(v) = n - i
    BY <1>1, <2>3
  <2> QED
    BY <2>3, <2>5, <2>6
<1>4. RemoveAt(s, i) = w
  BY DEF RemoveAt
<1>5. /\ w \in Seq(S) /\ Len(w) = Len(u) + Len(v)
      /\ \A j \in 1..(Len(u) + Len(v)) : w[j] = IF j <= Len(u) THEN u[j] ELSE v[j - Len(u)]
  BY <1>2, <1>3, ConcatProperties
<1> HIDE DEF u, v, w, n
<1>6. Len(w) = n - 1 /\ DOMAIN w = 1..(n - 1)
  <2>1. Len(w) = n - 1
    BY <1>1, <1>2, <1>3, <1>5
  <2> QED
    BY <1>5, <2>1, LenProperties
<1>7. ASSUME NEW j \in 1..(n - 1) PROVE w[j] = IF j < i THEN s[j] ELSE s[j + 1]
  <2>1. w[j] = IF j <= i - 1 THEN u[j] ELSE v[j - (i - 1)]
    BY <1>1, <1>2, <1>3, <1>5
  <2>2. CASE j < i
    BY <1>1, <1>2, <2>1, <2>2
  <2>3. CASE ~(j < i)
    <3>1. j - (i - 1) \in 1..(n - i) /\ (j - (i - 1)) + i = j + 1
      BY <1>1, <2>3
    <3>2. v[j - (i - 1)] = s[j + 1]
      BY <1>3, <3>1
    <3> QED
      BY <1>1, <2>1, <2>3, <3>2
  <2> QED
    BY <2>2, <2>3
<1> QED
  BY <1>1, <1>4, <1>5, <1>6, <1>7 DEF n

\* A sequence with one more element, place by place.
LEMMA AppendFacts ==
  ASSUME NEW S, NEW s \in Seq(S), NEW e \in S
  PROVE  /\ Append(s, e) \in Seq(S)
         /\ Len(s) \in Nat /\ DOMAIN s = 1..Len(s)
         /\ DOMAIN Append(s, e) = 1..(Len(s) + 1)
         /\ \A i \in 1..Len(s) : Append(s, e)[i] = s[i]
         /\ Append(s, e)[Len(s) + 1] = e
BY AppendProperties, LenProperties

\* Max(S) is an element of a set of places that is not empty.
LEMMA MaxFacts ==
  ASSUME NEW n \in Nat, NEW S \in SUBSET (1..n), S # {}
  PROVE  Max(S) \in S
<1> DEFINE T == {n - x : x \in S}
<1>0. \A x \in S : n - x \in Nat
  OBVIOUS
<1>1. T \in SUBSET Nat /\ T # {}
  BY <1>0
<1>2. Min(T) \in T /\ \A y \in T : Min(T) <= y
  BY <1>1, MinFacts
<1>3. PICK x \in S : Min(T) = n - x
  BY <1>2
<1>4. \A y \in S : n - x <= n - y
  BY <1>2, <1>3
<1>5. \A y \in S : x >= y
  BY <1>4
<1> QED
  BY <1>5 DEF Max

\* A list without one that is on it once.
LEMMA WithoutFacts ==
  ASSUME NEW S, NEW s \in Seq(S), NEW k \in DOMAIN s,
         \A i, j \in DOMAIN s : s[i] = s[j] => i = j
  PROVE  /\ Without(s, s[k]) \in Seq(S)
         /\ \A i, j \in DOMAIN Without(s, s[k]) : Without(s, s[k])[i] = Without(s, s[k])[j] => i = j
         /\ \A e : (\E i \in DOMAIN Without(s, s[k]) : Without(s, s[k])[i] = e)
                     <=> e # s[k] /\ \E i \in DOMAIN s : s[i] = e
<1>1. DOMAIN s = 1..Len(s) /\ Len(s) \in Nat
  BY LenProperties
<1>2. Without(s, s[k]) = RemoveAt(s, k)
  <2>1. (CHOOSE i \in DOMAIN s : s[i] = s[k] /\ \A j \in DOMAIN s : s[j] = s[k] => i <= j) = k
    BY <1>1
  <2> QED
    BY <2>1 DEF Without
<1> DEFINE t == RemoveAt(s, k)
           n == Len(s)
<1>3. /\ t \in Seq(S)
      /\ DOMAIN s = 1..n /\ n \in Nat
      /\ DOMAIN t = 1..(n - 1)
      /\ \A j \in 1..(n - 1) : t[j] = IF j < k THEN s[j] ELSE s[j + 1]
  BY RemoveAtFacts
<1> HIDE DEF t, n
<1>4. \A j \in DOMAIN t : \E i \in DOMAIN s : i # k /\ t[j] = s[i] /\ i = IF j < k THEN j ELSE j + 1
  BY <1>3
<1>5. \A i, j \in DOMAIN t : t[i] = t[j] => i = j
  <2> SUFFICES ASSUME NEW i \in DOMAIN t, NEW j \in DOMAIN t, t[i] = t[j] PROVE i = j
    OBVIOUS
  <2>1. PICK a \in DOMAIN s : t[i] = s[a] /\ a = IF i < k THEN i ELSE i + 1
    BY <1>4
  <2>2. PICK b \in DOMAIN s : t[j] = s[b] /\ b = IF j < k THEN j ELSE j + 1
    BY <1>4
  <2>3. a = b
    BY <2>1, <2>2
  <2>4. i \in Int /\ j \in Int /\ k \in Int
    BY <1>3
  <2>5. CASE i < k
    BY <2>1, <2>2, <2>3, <2>4, <2>5
  <2>6. CASE ~(i < k)
    BY <2>1, <2>2, <2>3, <2>4, <2>6
  <2> QED
    BY <2>5, <2>6
<1>6. \A i \in DOMAIN s : i # k => \E j \in DOMAIN t : t[j] = s[i]
  <2> SUFFICES ASSUME NEW i \in DOMAIN s, i # k PROVE \E j \in DOMAIN t : t[j] = s[i]
    OBVIOUS
  <2>1. CASE i < k
    BY <1>3, <2>1
  <2>2. CASE i > k
    <3>1. i - 1 \in 1..(n - 1) /\ ~(i - 1 < k) /\ (i - 1) + 1 = i
      BY <1>3, <2>2
    <3>2. t[i - 1] = s[i]
      BY <1>3, <3>1
    <3> QED
      BY <1>3, <3>1, <3>2
  <2> QED
    BY <1>3, <2>1, <2>2
<1>7. \A e : (\E i \in DOMAIN t : t[i] = e) <=> e # s[k] /\ \E i \in DOMAIN s : s[i] = e
  BY <1>4, <1>6
<1>8. t = Without(s, s[k])
  BY <1>2 DEF t
<1> QED
  BY <1>3, <1>5, <1>7, <1>8

-----------------------------------------------------------------------------
(* Channels                                                                *)

\* A record with the fields of a world.
IsWorld(v) == v = [conn |-> v.conn, chan |-> v.chan, game |-> v.game]

\* The parts of a world.
LEMMA WorldFacts ==
  ASSUME NEW w \in Worlds
  PROVE  /\ w.conn \in [Conn -> ConnRec] /\ w.chan \in Seq(Channels) /\ w.game \in [GameId -> Maybe(Game)]
         /\ IsWorld(w)
         /\ \A c \in Conn :
              /\ w.conn[c] \in ConnRec /\ w.conn[c].account \in Maybe(Account)
              /\ w.conn[c].channel \in Maybe(Nat) /\ w.conn[c].tmpOP \in Maybe(ChannelName)
              /\ w.conn[c].game \in Maybe(GameId)
         /\ DOMAIN w.chan = 1..Len(w.chan) /\ Len(w.chan) \in Nat
         /\ \A i \in DOMAIN w.chan :
              /\ w.chan[i] \in Channels /\ w.chan[i].name \in ChannelName /\ w.chan[i].short \in ChannelName
              /\ w.chan[i].perm \in BOOLEAN /\ w.chan[i].max \in Nat \cup {-1}
              /\ w.chan[i].members \in Seq(Conn) /\ w.chan[i].banned \in SUBSET Account
              /\ w.chan[i].id \in Nat /\ w.chan[i].id # NULL /\ w.chan[i].name # NULL
              /\ w.chan[i].flags \in SUBSET ChannelFlags /\ w.chan[i].tag \in STRING \union {NULL}
<1>1. /\ w.conn \in [Conn -> ConnRec] /\ w.chan \in Seq(Channels) /\ w.game \in [GameId -> Maybe(Game)]
      /\ IsWorld(w)
  BY DEF Worlds, IsWorld
<1>2. \A c \in Conn :
        /\ w.conn[c] \in ConnRec /\ w.conn[c].account \in Maybe(Account)
        /\ w.conn[c].channel \in Maybe(Nat) /\ w.conn[c].tmpOP \in Maybe(ChannelName)
        /\ w.conn[c].game \in Maybe(GameId)
  BY <1>1 DEF ConnRec
<1>3. DOMAIN w.chan = 1..Len(w.chan) /\ Len(w.chan) \in Nat
  BY <1>1, LenProperties
<1>4. \A i \in DOMAIN w.chan : w.chan[i] \in Channels
  BY <1>1, <1>3, ElementOfSeq
<1>5. \A ch \in Channels :
        /\ ch.name \in ChannelName /\ ch.short \in ChannelName
        /\ ch.perm \in BOOLEAN /\ ch.max \in Nat \cup {-1}
        /\ ch.members \in Seq(Conn) /\ ch.banned \in SUBSET Account
        /\ ch.id \in Nat /\ ch.flags \in SUBSET ChannelFlags /\ ch.tag \in STRING \union {NULL}
  BY DEF Channels
<1>6. NULL \notin ChannelName /\ NULL \notin Nat
  BY BnetdChannelsAssumption
<1> QED
  BY <1>1, <1>2, <1>3, <1>4, <1>5, <1>6

\* The connections are as they were, but for the channel of c.
Moves(w, v, c) ==
  /\ v.game = w.game
  /\ \A d \in Conn :
       /\ v.conn[d].state = w.conn[d].state /\ v.conn[d].account = w.conn[d].account
       /\ v.conn[d].game = w.conn[d].game
       /\ d # c => v.conn[d].channel = w.conn[d].channel /\ v.conn[d].tmpOP = w.conn[d].tmpOP

\* An empty channel with an id of its own comes to the list: channel_create.
Created(w, v, ch) ==
  /\ IsWorld(v) /\ v.conn = w.conn /\ v.game = w.game /\ v.chan = Append(w.chan, ch)
  /\ ch \in Channels /\ ch.members = <<>> /\ ch.banned = {}
  /\ ch.id \notin Ids(w.chan) /\ (ch.short = Void <=> ch.name = Void) /\ (ch.perm \/ ch.short = ch.name)

LEMMA CreateChannel ==
  ASSUME NEW w \in Worlds, ChanLinks(w), NEW v, NEW ch, Created(w, v, ch)
  PROVE  /\ v \in Worlds /\ ChanLinks(v)
         /\ \A ac, D : Bans(w, ac, D) => Bans(v, ac, D)
         /\ \A id : Kept(w, id) /\ (ch.perm \/ ch.id = id) => Kept(v, id)
         /\ \A i \in DOMAIN w.chan : i \in DOMAIN v.chan /\ v.chan[i] = w.chan[i]
         /\ \E i \in DOMAIN v.chan : v.chan[i] = ch
         /\ \A i \in DOMAIN v.chan : v.chan[i].id = ch.id => v.chan[i] = ch
<1>c. /\ IsWorld(v) /\ v.conn = w.conn /\ v.game = w.game /\ v.chan = Append(w.chan, ch)
      /\ ch \in Channels /\ ch.members = <<>> /\ ch.banned = {}
      /\ ch.id \notin Ids(w.chan) /\ (ch.short = Void <=> ch.name = Void) /\ (ch.perm \/ ch.short = ch.name)
  BY DEF Created
<1> DEFINE n == Len(w.chan)
<1>0. /\ w.chan \in Seq(Channels) /\ DOMAIN w.chan = 1..n /\ n \in Nat
      /\ \A i \in DOMAIN w.chan : w.chan[i].id # NULL
  BY WorldFacts
<1>1. /\ Append(w.chan, ch) \in Seq(Channels)
      /\ DOMAIN Append(w.chan, ch) = 1..(n + 1)
      /\ \A i \in 1..n : Append(w.chan, ch)[i] = w.chan[i]
      /\ Append(w.chan, ch)[n + 1] = ch
  BY <1>0, <1>c, AppendFacts
<1>3. v \in Worlds
  BY <1>1, <1>c, WorldFacts DEF Worlds, IsWorld
<1>4. /\ DOMAIN v.chan = DOMAIN w.chan \cup {n + 1} /\ n + 1 \notin DOMAIN w.chan
      /\ \A i \in DOMAIN w.chan : v.chan[i] = w.chan[i]
      /\ v.chan[n + 1] = ch
  BY <1>0, <1>1, <1>c
<1> HIDE DEF n
<1>5. ch.id # NULL
  BY <1>c, BnetdChannelsAssumption DEF Channels
<1>6. \A i \in DOMAIN w.chan : w.chan[i].id # ch.id
  BY <1>c DEF Ids
<1>7. \A c \in Conn : w.conn[c].channel # ch.id
  BY <1>5, <1>6 DEF ChanLinks, Listed
<1>8. DOMAIN ch.members = {}
  BY <1>c
<1>9. \A c : ~On(ch, c)
  BY <1>8 DEF On
<1>10. Distinct(v)
  BY <1>4, <1>6 DEF ChanLinks, Distinct
<1>11. Members(v)
  <2> SUFFICES ASSUME NEW i \in DOMAIN v.chan
               PROVE  /\ \A j, k \in DOMAIN v.chan[i].members : v.chan[i].members[j] = v.chan[i].members[k] => j = k
                      /\ \A c \in Conn : On(v.chan[i], c) <=> v.conn[c].channel = v.chan[i].id
    BY DEF Members
  <2>1. CASE i \in DOMAIN w.chan
    BY <1>c, <1>4, <2>1 DEF ChanLinks, Members
  <2>2. CASE i = n + 1
    BY <1>c, <1>4, <1>7, <1>8, <1>9, <2>2
  <2> QED
    BY <1>4, <2>1, <2>2
<1>12. Listed(v) /\ Operators(v)
  <2>1. Listed(v)
    BY <1>c, <1>4 DEF ChanLinks, Listed
  <2>2. Operators(v)
    BY <1>c, <1>4, <1>7 DEF ChanLinks, Operators
  <2> QED
    BY <2>1, <2>2
<1>13. Shorts(v)
  BY <1>4, <1>c DEF ChanLinks, Shorts
<1>15. \A ac, D : Bans(w, ac, D) => Bans(v, ac, D)
  BY <1>4, <1>c DEF Bans
<1>16. \A id : Kept(w, id) /\ (ch.perm \/ ch.id = id) => Kept(v, id)
  BY <1>4, <1>c DEF Kept
<1>17. /\ \A i \in DOMAIN w.chan : i \in DOMAIN v.chan /\ v.chan[i] = w.chan[i]
       /\ \E i \in DOMAIN v.chan : v.chan[i] = ch
  BY <1>4
<1>18. \A i \in DOMAIN v.chan : v.chan[i].id = ch.id => v.chan[i] = ch
  BY <1>4, <1>6
<1> QED
  BY <1>3, <1>10, <1>11, <1>12, <1>13, <1>15, <1>16, <1>17, <1>18 DEF ChanLinks

\* There is an id that no channel of a list has.
LEMMA NewIdFacts ==
  ASSUME NEW list \in Seq(Channels)
  PROVE  NewId(list) \in Nat /\ NewId(list) \notin Ids(list)
<1> DEFINE n == Len(list)
<1>1. DOMAIN list = 1..n /\ n \in Nat
  BY LenProperties
<1> HIDE DEF n
<1>2. ~(1..(n + 1) \subseteq Ids(list))
  <2> SUFFICES ASSUME 1..(n + 1) \subseteq Ids(list) PROVE FALSE
    OBVIOUS
  <2>1. IsFiniteSet(1..n) /\ Cardinality(1..n) = n /\ IsFiniteSet(1..(n + 1)) /\ Cardinality(1..(n + 1)) = n + 1
    BY <1>1, FS_Interval
  <2> DEFINE f == [i \in 1..n |-> list[i].id]
  <2>2. f \in Surjection(1..n, Ids(list))
    BY <1>1 DEF Surjection, Ids
  <2> HIDE DEF f
  <2>4. IsFiniteSet(Ids(list)) /\ Cardinality(Ids(list)) <= n
    <3>1. IsFiniteSet(Ids(list)) /\ Cardinality(Ids(list)) <= Cardinality(1..n)
      BY <2>1, <2>2, FS_Surjection
    <3> QED
      BY <2>1, <3>1
  <2>5. Cardinality(1..(n + 1)) <= Cardinality(Ids(list))
    BY <2>4, FS_Subset
  <2>6. Cardinality(Ids(list)) \in Nat
    BY <2>4, FS_CardinalityType
  <2> QED
    BY <1>1, <2>1, <2>4, <2>5, <2>6
<1>3. PICK id \in 1..(n + 1) : id \notin Ids(list)
  BY <1>2
<1>4. NewId(list) \in 1..(n + 1) /\ NewId(list) \notin Ids(list)
  BY <1>3 DEF NewId, n
<1> QED
  BY <1>1, <1>4

\* A world with a channel more.
Added(w, ch) == [w EXCEPT !.chan = Append(w.chan, ch)]

\* Parameters for channel_create.
Fit(name, short, perm, tag, flags, max) ==
  /\ name \in ChannelName /\ short \in ChannelName /\ perm \in BOOLEAN
  /\ tag \in STRING \union {NULL} /\ flags \in SUBSET ChannelFlags /\ max \in Nat \union {-1}
  /\ (short = Void <=> name = Void) /\ (perm \/ short = name)

LEMMA AddedFacts ==
  ASSUME NEW w \in Worlds, NEW name, NEW short, NEW perm, NEW tag, NEW flags, NEW max,
         Fit(name, short, perm, tag, flags, max),
         NEW ch, ch = Channel(NewId(w.chan), name, short, perm, tag, flags, max)
  PROVE  /\ Created(w, Added(w, ch), ch)
         /\ ch.id = NewId(w.chan) /\ ch.name = name /\ ch.short = short /\ ch.perm = perm /\ ch.max = max
         /\ ch.id # NULL
<1>1. w.chan \in Seq(Channels) /\ IsWorld(w)
  BY WorldFacts
<1>2. PICK id : id = NewId(w.chan)
  OBVIOUS
<1>3. id \in Nat /\ id \notin Ids(w.chan)
  BY <1>1, <1>2, NewIdFacts
<1>4. <<>> \in Seq(Conn)
  BY EmptySeq
<1>5. ch = Channel(id, name, short, perm, tag, flags, max)
  BY <1>2
<1>6. /\ ch \in Channels /\ ch.members = <<>> /\ ch.banned = {}
      /\ ch.id = id /\ ch.name = name /\ ch.short = short /\ ch.perm = perm /\ ch.max = max
  BY <1>3, <1>4, <1>5 DEF Channel, Channels, Fit
<1>7. PICK v, s : v = Added(w, ch) /\ s = Append(w.chan, ch)
  OBVIOUS
<1>8. IsWorld(v) /\ v.conn = w.conn /\ v.game = w.game /\ v.chan = s
  BY <1>1, <1>7 DEF IsWorld, Added
<1>9. id # NULL
  BY <1>3, BnetdChannelsAssumption
<1> QED
  BY <1>2, <1>3, <1>6, <1>7, <1>8, <1>9 DEF Created, Fit

\* The first channel that has a name has it.
LEMMA SpecialFacts ==
  ASSUME NEW list \in Seq(Channels), NEW i \in DOMAIN list
  PROVE  Special(list, i) \in DOMAIN list /\ list[Special(list, i)].name = list[i].name
<1>1. DOMAIN list = 1..Len(list) /\ Len(list) \in Nat
  BY LenProperties
<1>2. SameName(list, i) \in SUBSET Nat /\ i \in SameName(list, i)
  BY <1>1 DEF SameName
<1>3. Min(SameName(list, i)) \in SameName(list, i)
  BY <1>2, MinFacts
<1> QED
  BY <1>3 DEF Special, SameName

\* A channel that is found for a name has it, or one of its name has it as short
\* name, or it is a copy of one that has it as short name.
Found(w, ch, name) ==
  \/ ch.name = name
  \/ \E i \in DOMAIN w.chan :
       w.chan[i].short = name /\ (w.chan[i].name = ch.name \/ (ch.members = <<>> /\ w.chan[i].name # name))

\* channellist_find_channel_by_name: what it returns is on the list, which it
\* has extended at most by a copy.
LEMMA FindFacts ==
  ASSUME NEW w \in Worlds, ChanLinks(w), NEW name \in ChannelName,
         NEW f, f = channellist_find_channel_by_name(w, name)
  PROVE  /\ f.w \in Worlds /\ f.w.conn = w.conn /\ f.w.game = w.game
         /\ ChanLinks(f.w)
         /\ \A ac, D : Bans(w, ac, D) => Bans(f.w, ac, D)
         /\ \A any : Kept(w, any) => Kept(f.w, any)
         /\ \A i \in DOMAIN w.chan : i \in DOMAIN f.w.chan /\ f.w.chan[i] = w.chan[i]
         /\ f.id # NULL => \E i \in DOMAIN f.w.chan : f.w.chan[i].id = f.id
         /\ name = Void => \A i \in DOMAIN f.w.chan : f.w.chan[i].id = f.id => f.w.chan[i].name = Void
         /\ \A i \in DOMAIN f.w.chan : f.w.chan[i].id = f.id => Found(w, f.w.chan[i], name)
<1> DEFINE short == {i \in DOMAIN w.chan : w.chan[i].short = name}
           hits == {i \in DOMAIN w.chan :
                      w.chan[i].name = name \/ (i \in short /\ Room(w.chan[Special(w.chan, i)]))}
           last == w.chan[Special(w.chan, Max(short))]
           copy == channel_format_name(last.short, Cardinality(short) + 1)
           ch == Channel(NewId(w.chan), copy, last.short, TRUE, last.tag, last.flags, last.max)
           made == hits = {} /\ short # {} /\ ~Clash(w.chan, copy, last.tag, last.flags, last.max)
<1>0. /\ DOMAIN w.chan = 1..Len(w.chan) /\ Len(w.chan) \in Nat /\ w.chan \in Seq(Channels)
      /\ \A i \in DOMAIN w.chan :
           /\ w.chan[i].name \in ChannelName /\ w.chan[i].short \in ChannelName
           /\ w.chan[i].max \in Nat \cup {-1} /\ w.chan[i].id # NULL
           /\ w.chan[i].flags \in SUBSET ChannelFlags /\ w.chan[i].tag \in STRING \union {NULL}
  BY WorldFacts
<1>v. \A i \in DOMAIN w.chan : w.chan[i].short = Void <=> w.chan[i].name = Void
  BY DEF ChanLinks, Shorts
<1>d. \A i, j \in DOMAIN w.chan : w.chan[i].id = w.chan[j].id => i = j
  BY DEF ChanLinks, Distinct
<1>f. /\ hits # {} => f.w = w /\ f.id = w.chan[Special(w.chan, Min(hits))].id
      /\ made => f.w = Added(w, ch) /\ f.id = NewId(w.chan)
      /\ hits = {} /\ ~made => f.w = w /\ f.id = NULL
  <2>1. f = IF hits # {} THEN [w |-> w, id |-> w.chan[Special(w.chan, Min(hits))].id]
            ELSE IF short = {} THEN [w |-> w, id |-> NULL]
            ELSE channel_create(w, copy, last.short, TRUE, last.tag, last.flags, last.max)
    BY DEF channellist_find_channel_by_name
  <2>2. channel_create(w, copy, last.short, TRUE, last.tag, last.flags, last.max) =
          IF Clash(w.chan, copy, last.tag, last.flags, last.max) THEN [w |-> w, id |-> NULL]
          ELSE [w |-> Added(w, ch), id |-> NewId(w.chan)]
    BY DEF channel_create, Added
  <2>3. PICK v, n, k : v = Added(w, ch) /\ n = NewId(w.chan) /\ k = w.chan[Special(w.chan, Min(hits))].id
    OBVIOUS
  <2>4. f = IF hits # {} THEN [w |-> w, id |-> k]
            ELSE IF short = {} THEN [w |-> w, id |-> NULL]
            ELSE IF Clash(w.chan, copy, last.tag, last.flags, last.max) THEN [w |-> w, id |-> NULL]
            ELSE [w |-> v, id |-> n]
    BY <2>1, <2>2, <2>3
  <2>5. PICK clash \in BOOLEAN : clash = Clash(w.chan, copy, last.tag, last.flags, last.max)
    BY DEF Clash
  <2>6. made = (hits = {} /\ short # {} /\ ~clash)
    BY <2>5
  <2>7. f = IF hits # {} THEN [w |-> w, id |-> k]
            ELSE IF short = {} \/ clash THEN [w |-> w, id |-> NULL]
            ELSE [w |-> v, id |-> n]
    BY <2>4, <2>5
  <2> HIDE DEF hits, short, copy, ch, last, made
  <2>8. /\ hits # {} => f.w = w /\ f.id = k
        /\ made => f.w = v /\ f.id = n
        /\ hits = {} /\ ~made => f.w = w /\ f.id = NULL
    <3>1. CASE hits # {}
      <4>1. f = [w |-> w, id |-> k] /\ ~made
        BY <2>6, <2>7, <3>1
      <4> QED
        BY <3>1, <4>1
    <3>2. CASE hits = {} /\ (short = {} \/ clash)
      <4>1. f = [w |-> w, id |-> NULL] /\ ~made
        BY <2>6, <2>7, <3>2
      <4> QED
        BY <3>2, <4>1
    <3>3. CASE hits = {} /\ short # {} /\ ~clash
      <4>1. f = [w |-> v, id |-> n] /\ made
        BY <2>6, <2>7, <3>3
      <4> QED
        BY <3>3, <4>1
    <3> QED
      BY <3>1, <3>2, <3>3
  <2> QED
    BY <2>3, <2>8
<1>2. CASE hits # {}
  <2>1. hits \in SUBSET Nat
    BY <1>0
  <2>2. Min(hits) \in hits
    BY <1>2, <2>1, MinFacts
  <2>3. PICK i \in DOMAIN w.chan : i = Min(hits) /\ (w.chan[i].name = name \/ w.chan[i].short = name)
    BY <2>2
  <2>4. PICK j \in DOMAIN w.chan : j = Special(w.chan, i) /\ w.chan[j].name = w.chan[i].name
    BY <1>0, SpecialFacts
  <2>5. f.w = w /\ f.id = w.chan[j].id
    BY <1>f, <1>2, <2>3, <2>4
  <2>6. \A k \in DOMAIN w.chan : w.chan[k].id = f.id => k = j
    BY <1>d, <2>5
  <2>7. name = Void => w.chan[j].name = Void
    BY <1>v, <2>3, <2>4
  <2>8. Found(w, w.chan[j], name)
    BY <2>3, <2>4 DEF Found
  <2> QED
    BY <2>5, <2>6, <2>7, <2>8
<1>3. CASE hits = {} /\ ~made
  <2>1. f.w = w /\ f.id = NULL
    BY <1>f, <1>3
  <2>2. \A i \in DOMAIN w.chan : w.chan[i].id # f.id
    BY <1>0, <2>1
  <2> QED
    BY <2>1, <2>2
<1>4. CASE made
  <2>1. f.w = Added(w, ch) /\ f.id = NewId(w.chan)
    BY <1>f, <1>4
  <2>2. short \in SUBSET (1..Len(w.chan)) /\ IsFiniteSet(short)
    <3>1. short \in SUBSET (1..Len(w.chan))
      BY <1>0
    <3>2. IsFiniteSet(1..Len(w.chan))
      BY <1>0, FS_Interval
    <3> QED
      BY <3>1, <3>2, FS_Subset
  <2>3. Max(short) \in short
    BY <1>0, <1>4, <2>2, MaxFacts
  <2>4. Cardinality(short) \in Nat
    BY <2>2, FS_CardinalityType
  <2>5. PICK i \in DOMAIN w.chan : i = Max(short) /\ w.chan[i].short = name /\ w.chan[i].name # name
    BY <1>4, <2>3
  <2>6. PICK j \in DOMAIN w.chan : last = w.chan[j] /\ w.chan[j].name = w.chan[i].name
    BY <1>0, <2>5, SpecialFacts
  <2>7. /\ last.short \in ChannelName /\ last.tag \in STRING \union {NULL}
        /\ last.flags \in SUBSET ChannelFlags /\ last.max \in Nat \union {-1}
    BY <1>0, <2>6
  <2>8. last.short # Void /\ name # Void
    BY <1>v, <2>5, <2>6
  <2>9. PICK k, l : k = Cardinality(short) + 1 /\ l = last
    OBVIOUS
  <2>10. copy = channel_format_name(l.short, k) /\ k \in Nat /\ l.short \in ChannelName
    BY <2>4, <2>7, <2>9
  <2> HIDE DEF short, hits, last, made
  <2>11. copy \in ChannelName /\ copy # Void
    <3>1. PICK a \in STRING, b \in Seq(Nat) : l.short = <<a, b>>
      <4>1. PICK z : z = l.short
        OBVIOUS
      <4>2. z \in STRING \X Seq(Nat)
        BY <2>10, <4>1 DEF ChannelName
      <4>3. z = <<z[1], z[2]>> /\ z[1] \in STRING /\ z[2] \in Seq(Nat)
        BY <4>2
      <4> QED
        BY <4>1, <4>3
    <3>2. copy = <<a, Append(b, k)>>
      BY <2>10, <3>1 DEF channel_format_name
    <3>3. Append(b, k) \in Seq(Nat) /\ Append(b, k) # <<>>
      BY <2>10, AppendProperties
    <3>4. Void[2] = <<>>
      BY BnetdChannelsAssumption
    <3>5. PICK q \in Seq(Nat) : q = Append(b, k) /\ q # <<>>
      BY <3>3
    <3>6. PICK p : p = <<a, q>>
      OBVIOUS
    <3>7. p \in STRING \X Seq(Nat) /\ p[2] = q
      BY <3>6
    <3>8. copy = p
      BY <3>2, <3>5, <3>6
    <3> HIDE DEF copy
    <3> QED
      BY <3>4, <3>5, <3>7, <3>8 DEF ChannelName
  <2> HIDE DEF copy
  <2>12. /\ Created(w, Added(w, ch), ch) /\ ch.id = NewId(w.chan) /\ ch.name = copy /\ ch.short = last.short
         /\ ch.perm = TRUE /\ ch.max = last.max /\ ch.id # NULL
    <3>1. PICK n, sh, perm, tag, flags, max :
            /\ n = copy /\ sh = last.short /\ perm = TRUE
            /\ tag = last.tag /\ flags = last.flags /\ max = last.max
      OBVIOUS
    <3>2. Fit(n, sh, perm, tag, flags, max)
      BY <2>7, <2>8, <2>11, <3>1 DEF Fit
    <3>3. ch = Channel(NewId(w.chan), n, sh, perm, tag, flags, max)
      BY <3>1
    <3> HIDE DEF ch
    <3>4. /\ Created(w, Added(w, ch), ch) /\ ch.id = NewId(w.chan) /\ ch.name = n /\ ch.short = sh
          /\ ch.perm = perm /\ ch.max = max /\ ch.id # NULL
      BY <3>2, <3>3, AddedFacts
    <3> QED
      BY <3>1, <3>4
  <2> HIDE DEF ch
  <2>13. PICK x, v : x = ch /\ v = f.w
    OBVIOUS
  <2>14. Created(w, v, x)
    BY <2>1, <2>12, <2>13
  <2>15. /\ v \in Worlds /\ ChanLinks(v)
         /\ \A ac, D : Bans(w, ac, D) => Bans(v, ac, D)
         /\ \A id : Kept(w, id) /\ (x.perm \/ x.id = id) => Kept(v, id)
         /\ \A m \in DOMAIN w.chan : m \in DOMAIN v.chan /\ v.chan[m] = w.chan[m]
         /\ \E m \in DOMAIN v.chan : v.chan[m] = x
         /\ \A m \in DOMAIN v.chan : v.chan[m].id = x.id => v.chan[m] = x
    BY <2>14, CreateChannel
  <2>16. v.conn = w.conn /\ v.game = w.game /\ x.members = <<>>
    BY <2>14 DEF Created
  <2>17. Found(w, x, name)
    BY <2>5, <2>16 DEF Found
  <2> QED
    BY <2>1, <2>8, <2>12, <2>13, <2>15, <2>16, <2>17
<1> QED
  BY <1>2, <1>3, <1>4

\* A list of channels after one of them has other members, and the list it
\* becomes, without that channel if it was destroyed.
Relists(w, s, i, m) ==
  /\ s \in Seq(Channels) /\ DOMAIN s = DOMAIN w.chan
  /\ \A j \in DOMAIN s : j # i => s[j] = w.chan[j]
  /\ s[i].members = m /\ s[i].id = w.chan[i].id /\ s[i].name = w.chan[i].name /\ s[i].short = w.chan[i].short
  /\ s[i].perm = w.chan[i].perm /\ s[i].max = w.chan[i].max /\ s[i].banned = w.chan[i].banned

Survives(s, v, i, gone) ==
  /\ \A j \in DOMAIN v.chan : \E k \in DOMAIN s : v.chan[j] = s[k] /\ (gone => k # i)
  /\ \A k \in DOMAIN s : k # i \/ ~gone => \E j \in DOMAIN v.chan : v.chan[j] = s[k]
  /\ Distinct(v)

Parted(w, v, c, i, m, s, gone) ==
  /\ gone \in BOOLEAN
  /\ w.chan[i].id = w.conn[c].channel
  /\ m \in Seq(Conn) /\ \A j, k \in DOMAIN m : m[j] = m[k] => j = k
  /\ \A e : (\E k \in DOMAIN m : m[k] = e) <=> e # c /\ On(w.chan[i], e)
  /\ Relists(w, s, i, m) /\ Survives(s, v, i, gone)
  /\ gone = (m = <<>> /\ ~w.chan[i].perm)
  /\ v \in Worlds /\ Moves(w, v, c)
  /\ v.conn[c].channel = NULL /\ v.conn[c].tmpOP = NULL

\* channel_del_connection and conn_part_channel, step by step.
LEMMA PartSteps ==
  ASSUME NEW w \in Worlds, ChanLinks(w), NEW c \in Conn, w.conn[c].channel # NULL,
         NEW v, v = conn_part_channel(w, c)
  PROVE  \E i \in DOMAIN w.chan : \E m, s, gone : Parted(w, v, c, i, m, s, gone)
<1>1. PICK n : n = w.conn[c].channel
  OBVIOUS
<1>2. PICK i \in DOMAIN w.chan : w.chan[i].id = n
  BY <1>1 DEF ChanLinks, Listed
<1>3. Place(w.chan, n) = i
  BY <1>2 DEF ChanLinks, Distinct, Place
<1>4. /\ w.conn \in [Conn -> ConnRec] /\ w.chan \in Seq(Channels) /\ w.chan[i] \in Channels
      /\ w.chan[i].members \in Seq(Conn) /\ w.conn[c] \in ConnRec /\ IsWorld(w)
      /\ i \in 1..Len(w.chan) /\ DOMAIN w.chan = 1..Len(w.chan) /\ Len(w.chan) \in Nat
      /\ w.chan[i].perm \in BOOLEAN
  BY <1>2, WorldFacts
<1>5. PICK k \in DOMAIN w.chan[i].members : w.chan[i].members[k] = c
  BY <1>1, <1>2 DEF ChanLinks, Members, On
<1>6. PICK m : m = Without(w.chan[i].members, c)
  OBVIOUS
<1>7. /\ m \in Seq(Conn) /\ \A j, l \in DOMAIN m : m[j] = m[l] => j = l
      /\ \A e : (\E l \in DOMAIN m : m[l] = e) <=> e # c /\ On(w.chan[i], e)
  <2>1. \A j, l \in DOMAIN w.chan[i].members : w.chan[i].members[j] = w.chan[i].members[l] => j = l
    BY <1>2 DEF ChanLinks, Members
  <2>2. PICK z \in Seq(Conn) : z = w.chan[i].members
    BY <1>4
  <2>3. k \in DOMAIN z /\ z[k] = c /\ m = Without(z, z[k]) /\ \A j, l \in DOMAIN z : z[j] = z[l] => j = l
    BY <1>5, <1>6, <2>1, <2>2
  <2>4. /\ Without(z, z[k]) \in Seq(Conn)
        /\ \A a, b \in DOMAIN Without(z, z[k]) : Without(z, z[k])[a] = Without(z, z[k])[b] => a = b
        /\ \A e : (\E a \in DOMAIN Without(z, z[k]) : Without(z, z[k])[a] = e)
                    <=> e # z[k] /\ \E a \in DOMAIN z : z[a] = e
    BY <2>3, WithoutFacts
  <2>5. PICK x : x = Without(z, z[k])
    OBVIOUS
  <2>6. /\ x \in Seq(Conn) /\ \A a, b \in DOMAIN x : x[a] = x[b] => a = b
        /\ \A e : (\E a \in DOMAIN x : x[a] = e) <=> e # z[k] /\ \E a \in DOMAIN z : z[a] = e
    BY <2>4, <2>5
  <2>7. \A e : On(w.chan[i], e) <=> \E a \in DOMAIN z : z[a] = e
    BY <2>2 DEF On
  <2>8. m = x /\ z[k] = c
    BY <2>3, <2>5
  <2> QED
    BY <2>6, <2>7, <2>8
<1>8. PICK w1 : w1 = [w EXCEPT !.chan[i].members = Without(@, c),
                               !.conn[c].tmpOP = IF @ = w.chan[i].name THEN NULL ELSE @]
  OBVIOUS
<1>9. PICK s : s = [w.chan EXCEPT ![i] = [w.chan[i] EXCEPT !.members = m]]
  OBVIOUS
<1>10. PICK u : u = [w.conn EXCEPT ![c] = [w.conn[c] EXCEPT !.tmpOP = IF w.conn[c].tmpOP = w.chan[i].name THEN NULL ELSE w.conn[c].tmpOP]]
  OBVIOUS
<1>11. w1.chan = s /\ w1.conn = u /\ w1.game = w.game /\ IsWorld(w1)
  BY <1>4, <1>6, <1>8, <1>9, <1>10 DEF IsWorld
<1>12. Relists(w, s, i, m)
  <2>1. PICK ch : ch = [w.chan[i] EXCEPT !.members = m]
    OBVIOUS
  <2>2. ch \in Channels
    BY <1>4, <1>7, <2>1 DEF Channels
  <2>3. s = [w.chan EXCEPT ![i] = ch]
    BY <1>9, <2>1
  <2>4. s \in Seq(Channels) /\ DOMAIN s = DOMAIN w.chan
    BY <1>4, <2>2, <2>3, ExceptSeq
  <2>5. s[i] = ch /\ \A j \in DOMAIN s : j # i => s[j] = w.chan[j]
    BY <1>2, <2>3
  <2>6. /\ ch.members = m /\ ch.id = w.chan[i].id /\ ch.name = w.chan[i].name /\ ch.short = w.chan[i].short
        /\ ch.perm = w.chan[i].perm /\ ch.max = w.chan[i].max /\ ch.banned = w.chan[i].banned
    BY <1>4, <2>1 DEF Channels
  <2> QED
    BY <2>4, <2>5, <2>6 DEF Relists
<1>13. /\ \A d \in Conn : d # c => u[d] = w.conn[d]
       /\ u \in [Conn -> ConnRec] /\ u[c] \in ConnRec
       /\ u[c].state = w.conn[c].state /\ u[c].account = w.conn[c].account
       /\ u[c].game = w.conn[c].game /\ u[c].tmpOP = NULL
  <2>1. PICK r : r = [w.conn[c] EXCEPT !.tmpOP = NULL]
    OBVIOUS
  <2>2. (IF w.conn[c].tmpOP = w.chan[i].name THEN NULL ELSE w.conn[c].tmpOP) = NULL
    BY <1>1, <1>2 DEF ChanLinks, Operators
  <2>3. u = [w.conn EXCEPT ![c] = r]
    BY <1>10, <2>1, <2>2
  <2>4. /\ r \in ConnRec /\ r.state = w.conn[c].state /\ r.account = w.conn[c].account
        /\ r.game = w.conn[c].game /\ r.tmpOP = NULL
    BY <1>4, <2>1 DEF ConnRec, Maybe
  <2> QED
    BY <1>4, <2>3, <2>4
<1>14. PICK gone \in BOOLEAN : gone = (m = <<>> /\ ~w.chan[i].perm)
  OBVIOUS
<1>15. PICK t : t = IF gone THEN RemoveAt(s, i) ELSE s
  OBVIOUS
<1>16. PICK w2 : w2 = IF gone THEN [w1 EXCEPT !.chan = RemoveAt(@, i)] ELSE w1
  OBVIOUS
<1>17. w2.chan = t /\ w2.conn = u /\ w2.game = w.game /\ IsWorld(w2)
  BY <1>11, <1>15, <1>16 DEF IsWorld
<1>18. channel_del_connection(w, n, c) = w2
  <2>1. w1.chan[i].members = m /\ w1.chan[i].perm = w.chan[i].perm
    BY <1>11, <1>12 DEF Relists
  <2>2. channel_del_connection(w, n, c) =
          IF w1.chan[i].members = <<>> /\ ~w1.chan[i].perm THEN channel_destroy(w1, i) ELSE w1
    BY <1>3, <1>8 DEF channel_del_connection
  <2> QED
    BY <1>14, <1>16, <2>1, <2>2 DEF channel_destroy
<1>19. v = [w2 EXCEPT !.conn[c].channel = NULL]
  BY <1>1, <1>18 DEF conn_part_channel
<1>20. PICK r : r = [u EXCEPT ![c] = [u[c] EXCEPT !.channel = NULL]]
  OBVIOUS
<1>21. v.chan = t /\ v.conn = r /\ v.game = w.game /\ IsWorld(v)
  BY <1>17, <1>19, <1>20 DEF IsWorld
<1>22. /\ r \in [Conn -> ConnRec] /\ \A d \in Conn : d # c => r[d] = u[d]
       /\ r[c].state = u[c].state /\ r[c].account = u[c].account /\ r[c].game = u[c].game
       /\ r[c].tmpOP = NULL /\ r[c].channel = NULL
  <2>1. PICK x : x = [u[c] EXCEPT !.channel = NULL]
    OBVIOUS
  <2>2. /\ x \in ConnRec /\ x.state = u[c].state /\ x.account = u[c].account /\ x.game = u[c].game
        /\ x.tmpOP = NULL /\ x.channel = NULL
    BY <1>13, <2>1 DEF ConnRec, Maybe
  <2>3. r = [u EXCEPT ![c] = x]
    BY <1>20, <2>1
  <2> QED
    BY <1>13, <2>2, <2>3
<1>23. t \in Seq(Channels) /\ Survives(s, v, i, gone)
  <2>1. s \in Seq(Channels) /\ DOMAIN s = DOMAIN w.chan /\ \A j \in DOMAIN s : s[j].id = w.chan[j].id
    BY <1>12 DEF Relists
  <2>2. \A j, l \in DOMAIN s : s[j].id = s[l].id => j = l
    BY <2>1 DEF ChanLinks, Distinct
  <2>3. CASE ~gone
    <3>1. t = s
      BY <1>15, <2>3
    <3> QED
      BY <1>21, <2>1, <2>2, <2>3, <3>1 DEF Survives, Distinct
  <2>4. CASE gone
    <3>1. t = RemoveAt(s, i) /\ i \in DOMAIN s
      BY <1>15, <2>1, <2>4
    <3>2. /\ t \in Seq(Channels)
          /\ DOMAIN s = 1..Len(s) /\ Len(s) \in Nat
          /\ DOMAIN t = 1..(Len(s) - 1)
          /\ \A j \in 1..(Len(s) - 1) : t[j] = IF j < i THEN s[j] ELSE s[j + 1]
      BY <2>1, <3>1, RemoveAtFacts
    <3>3. \A j \in DOMAIN t : \E l \in DOMAIN s : t[j] = s[l] /\ l # i /\ l = IF j < i THEN j ELSE j + 1
      BY <3>1, <3>2
    <3>4. \A l \in DOMAIN s : l # i => \E j \in DOMAIN t : t[j] = s[l]
      <4> SUFFICES ASSUME NEW l \in DOMAIN s, l # i PROVE \E j \in DOMAIN t : t[j] = s[l]
        OBVIOUS
      <4>1. CASE l < i
        BY <3>1, <3>2, <4>1
      <4>2. CASE l > i
        <5>1. l - 1 \in 1..(Len(s) - 1) /\ ~(l - 1 < i) /\ (l - 1) + 1 = l
          BY <3>1, <3>2, <4>2
        <5>2. t[l - 1] = s[l]
          BY <3>2, <5>1
        <5> QED
          BY <3>2, <5>1, <5>2
      <4> QED
        BY <3>1, <3>2, <4>1, <4>2
    <3>5. \A j, l \in DOMAIN t : t[j].id = t[l].id => j = l
      <4> SUFFICES ASSUME NEW j \in DOMAIN t, NEW l \in DOMAIN t, t[j].id = t[l].id PROVE j = l
        OBVIOUS
      <4>1. PICK a \in DOMAIN s : t[j] = s[a] /\ a = IF j < i THEN j ELSE j + 1
        BY <3>3
      <4>2. PICK b \in DOMAIN s : t[l] = s[b] /\ b = IF l < i THEN l ELSE l + 1
        BY <3>3
      <4>3. a = b
        BY <2>2, <4>1, <4>2
      <4> QED
        BY <3>1, <3>2, <4>1, <4>2, <4>3
    <3>6. /\ \A j \in DOMAIN t : \E l \in DOMAIN s : t[j] = s[l] /\ (gone => l # i)
          /\ \A l \in DOMAIN s : l # i \/ ~gone => \E j \in DOMAIN t : t[j] = s[l]
      BY <2>4, <3>3, <3>4
    <3> QED
      BY <1>21, <3>2, <3>5, <3>6 DEF Survives, Distinct
  <2> QED
    BY <2>3, <2>4
<1>24. v \in Worlds
  BY <1>21, <1>22, <1>23, WorldFacts DEF Worlds, IsWorld
<1>25. Moves(w, v, c)
  BY <1>13, <1>21, <1>22 DEF Moves
<1>26. v.conn[c].channel = NULL /\ v.conn[c].tmpOP = NULL
  BY <1>21, <1>22
<1>27. Parted(w, v, c, i, m, s, gone)
  BY <1>1, <1>2, <1>7, <1>12, <1>14, <1>23, <1>24, <1>25, <1>26 DEF Parted
<1> QED
  BY <1>27

\* Who leaves a channel leaves the other members and channels as they were.
LEMMA PartChannel ==
  ASSUME NEW w \in Worlds, ChanLinks(w), NEW c \in Conn, NEW v, v = conn_part_channel(w, c)
  PROVE  /\ v \in Worlds /\ Moves(w, v, c) /\ v.conn[c].channel = NULL
         /\ ChanLinks(v)
         /\ \A ac, D : Bans(w, ac, D) => Bans(v, ac, D \ {c})
         /\ \A id : Kept(w, id) => Kept(v, id)
         /\ \A j \in DOMAIN w.chan : w.chan[j].id # w.conn[c].channel =>
              \E k \in DOMAIN v.chan : v.chan[k] = w.chan[j]
         /\ \A j \in DOMAIN w.chan :
              \/ ~w.chan[j].perm
              \/ \E k \in DOMAIN v.chan : v.chan[k].name = w.chan[j].name /\ v.chan[k].short = w.chan[j].short
<1>1. CASE w.conn[c].channel = NULL
  <2>1. v = w
    BY <1>1 DEF conn_part_channel
  <2>2. \A i \in DOMAIN w.chan : w.chan[i].id # NULL
    BY WorldFacts
  <2>3. \A ac, D : Bans(w, ac, D) => Bans(v, ac, D \ {c})
    BY <1>1, <2>1, <2>2 DEF Bans
  <2>4. Moves(w, v, c)
    BY <2>1 DEF Moves
  <2> QED
    BY <1>1, <2>1, <2>3, <2>4
<1>2. CASE w.conn[c].channel # NULL
  <2>1. PICK i \in DOMAIN w.chan : \E m, s, gone : Parted(w, v, c, i, m, s, gone)
    BY <1>2, PartSteps
  <2>p. PICK m, s, gone : Parted(w, v, c, i, m, s, gone)
    BY <2>1
  <2>q. /\ w.chan[i].id = w.conn[c].channel
        /\ m \in Seq(Conn) /\ \A j, k \in DOMAIN m : m[j] = m[k] => j = k
        /\ \A e : (\E k \in DOMAIN m : m[k] = e) <=> e # c /\ On(w.chan[i], e)
        /\ Relists(w, s, i, m) /\ Survives(s, v, i, gone)
        /\ gone = (m = <<>> /\ ~w.chan[i].perm)
        /\ v \in Worlds /\ Moves(w, v, c)
        /\ v.conn[c].channel = NULL /\ v.conn[c].tmpOP = NULL
    BY <2>p DEF Parted
  <2>2. /\ DOMAIN s = DOMAIN w.chan
        /\ \A j \in DOMAIN s : j # i => s[j] = w.chan[j]
        /\ s[i].members = m
        /\ \A j \in DOMAIN s :
             /\ s[j].id = w.chan[j].id /\ s[j].name = w.chan[j].name /\ s[j].short = w.chan[j].short /\ s[j].perm = w.chan[j].perm
             /\ s[j].max = w.chan[j].max /\ s[j].banned = w.chan[j].banned
    BY <2>q DEF Relists
  <2>3. /\ \A j \in DOMAIN v.chan : \E k \in DOMAIN s : v.chan[j] = s[k] /\ (gone => k # i)
        /\ \A k \in DOMAIN s : k # i \/ ~gone => \E j \in DOMAIN v.chan : v.chan[j] = s[k]
        /\ Distinct(v)
    BY <2>q DEF Survives
  <2>4. /\ \A d \in Conn :
             /\ v.conn[d].account = w.conn[d].account
             /\ d # c => v.conn[d].channel = w.conn[d].channel /\ v.conn[d].tmpOP = w.conn[d].tmpOP
        /\ v.conn[c].channel = NULL /\ v.conn[c].tmpOP = NULL
    BY <2>q DEF Moves
  <2>5. \A j \in DOMAIN w.chan : w.chan[j].id # NULL
    BY WorldFacts
  <2>6. \A k \in DOMAIN s : \A e : On(s[k], e) <=> On(w.chan[k], e) /\ ~(k = i /\ e = c)
    <3>1. \A e : On(s[i], e) <=> On(w.chan[i], e) /\ e # c
      <4>1. \A e : On(s[i], e) <=> \E k \in DOMAIN m : m[k] = e
        BY <2>2 DEF On
      <4> QED
        BY <2>q, <4>1
    <3> QED
      BY <2>2, <3>1
  <2>7. Members(v)
    <3> SUFFICES ASSUME NEW j \in DOMAIN v.chan
                 PROVE  /\ \A a, b \in DOMAIN v.chan[j].members : v.chan[j].members[a] = v.chan[j].members[b] => a = b
                        /\ \A d \in Conn : On(v.chan[j], d) <=> v.conn[d].channel = v.chan[j].id
      BY DEF Members
    <3>1. PICK k \in DOMAIN s : v.chan[j] = s[k]
      BY <2>3
    <3>2. \A a, b \in DOMAIN s[k].members : s[k].members[a] = s[k].members[b] => a = b
      BY <2>q, <2>2 DEF ChanLinks, Members
    <3>3. \A d \in Conn : On(w.chan[k], d) <=> w.conn[d].channel = w.chan[k].id
      BY <2>2 DEF ChanLinks, Members
    <3>4. w.conn[c].channel = w.chan[k].id => k = i
      BY <2>q, <2>2 DEF ChanLinks, Distinct
    <3>5. \A d \in Conn : On(s[k], d) <=> v.conn[d].channel = s[k].id
      BY <2>2, <2>4, <2>5, <2>6, <3>3, <3>4
    <3> QED
      BY <3>1, <3>2, <3>5
  <2>8. Listed(v)
    <3> SUFFICES ASSUME NEW d \in Conn, v.conn[d].channel # NULL
                 PROVE  \E j \in DOMAIN v.chan : v.chan[j].id = v.conn[d].channel
      BY DEF Listed
    <3>1. d # c /\ v.conn[d].channel = w.conn[d].channel
      BY <2>4
    <3>2. PICK k \in DOMAIN s : s[k].id = w.conn[d].channel
      BY <2>2, <3>1 DEF ChanLinks, Listed
    <3>3. On(s[k], d)
      BY <2>2, <2>6, <3>1, <3>2 DEF ChanLinks, Members
    <3>4. gone => k # i
      <4>1. gone => m = <<>>
        BY <2>q
      <4>2. m = <<>> => DOMAIN m = {}
        OBVIOUS
      <4>3. gone => ~On(s[i], d)
        BY <2>2, <4>1, <4>2 DEF On
      <4> QED
        BY <3>3, <4>3
    <3> QED
      BY <2>3, <3>1, <3>2, <3>4
  <2>9. Operators(v)
    BY <2>2, <2>3, <2>4 DEF ChanLinks, Operators
  <2>10. Shorts(v)
    BY <2>2, <2>3 DEF ChanLinks, Shorts
  <2>12. ASSUME NEW ac, NEW D, Bans(w, ac, D) PROVE Bans(v, ac, D \ {c})
    <3> SUFFICES ASSUME NEW j \in DOMAIN v.chan, NEW a \in v.chan[j].banned, ac[a] \in Conn \ (D \ {c})
                 PROVE  v.conn[ac[a]].channel # v.chan[j].id
      BY DEF Bans
    <3>1. PICK k \in DOMAIN w.chan : v.chan[j].id = w.chan[k].id /\ a \in w.chan[k].banned
      BY <2>2, <2>3
    <3>2. CASE ac[a] = c
      BY <2>4, <2>5, <3>1, <3>2
    <3>3. CASE ac[a] # c
      <4>1. w.conn[ac[a]].channel # w.chan[k].id
        BY <2>12, <3>1, <3>3 DEF Bans
      <4>2. v.conn[ac[a]].channel = w.conn[ac[a]].channel
        BY <2>4, <3>3
      <4> QED
        BY <3>1, <4>1, <4>2
    <3> QED
      BY <3>2, <3>3
  <2>13. ASSUME NEW id, Kept(w, id) PROVE Kept(v, id)
    <3> SUFFICES ASSUME NEW j \in DOMAIN v.chan
                 PROVE  v.chan[j].perm \/ v.chan[j].members # <<>> \/ v.chan[j].id = id
      BY DEF Kept
    <3>1. PICK k \in DOMAIN s : v.chan[j] = s[k] /\ (gone => k # i)
      BY <2>3
    <3>2. w.chan[k].perm \/ w.chan[k].members # <<>> \/ w.chan[k].id = id
      BY <2>2, <2>13 DEF Kept
    <3>3. CASE k # i
      BY <2>2, <3>1, <3>2, <3>3
    <3>4. CASE k = i
      <4>1. ~gone
        BY <3>1, <3>4
      <4>2. m # <<>> \/ w.chan[i].perm
        BY <2>q, <4>1
      <4> QED
        BY <2>2, <3>1, <3>4, <4>2
    <3> QED
      BY <3>3, <3>4
  <2>14. ASSUME NEW j \in DOMAIN w.chan, w.chan[j].id # w.conn[c].channel
         PROVE  \E k \in DOMAIN v.chan : v.chan[k] = w.chan[j]
    BY <2>q, <2>2, <2>3, <2>14
  <2>15. \A j \in DOMAIN w.chan :
           \/ ~w.chan[j].perm
           \/ \E k \in DOMAIN v.chan : v.chan[k].name = w.chan[j].name /\ v.chan[k].short = w.chan[j].short
    <3> SUFFICES ASSUME NEW j \in DOMAIN w.chan, w.chan[j].perm
                 PROVE  \E k \in DOMAIN v.chan : v.chan[k].name = w.chan[j].name /\ v.chan[k].short = w.chan[j].short
      OBVIOUS
    <3>1. gone => j # i
      BY <2>q
    <3>2. j \in DOMAIN s /\ s[j].name = w.chan[j].name /\ s[j].short = w.chan[j].short
      BY <2>2
    <3>3. PICK k \in DOMAIN v.chan : v.chan[k] = s[j]
      BY <2>3, <3>1, <3>2
    <3> QED
      BY <3>2, <3>3
  <2> QED
    BY <2>q, <2>3, <2>7, <2>8, <2>9, <2>10, <2>12, <2>13, <2>14, <2>15 DEF ChanLinks
<1> QED
  BY <1>1, <1>2

\* A list with one more at its front.
Prepended(S, s, e, m) ==
  /\ m \in Seq(S) /\ m # <<>>
  /\ \A i, j \in DOMAIN m : m[i] = m[j] => i = j
  /\ \A x : (\E i \in DOMAIN m : m[i] = x) <=> x = e \/ \E i \in DOMAIN s : s[i] = x

Ahead(e, s) == <<e>> \o s

LEMMA PrependFacts ==
  ASSUME NEW S, NEW s \in Seq(S), NEW e \in S,
         \A i, j \in DOMAIN s : s[i] = s[j] => i = j, \A i \in DOMAIN s : s[i] # e
  PROVE  Prepended(S, s, e, <<e>> \o s)
<1>m. PICK m : m = <<e>> \o s
  OBVIOUS
<1>1. <<e>> \in Seq(S) /\ Len(<<e>>) = 1 /\ <<e>>[1] = e
  OBVIOUS
<1>2. /\ m \in Seq(S) /\ Len(m) = 1 + Len(s)
      /\ \A i \in 1..(1 + Len(s)) : m[i] = IF i <= 1 THEN <<e>>[i] ELSE s[i - 1]
  BY <1>m, <1>1, ConcatProperties
<1>3. DOMAIN s = 1..Len(s) /\ Len(s) \in Nat /\ DOMAIN m = 1..(1 + Len(s))
  BY <1>2, LenProperties
<1>4. m[1] = e /\ 1 \in DOMAIN m /\ \A i \in DOMAIN m : i # 1 => i - 1 \in DOMAIN s /\ m[i] = s[i - 1]
  BY <1>1, <1>2, <1>3
<1>5. \A i \in DOMAIN s : i + 1 \in DOMAIN m /\ m[i + 1] = s[i]
  <2> SUFFICES ASSUME NEW i \in DOMAIN s PROVE i + 1 \in DOMAIN m /\ m[i + 1] = s[i]
    OBVIOUS
  <2>1. i + 1 \in 1..(1 + Len(s)) /\ ~(i + 1 <= 1) /\ (i + 1) - 1 = i
    BY <1>3
  <2> QED
    BY <1>2, <1>3, <2>1
<1>6. \A i, j \in DOMAIN m : m[i] = m[j] => i = j
  <2> SUFFICES ASSUME NEW i \in DOMAIN m, NEW j \in DOMAIN m, m[i] = m[j] PROVE i = j
    OBVIOUS
  <2>1. CASE i = 1 \/ j = 1
    BY <1>4, <2>1
  <2>2. CASE i # 1 /\ j # 1
    <3>1. i - 1 = j - 1
      BY <1>4, <2>2
    <3> QED
      BY <1>3, <3>1
  <2> QED
    BY <2>1, <2>2
<1>7. \A x : (\E i \in DOMAIN m : m[i] = x) <=> x = e \/ \E i \in DOMAIN s : s[i] = x
  <2>1. \A i \in DOMAIN m : m[i] = e \/ \E j \in DOMAIN s : s[j] = m[i]
    BY <1>4
  <2>2. \A j \in DOMAIN s : \E i \in DOMAIN m : m[i] = s[j]
    BY <1>5
  <2>3. \E i \in DOMAIN m : m[i] = e
    BY <1>4
  <2>4. ASSUME NEW x, \E i \in DOMAIN m : m[i] = x PROVE x = e \/ \E i \in DOMAIN s : s[i] = x
    BY <2>1, <2>4
  <2>5. ASSUME NEW x, x = e \/ \E i \in DOMAIN s : s[i] = x PROVE \E i \in DOMAIN m : m[i] = x
    BY <2>2, <2>3, <2>5
  <2> QED
    BY <2>4, <2>5
<1>8. m # <<>>
  BY <1>4
<1> QED
  BY <1>m, <1>2, <1>6, <1>7, <1>8 DEF Prepended

\* v is w after c has come to the i-th channel, whose members are m.
Joined(w, v, c, i, m) ==
  /\ v \in Worlds /\ Moves(w, v, c)
  /\ v.conn[c].channel = w.chan[i].id /\ v.conn[c].tmpOP \in {NULL, w.chan[i].name}
  /\ Relists(w, v.chan, i, m) /\ m # <<>> /\ m = <<c>> \o w.chan[i].members
  /\ \A j, k \in DOMAIN m : m[j] = m[k] => j = k
  /\ \A e : (\E k \in DOMAIN m : m[k] = e) <=> e = c \/ On(w.chan[i], e)

\* channel_add_connection, step by step.
LEMMA AddSteps ==
  ASSUME NEW w \in Worlds, ChanLinks(w), NEW c \in Conn, w.conn[c].channel = NULL,
         NEW i \in DOMAIN w.chan, NEW n, n = w.chan[i].id, NEW A, NEW v, v = channel_add_connection(A, w, n, c)
  PROVE  \E m : Joined(w, v, c, i, m)
<1>1. Place(w.chan, n) = i
  BY DEF ChanLinks, Distinct, Place
<1>2. /\ w.conn \in [Conn -> ConnRec] /\ w.chan \in Seq(Channels) /\ w.chan[i] \in Channels
      /\ w.chan[i].members \in Seq(Conn) /\ w.conn[c] \in ConnRec /\ IsWorld(w)
      /\ i \in 1..Len(w.chan) /\ w.chan[i].name \in ChannelName /\ n \in Nat /\ n # NULL /\ w.game \in [GameId -> Maybe(Game)]
  BY WorldFacts
<1>3. PICK z \in Seq(Conn) : z = w.chan[i].members
  BY <1>2
<1>4. PICK m : m = <<c>> \o z
  OBVIOUS
<1>5. /\ m \in Seq(Conn) /\ m # <<>> /\ m = <<c>> \o w.chan[i].members /\ \A j, k \in DOMAIN m : m[j] = m[k] => j = k
      /\ \A e : (\E k \in DOMAIN m : m[k] = e) <=> e = c \/ On(w.chan[i], e)
  <2>1. \A j, k \in DOMAIN z : z[j] = z[k] => j = k
    BY <1>3 DEF ChanLinks, Members
  <2>2. ~On(w.chan[i], c)
    BY <1>2 DEF ChanLinks, Members
  <2>3. \A j \in DOMAIN z : z[j] # c
    BY <1>3, <2>2 DEF On
  <2>4. /\ m \in Seq(Conn) /\ m # <<>> /\ \A j, k \in DOMAIN m : m[j] = m[k] => j = k
        /\ \A e : (\E k \in DOMAIN m : m[k] = e) <=> e = c \/ \E k \in DOMAIN z : z[k] = e
    <3>1. Prepended(Conn, z, c, m)
      BY <1>4, <2>1, <2>3, PrependFacts
    <3> QED
      BY <3>1 DEF Prepended
  <2>5. \A e : On(w.chan[i], e) <=> \E k \in DOMAIN z : z[k] = e
    BY <1>3 DEF On
  <2> QED
    BY <1>3, <1>4, <2>4, <2>5
<1>6. w.conn[c].tmpOP = NULL
  BY DEF ChanLinks, Operators
<1>7. PICK op \in {NULL, w.chan[i].name} :
        op = IF /\ ~w.chan[i].perm /\ w.chan[i].short # Void /\ w.chan[i].members = <<>>
                /\ ~account_is_operator_or_admin(A, w.conn[c].account, w.chan[i].name)
             THEN w.chan[i].name ELSE NULL
  OBVIOUS
<1>8. PICK r : r = [w.conn[c] EXCEPT !.channel = n, !.tmpOP = op]
  OBVIOUS
<1>9. PICK ch : ch = [w.chan[i] EXCEPT !.members = m]
  OBVIOUS
<1>10. PICK s, u : s = [w.chan EXCEPT ![i] = ch] /\ u = [w.conn EXCEPT ![c] = r]
  OBVIOUS
<1>11. v = [w EXCEPT !.chan[i].members = <<c>> \o @, !.conn[c].channel = n, !.conn[c].tmpOP = op]
  <2>1. \A first : (IF first THEN w.chan[i].name ELSE w.conn[c].tmpOP) = (IF first THEN w.chan[i].name ELSE NULL)
    BY <1>6
  <2> QED
    BY <1>1, <1>2, <1>7, <2>1 DEF channel_add_connection, IsWorld
<1>12. v.chan = s /\ v.conn = u /\ v.game = w.game /\ IsWorld(v)
  <2>1. PICK u1 : u1 = [w.conn EXCEPT ![c] = [w.conn[c] EXCEPT !.channel = n]]
    OBVIOUS
  <2>2. PICK w1 : w1 = [w EXCEPT !.chan[i].members = <<c>> \o @, !.conn[c].channel = n]
    OBVIOUS
  <2>3. w1.chan = s /\ w1.conn = u1 /\ w1.game = w.game /\ IsWorld(w1)
    BY <1>2, <1>3, <1>4, <1>9, <1>10, <2>1, <2>2 DEF IsWorld
  <2>4. v = [w1 EXCEPT !.conn[c].tmpOP = op]
    BY <1>11, <2>2
  <2>5. u1 \in [Conn -> ConnRec] /\ u1[c] = [w.conn[c] EXCEPT !.channel = n]
    BY <1>2, <2>1 DEF ConnRec, Maybe
  <2>6. [u1 EXCEPT ![c] = [u1[c] EXCEPT !.tmpOP = op]] = u
    <3>1. [u1[c] EXCEPT !.tmpOP = op] = r
      BY <1>8, <2>5
    <3> QED
      BY <1>2, <1>10, <2>1, <2>5, <3>1
  <2> QED
    BY <2>3, <2>4, <2>6 DEF IsWorld
<1>13. /\ r \in ConnRec /\ r.state = w.conn[c].state /\ r.account = w.conn[c].account
       /\ r.game = w.conn[c].game /\ r.channel = n /\ r.tmpOP = op
  BY <1>2, <1>7, <1>8 DEF ConnRec, Maybe
<1>14. /\ ch \in Channels /\ ch.members = m /\ ch.id = w.chan[i].id /\ ch.name = w.chan[i].name /\ ch.short = w.chan[i].short
       /\ ch.perm = w.chan[i].perm /\ ch.max = w.chan[i].max /\ ch.banned = w.chan[i].banned
  BY <1>2, <1>5, <1>9 DEF Channels
<1>15. s \in Seq(Channels) /\ DOMAIN s = DOMAIN w.chan
  BY <1>2, <1>10, <1>14, ExceptSeq
<1>16. Relists(w, v.chan, i, m)
  <2>1. s[i] = ch /\ \A j \in DOMAIN s : j # i => s[j] = w.chan[j]
    BY <1>10, <1>15
  <2> QED
    BY <1>12, <1>14, <1>15, <2>1 DEF Relists
<1>17. u \in [Conn -> ConnRec] /\ u[c] = r /\ \A d \in Conn : d # c => u[d] = w.conn[d]
  BY <1>2, <1>10, <1>13
<1>18. v \in Worlds
  BY <1>2, <1>12, <1>15, <1>17 DEF Worlds, IsWorld
<1>19. Moves(w, v, c) /\ v.conn[c].channel = n /\ v.conn[c].tmpOP \in {NULL, w.chan[i].name}
  BY <1>7, <1>12, <1>13, <1>17 DEF Moves
<1>20. Joined(w, v, c, i, m)
  BY <1>5, <1>16, <1>18, <1>19 DEF Joined
<1> QED
  BY <1>20

\* Who comes to a channel leaves the other members and channels as they were.
SameChannels(w, v) ==
  /\ DOMAIN v.chan = DOMAIN w.chan
  /\ \A j \in DOMAIN w.chan :
       /\ v.chan[j].id = w.chan[j].id /\ v.chan[j].name = w.chan[j].name
       /\ v.chan[j].short = w.chan[j].short /\ v.chan[j].max = w.chan[j].max

LEMMA AddChannel ==
  ASSUME NEW w \in Worlds, ChanLinks(w), NEW c \in Conn, w.conn[c].channel = NULL,
         NEW i \in DOMAIN w.chan,
         NEW n, n = w.chan[i].id, NEW A, NEW v, v = channel_add_connection(A, w, n, c)
  PROVE  /\ v \in Worlds /\ Moves(w, v, c) /\ v.conn[c].channel = n
         /\ ChanLinks(v)
         /\ \A ac, D : Bans(w, ac, D) /\ (\A a \in w.chan[i].banned : ac[a] # c) => Bans(v, ac, D)
         /\ Kept(w, n) => Kept(v, NULL)
         /\ v.chan[i].members = Ahead(c, w.chan[i].members) /\ SameChannels(w, v)
<1>1. PICK m : Joined(w, v, c, i, m)
  BY AddSteps
<1>2. /\ v \in Worlds /\ Moves(w, v, c)
      /\ v.conn[c].channel = w.chan[i].id /\ v.conn[c].tmpOP \in {NULL, w.chan[i].name}
      /\ Relists(w, v.chan, i, m) /\ m # <<>> /\ m = Ahead(c, w.chan[i].members)
      /\ \A j, k \in DOMAIN m : m[j] = m[k] => j = k
      /\ \A e : (\E k \in DOMAIN m : m[k] = e) <=> e = c \/ On(w.chan[i], e)
  BY <1>1 DEF Joined, Ahead
<1> DEFINE s == v.chan
<1>3. /\ DOMAIN s = DOMAIN w.chan
      /\ \A j \in DOMAIN s : j # i => s[j] = w.chan[j]
      /\ s[i].members = m
      /\ \A j \in DOMAIN s :
           /\ s[j].id = w.chan[j].id /\ s[j].name = w.chan[j].name /\ s[j].short = w.chan[j].short /\ s[j].perm = w.chan[j].perm
           /\ s[j].max = w.chan[j].max /\ s[j].banned = w.chan[j].banned
  BY <1>2 DEF Relists
<1>4. /\ \A d \in Conn :
           /\ v.conn[d].account = w.conn[d].account
           /\ d # c => v.conn[d].channel = w.conn[d].channel /\ v.conn[d].tmpOP = w.conn[d].tmpOP
      /\ v.conn[c].channel = n /\ v.conn[c].tmpOP \in {NULL, w.chan[i].name}
  BY <1>2 DEF Moves
<1>5. \A j \in DOMAIN w.chan : w.chan[j].id # NULL /\ w.chan[j].members \in Seq(Conn)
  BY WorldFacts
<1>6. \A k \in DOMAIN s : \A e : On(s[k], e) <=> On(w.chan[k], e) \/ (k = i /\ e = c)
  <2>1. \A e : On(s[i], e) <=> \E k \in DOMAIN m : m[k] = e
    BY <1>3 DEF On
  <2>2. \A e : On(s[i], e) <=> On(w.chan[i], e) \/ e = c
    BY <1>2, <2>1
  <2> QED
    BY <1>3, <2>2
<1> HIDE DEF s
<1>7. Distinct(v) /\ Shorts(v)
  <2>1. ASSUME NEW j \in DOMAIN s, NEW k \in DOMAIN s, s[j].id = s[k].id PROVE j = k
    <3>1. j \in DOMAIN w.chan /\ k \in DOMAIN w.chan /\ w.chan[j].id = w.chan[k].id
      BY <1>3, <2>1
    <3> QED
      BY <3>1 DEF ChanLinks, Distinct
  <2>2. ASSUME NEW j \in DOMAIN s
        PROVE  (s[j].short = Void <=> s[j].name = Void) /\ (s[j].perm \/ s[j].short = s[j].name)
    <3>1. /\ j \in DOMAIN w.chan /\ w.chan[j].short = s[j].short /\ s[j].name = w.chan[j].name
          /\ s[j].perm = w.chan[j].perm
      BY <1>3
    <3> QED
      BY <3>1 DEF ChanLinks, Shorts
  <2> QED
    BY <2>1, <2>2 DEF Distinct, Shorts, s
<1>8. Members(v)
  <2> SUFFICES ASSUME NEW k \in DOMAIN s
               PROVE  /\ \A a, b \in DOMAIN s[k].members : s[k].members[a] = s[k].members[b] => a = b
                      /\ \A d \in Conn : On(s[k], d) <=> v.conn[d].channel = s[k].id
    BY DEF Members, s
  <2>1. \A a, b \in DOMAIN s[k].members : s[k].members[a] = s[k].members[b] => a = b
    <3>1. CASE k = i
      BY <1>2, <1>3, <3>1
    <3>2. CASE k # i
      BY <1>3, <3>2 DEF ChanLinks, Members
    <3> QED
      BY <3>1, <3>2
  <2>2. \A d \in Conn : On(w.chan[k], d) <=> w.conn[d].channel = w.chan[k].id
    BY <1>3 DEF ChanLinks, Members
  <2>3. n = w.chan[k].id => k = i
    BY <1>3 DEF ChanLinks, Distinct
  <2>4. \A d \in Conn : On(s[k], d) <=> v.conn[d].channel = s[k].id
    <3> SUFFICES ASSUME NEW d \in Conn PROVE On(s[k], d) <=> v.conn[d].channel = s[k].id
      OBVIOUS
    <3>1. On(s[k], d) <=> On(w.chan[k], d) \/ (k = i /\ d = c)
      BY <1>6
    <3>2. On(w.chan[k], d) <=> w.conn[d].channel = w.chan[k].id
      BY <2>2
    <3>3. s[k].id = w.chan[k].id /\ w.chan[k].id # NULL
      BY <1>3, <1>5
    <3>4. CASE d # c
      BY <1>4, <3>1, <3>2, <3>3, <3>4
    <3>5. CASE d = c
      BY <1>4, <2>3, <3>1, <3>2, <3>3, <3>5
    <3> QED
      BY <3>4, <3>5
  <2> QED
    BY <2>1, <2>4
<1>9. Listed(v) /\ Operators(v)
  <2>1. Listed(v)
    <3> SUFFICES ASSUME NEW d \in Conn, v.conn[d].channel # NULL
                 PROVE  \E k \in DOMAIN s : s[k].id = v.conn[d].channel
      BY DEF Listed, s
    <3>1. CASE d = c
      <4>1. i \in DOMAIN s /\ s[i].id = n
        BY <1>3
      <4> QED
        BY <1>4, <3>1, <4>1
    <3>2. CASE d # c
      <4>1. v.conn[d].channel = w.conn[d].channel
        BY <1>4, <3>2
      <4>2. PICK k \in DOMAIN w.chan : w.chan[k].id = w.conn[d].channel
        BY <4>1 DEF ChanLinks, Listed
      <4>3. k \in DOMAIN s /\ s[k].id = w.chan[k].id
        BY <1>3
      <4> QED
        BY <4>1, <4>2, <4>3
    <3> QED
      BY <3>1, <3>2
  <2>2. Operators(v)
    <3> SUFFICES ASSUME NEW d \in Conn, v.conn[d].tmpOP # NULL
                 PROVE  /\ v.conn[d].channel # NULL
                        /\ \A k \in DOMAIN s : s[k].id = v.conn[d].channel => s[k].name = v.conn[d].tmpOP
      BY DEF Operators, s
    <3>1. CASE d = c
      <4>1. v.conn[d].tmpOP = w.chan[i].name /\ v.conn[d].channel = w.chan[i].id /\ w.chan[i].id # NULL
        BY <1>4, <1>5, <3>1
      <4>2. \A k \in DOMAIN s : s[k].id = w.chan[i].id => k = i
        BY <1>3 DEF ChanLinks, Distinct
      <4> QED
        BY <1>3, <4>1, <4>2
    <3>2. CASE d # c
      <4>1. v.conn[d].channel = w.conn[d].channel /\ v.conn[d].tmpOP = w.conn[d].tmpOP
        BY <1>4, <3>2
      <4>2. /\ w.conn[d].channel # NULL
            /\ \A k \in DOMAIN w.chan : w.chan[k].id = w.conn[d].channel => w.chan[k].name = w.conn[d].tmpOP
        BY <4>1 DEF ChanLinks, Operators
      <4> QED
        BY <1>3, <4>1, <4>2
    <3> QED
      BY <3>1, <3>2
  <2> QED
    BY <2>1, <2>2
<1>11. ASSUME NEW ac, NEW D, Bans(w, ac, D), \A a \in w.chan[i].banned : ac[a] # c
       PROVE  Bans(v, ac, D)
  <2> SUFFICES ASSUME NEW k \in DOMAIN s, NEW a \in s[k].banned, ac[a] \in Conn \ D
               PROVE  v.conn[ac[a]].channel # s[k].id
    BY DEF Bans, s
  <2>1. w.conn[ac[a]].channel # w.chan[k].id
    BY <1>3, <1>11 DEF Bans
  <2>2. CASE ac[a] # c
    BY <1>3, <1>4, <2>1, <2>2
  <2>3. CASE ac[a] = c
    <3>1. k # i
      BY <1>3, <1>11, <2>3
    <3>2. w.chan[k].id # n
      BY <1>3, <3>1 DEF ChanLinks, Distinct
    <3> QED
      BY <1>3, <1>4, <2>3, <3>2
  <2> QED
    BY <2>2, <2>3
<1>12. ASSUME Kept(w, n) PROVE Kept(v, NULL)
  <2> SUFFICES ASSUME NEW k \in DOMAIN s
               PROVE  s[k].perm \/ s[k].members # <<>> \/ s[k].id = NULL
    BY DEF Kept, s
  <2>1. CASE k = i
    BY <1>2, <1>3, <2>1
  <2>2. CASE k # i
    <3>1. w.chan[k].id # n
      BY <1>3, <2>2 DEF ChanLinks, Distinct
    <3>2. w.chan[k].perm \/ w.chan[k].members # <<>>
      BY <1>3, <1>12, <3>1 DEF Kept
    <3> QED
      BY <1>3, <2>2, <3>2
  <2> QED
    BY <2>1, <2>2
<1>13. v.chan[i].members = Ahead(c, w.chan[i].members) /\ SameChannels(w, v)
  BY <1>2, <1>3 DEF s, SameChannels
<1> QED
  BY <1>2, <1>4, <1>7, <1>8, <1>9, <1>11, <1>12, <1>13 DEF ChanLinks

\* v has the channels of w and everybody is where he was.
SameChat(w, v) ==
  /\ v \in Worlds /\ v.chan = w.chan
  /\ \A d \in Conn :
       /\ v.conn[d].channel = w.conn[d].channel /\ v.conn[d].tmpOP = w.conn[d].tmpOP
       /\ w.conn[d].channel # NULL => v.conn[d].account = w.conn[d].account

LEMMA ChatKept ==
  ASSUME NEW w \in Worlds, ChanLinks(w), NEW v, SameChat(w, v)
  PROVE  /\ v \in Worlds /\ ChanLinks(v)
         /\ \A ac, D : Bans(w, ac, D) => Bans(v, ac, D)
         /\ \A id : Kept(w, id) => Kept(v, id)
<1>1. /\ v \in Worlds /\ v.chan = w.chan
      /\ \A d \in Conn :
           /\ v.conn[d].channel = w.conn[d].channel /\ v.conn[d].tmpOP = w.conn[d].tmpOP
           /\ w.conn[d].channel # NULL => v.conn[d].account = w.conn[d].account
  BY DEF SameChat
<1>2. Distinct(v) /\ Shorts(v)
  BY <1>1 DEF ChanLinks, Distinct, Shorts
<1>3. Members(v)
  BY <1>1 DEF ChanLinks, Members
<1>4. Listed(v) /\ Operators(v)
  BY <1>1 DEF ChanLinks, Listed, Operators
<1>6. ASSUME NEW ac, NEW D, Bans(w, ac, D) PROVE Bans(v, ac, D)
  BY <1>1, <1>6 DEF Bans
<1>7. ASSUME NEW id, Kept(w, id) PROVE Kept(v, id)
  BY <1>1, <1>7 DEF Kept
<1> QED
  BY <1>1, <1>2, <1>3, <1>4, <1>6, <1>7 DEF ChanLinks

-----------------------------------------------------------------------------
(* Games                                                                   *)

\* The parts of a game.
LEMMA GameFacts ==
  ASSUME NEW g \in Game
  PROVE  /\ g.slots \in Seq(Slots) /\ DOMAIN g.slots = 1..Len(g.slots) /\ Len(g.slots) \in Nat
         /\ \A i \in DOMAIN g.slots :
              /\ g.slots[i] \in Slots /\ g.slots[i].conn \in Maybe(Conn) /\ g.slots[i].account \in Account
              /\ g.slots[i].report \in Nat
         /\ g.ref \in Nat /\ g.owner \in Maybe(Conn) /\ g.name \in GameName /\ g # NULL
         /\ Here(g) \subseteq DOMAIN g.slots /\ IsFiniteSet(Here(g)) /\ Here(g) \in SUBSET Nat
<1>1. g.slots \in Seq(Slots) /\ g.ref \in Nat /\ g.owner \in Maybe(Conn) /\ g.name \in GameName
  BY DEF Game, Maybe
<1>2. DOMAIN g.slots = 1..Len(g.slots) /\ Len(g.slots) \in Nat
  BY <1>1, LenProperties
<1>3. \A i \in DOMAIN g.slots : g.slots[i] \in Slots
  BY <1>1, <1>2, ElementOfSeq
<1>4. \A x \in Slots : x.conn \in Maybe(Conn) /\ x.account \in Account /\ x.report \in Nat
  BY DEF Slots, Maybe
<1>5. g # NULL
  BY BnetdGamesAssumption
<1>6. Here(g) \in SUBSET (1..Len(g.slots)) /\ Here(g) \subseteq DOMAIN g.slots
  BY <1>2 DEF Here
<1>7. IsFiniteSet(1..Len(g.slots))
  BY <1>2, FS_Interval
<1>8. IsFiniteSet(Here(g))
  BY <1>6, <1>7, FS_Subset
<1>9. Here(g) \in SUBSET Nat
  BY <1>2, <1>6
<1> QED
  BY <1>1, <1>2, <1>3, <1>4, <1>5, <1>6, <1>8, <1>9

\* h is g with another host: one of its players, if it has any.
Hosted(g, h) ==
  /\ h \in Game /\ h.slots = g.slots /\ h.ref = g.ref
  /\ h.name = g.name /\ h.type = g.type /\ h.status = g.status
  /\ Here(g) # {} => \E i \in Here(g) : h.owner = g.slots[i].conn

\* game_choose_host
LEMMA HostFacts ==
  ASSUME NEW g \in Game
  PROVE  Hosted(g, game_choose_host(g))
<1>1. CASE Here(g) = {}
  <2>1. game_choose_host(g) = g
    BY <1>1 DEF game_choose_host
  <2> QED
    BY <1>1, <2>1 DEF Hosted
<1>2. CASE Here(g) # {}
  <2>1. Here(g) \in SUBSET Nat
    BY GameFacts
  <2>2. PICK i \in Here(g) : i = Min(Here(g))
    BY <1>2, <2>1, MinFacts
  <2>3. PICK h : h = [g EXCEPT !.owner = g.slots[i].conn]
    OBVIOUS
  <2>4. game_choose_host(g) = h
    BY <1>2, <2>2, <2>3 DEF game_choose_host
  <2>5. g.slots[i].conn \in Conn \cup {NULL}
    BY GameFacts DEF Maybe
  <2>6. /\ h \in Game /\ h.slots = g.slots /\ h.ref = g.ref
        /\ h.name = g.name /\ h.type = g.type /\ h.status = g.status /\ h.owner = g.slots[i].conn
    BY <2>3, <2>5 DEF Game
  <2> QED
    BY <2>4, <2>6 DEF Hosted
<1> QED
  BY <1>1, <1>2

\* h is g after the player of place p has left.
Freed(g, h, p) ==
  /\ h \in Game /\ h.name = g.name /\ h.type = g.type /\ h.status = g.status /\ h.ref = g.ref - 1
  /\ DOMAIN h.slots = DOMAIN g.slots /\ Len(h.slots) = Len(g.slots)
  /\ \A i \in DOMAIN g.slots :
       /\ h.slots[i].account = g.slots[i].account /\ h.slots[i].report = g.slots[i].report
       /\ h.slots[i].conn = IF i = p THEN NULL ELSE g.slots[i].conn
  /\ Here(h) # {} => \E i \in Here(h) : h.owner = h.slots[i].conn

LEMMA FreeFacts ==
  ASSUME NEW g \in Game, NEW p \in DOMAIN g.slots, g.ref >= 1
  PROVE  Freed(g, game_choose_host([g EXCEPT !.slots[p].conn = NULL, !.ref = @ - 1]), p)
<1>1. /\ g.slots \in Seq(Slots) /\ DOMAIN g.slots = 1..Len(g.slots) /\ g.slots[p] \in Slots /\ g.ref \in Nat
  BY GameFacts
<1>2. PICK x : x = [g.slots[p] EXCEPT !.conn = NULL]
  OBVIOUS
<1>3. x \in Slots /\ x.conn = NULL /\ x.account = g.slots[p].account /\ x.report = g.slots[p].report
  BY <1>1, <1>2 DEF Slots
<1>4. PICK s : s = [g.slots EXCEPT ![p] = x]
  OBVIOUS
<1>5. s \in Seq(Slots) /\ DOMAIN s = DOMAIN g.slots /\ Len(s) = Len(g.slots)
  BY <1>1, <1>3, <1>4, ExceptSeq
<1>6. s[p] = x /\ \A i \in DOMAIN g.slots : i # p => s[i] = g.slots[i]
  BY <1>4
<1>7. PICK h : h = [g EXCEPT !.slots[p].conn = NULL, !.ref = @ - 1]
  OBVIOUS
<1>8. /\ h \in Game /\ h.slots = s /\ h.ref = g.ref - 1
      /\ h.name = g.name /\ h.type = g.type /\ h.status = g.status
  <2>1. h.slots = [g.slots EXCEPT ![p].conn = NULL] /\ h = [g EXCEPT !.slots = h.slots, !.ref = g.ref - 1]
    BY <1>7 DEF Game
  <2>2. h.slots = s
    BY <1>2, <1>4, <2>1
  <2>3. g.ref - 1 \in Nat
    BY <1>1
  <2> QED
    BY <1>5, <2>1, <2>2, <2>3 DEF Game
<1>9. PICK k : k = game_choose_host(h) /\ Hosted(h, k)
  BY <1>8, HostFacts
<1>10. Freed(g, k, p)
  <2>1. /\ k \in Game /\ k.slots = s /\ k.ref = g.ref - 1 /\ k.name = g.name /\ k.type = g.type
        /\ k.status = g.status
    BY <1>8, <1>9 DEF Hosted
  <2>2. Here(k) = Here(h)
    BY <1>8, <2>1 DEF Here
  <2>3. Here(k) # {} => \E i \in Here(k) : k.owner = k.slots[i].conn
    BY <1>8, <1>9, <2>1, <2>2 DEF Hosted
  <2>4. \A i \in DOMAIN g.slots :
          /\ k.slots[i].account = g.slots[i].account /\ k.slots[i].report = g.slots[i].report
          /\ k.slots[i].conn = IF i = p THEN NULL ELSE g.slots[i].conn
    BY <1>3, <1>6, <2>1
  <2> QED
    BY <1>5, <2>1, <2>3, <2>4 DEF Freed
<1> QED
  BY <1>7, <1>9, <1>10

\* h is g after c has come with account a to place k.
Seated(g, h, k, c, a) ==
  /\ h \in Game /\ h.name = g.name /\ h.type = g.type /\ h.status = g.status /\ h.ref = g.ref + 1
  /\ DOMAIN h.slots = DOMAIN g.slots \cup {k} /\ k \notin Here(g)
  /\ h.slots[k] = Slot(c, a) /\ \A i \in DOMAIN g.slots : i # k => h.slots[i] = g.slots[i]
  /\ k \in DOMAIN g.slots => Len(h.slots) = Len(g.slots)
  /\ k \notin DOMAIN g.slots => Here(g) = DOMAIN g.slots
  /\ Here(h) # {} => \E i \in Here(h) : h.owner = h.slots[i].conn

LEMMA SeatFacts ==
  ASSUME NEW g \in Game, NEW c \in Conn, NEW a \in Account
  PROVE  \E k : Seated(g, game_add_player(g, c, a), k, c, a)
<1>1. /\ g.slots \in Seq(Slots) /\ DOMAIN g.slots = 1..Len(g.slots) /\ Len(g.slots) \in Nat /\ g.ref \in Nat
      /\ Here(g) \subseteq DOMAIN g.slots
  BY GameFacts
<1>2. PICK x : x = Slot(c, a)
  OBVIOUS
<1>3. x \in Slots
  BY <1>2 DEF Slot, Slots
<1>4. PICK free : free = DOMAIN g.slots \ Here(g)
  OBVIOUS
<1>5. PICK s : s = IF free = {} THEN Append(g.slots, x) ELSE [g.slots EXCEPT ![Min(free)] = x]
  OBVIOUS
<1>6. PICK k : /\ s \in Seq(Slots)
               /\ DOMAIN s = DOMAIN g.slots \cup {k} /\ k \notin Here(g)
               /\ s[k] = x /\ \A i \in DOMAIN g.slots : i # k => s[i] = g.slots[i]
               /\ k \in DOMAIN g.slots => Len(s) = Len(g.slots)
               /\ k \notin DOMAIN g.slots => Here(g) = DOMAIN g.slots
  <2>1. CASE free = {}
    <3>1. /\ s \in Seq(Slots) /\ DOMAIN s = 1..(Len(g.slots) + 1)
          /\ \A i \in 1..Len(g.slots) : s[i] = g.slots[i]
          /\ s[Len(g.slots) + 1] = x
      BY <1>1, <1>3, <1>5, <2>1, AppendFacts
    <3>2. PICK k : k = Len(g.slots) + 1
      OBVIOUS
    <3>3. k \notin DOMAIN g.slots /\ DOMAIN s = DOMAIN g.slots \cup {k} /\ Here(g) = DOMAIN g.slots
      <4>1. Here(g) = DOMAIN g.slots
        BY <1>1, <1>4, <2>1
      <4>2. PICK n \in Nat : n = Len(g.slots)
        BY <1>1
      <4>3. n + 1 \notin 1..n /\ 1..(n + 1) = 1..n \cup {n + 1}
        OBVIOUS
      <4> QED
        BY <1>1, <3>1, <3>2, <4>1, <4>2, <4>3
    <3> QED
      BY <1>1, <3>1, <3>2, <3>3
  <2>2. CASE free # {}
    <3>1. free \in SUBSET Nat
      BY <1>1, <1>4
    <3>2. PICK k : k = Min(free) /\ k \in free
      BY <2>2, <3>1, MinFacts
    <3>3. s = [g.slots EXCEPT ![k] = x] /\ k \in DOMAIN g.slots /\ k \notin Here(g)
      BY <1>4, <1>5, <2>2, <3>2
    <3>4. s \in Seq(Slots) /\ DOMAIN s = DOMAIN g.slots /\ Len(s) = Len(g.slots)
      BY <1>1, <1>3, <3>3, ExceptSeq
    <3>5. s[k] = x /\ \A i \in DOMAIN g.slots : i # k => s[i] = g.slots[i]
      BY <3>3
    <3> QED
      BY <3>3, <3>4, <3>5
  <2> QED
    BY <2>1, <2>2
<1>7. PICK h : h = [g EXCEPT !.slots = s, !.ref = @ + 1]
  OBVIOUS
<1>8. /\ h \in Game /\ h.slots = s /\ h.ref = g.ref + 1
      /\ h.name = g.name /\ h.type = g.type /\ h.status = g.status
  <2>1. PICK r \in Nat : r = g.ref + 1
    BY <1>1
  <2>2. h = [g EXCEPT !.slots = s, !.ref = r]
    BY <1>7, <2>1 DEF Game
  <2>3. s \in Seq(Slots)
    BY <1>6
  <2> QED
    BY <2>1, <2>2, <2>3 DEF Game
<1>9. PICK q : q = game_choose_host(h) /\ Hosted(h, q)
  BY <1>8, HostFacts
<1>10. game_add_player(g, c, a) = q
  BY <1>2, <1>4, <1>5, <1>7, <1>9 DEF game_add_player
<1>11. Seated(g, q, k, c, a)
  <2>1. /\ q \in Game /\ q.slots = s /\ q.ref = g.ref + 1 /\ q.name = g.name /\ q.type = g.type
        /\ q.status = g.status
    BY <1>8, <1>9 DEF Hosted
  <2>2. Here(q) = Here(h)
    BY <1>8, <2>1 DEF Here
  <2>3. Here(q) # {} => \E i \in Here(q) : q.owner = q.slots[i].conn
    BY <1>8, <1>9, <2>1, <2>2 DEF Hosted
  <2> QED
    BY <1>2, <1>6, <2>1, <2>3 DEF Seated
<1> QED
  BY <1>10, <1>11

\* v is w, but for who plays what: c plays the game of id, or none.
Plays(w, v, c, id) ==
  /\ v \in Worlds /\ v.chan = w.chan
  /\ \A d \in Conn :
       /\ v.conn[d].state = w.conn[d].state /\ v.conn[d].account = w.conn[d].account
       /\ v.conn[d].channel = w.conn[d].channel /\ v.conn[d].tmpOP = w.conn[d].tmpOP
       /\ v.conn[d].game = IF d = c THEN id ELSE w.conn[d].game

\* One game of a world and who plays it.
GameOK(w, id, p, kick) == Counts(w, id) /\ Reports(w.game[id], p) /\ (kick \/ Places(w, id))

\* All games, when the player of place p of the game of id may have reported.
GamesBut(w, kick, id, p) ==
  /\ GameRefs(w) /\ Unique(w)
  /\ \A j \in GameId : w.game[j] # NULL => GameOK(w, j, IF j = id THEN p ELSE 0, kick) /\ Fresh(w.game[j])

\* h has the players, the places and the host of g.
SameSeats(g, h) ==
  /\ h.ref = g.ref /\ h.owner = g.owner /\ DOMAIN h.slots = DOMAIN g.slots
  /\ \A i \in DOMAIN g.slots : h.slots[i].conn = g.slots[i].conn /\ h.slots[i].account = g.slots[i].account

\* A game nobody enters or leaves.
SamePlayers(w, v, id) ==
  \A d \in Conn : /\ v.conn[d].game = id <=> w.conn[d].game = id
                  /\ w.conn[d].game = id => v.conn[d].account = w.conn[d].account

LEMMA SeatsKept ==
  ASSUME NEW w, NEW v, NEW id \in GameId, SameSeats(w.game[id], v.game[id]), SamePlayers(w, v, id)
  PROVE  /\ Counts(w, id) => Counts(v, id)
         /\ Places(w, id) => Places(v, id)
<1>0. PICK g, h : g = w.game[id] /\ h = v.game[id]
  OBVIOUS
<1>1. In(v, id) = In(w, id)
  BY DEF In, SamePlayers
<1>2. \A a : InAs(v, id, a) = InAs(w, id, a)
  BY <1>1 DEF InAs, In, SamePlayers
<1>3. Here(h) = Here(g) /\ \A i \in Here(g) : i \in DOMAIN g.slots
  BY <1>0 DEF Here, SameSeats
<1>4. \A a : HereAs(h, a) = HereAs(g, a)
  BY <1>0, <1>3 DEF HereAs, SameSeats
<1>5. Counts(w, id) => Counts(v, id)
  BY <1>0, <1>1, <1>2, <1>4 DEF Counts, SameSeats
<1>6. ASSUME Places(w, id) PROVE Places(v, id)
  <2>1. \A d \in In(w, id) : v.conn[d].account = w.conn[d].account
    BY DEF In, SamePlayers
  <2>2. \A i \in Here(h) : h.slots[i].conn \in In(v, id) /\ v.conn[h.slots[i].conn].account = h.slots[i].account
    <3> SUFFICES ASSUME NEW i \in Here(h)
                 PROVE  h.slots[i].conn \in In(v, id) /\ v.conn[h.slots[i].conn].account = h.slots[i].account
      OBVIOUS
    <3>1. i \in Here(g) /\ h.slots[i].conn = g.slots[i].conn /\ h.slots[i].account = g.slots[i].account
      BY <1>0, <1>3 DEF SameSeats
    <3>2. g.slots[i].conn \in In(w, id) /\ w.conn[g.slots[i].conn].account = g.slots[i].account
      BY <1>0, <1>6, <3>1 DEF Places
    <3> QED
      BY <1>1, <2>1, <3>1, <3>2
  <2>3. \A d \in In(v, id) : \E i \in DOMAIN h.slots : h.slots[i].conn = d
    <3> SUFFICES ASSUME NEW d \in In(v, id) PROVE \E i \in DOMAIN h.slots : h.slots[i].conn = d
      OBVIOUS
    <3>1. PICK i \in DOMAIN g.slots : g.slots[i].conn = d
      BY <1>0, <1>1, <1>6 DEF Places
    <3>2. i \in DOMAIN h.slots /\ h.slots[i].conn = g.slots[i].conn
      BY <1>0 DEF SameSeats
    <3> QED
      BY <3>1, <3>2
  <2>4. h.ref > 0 => h.owner \in In(v, id)
    BY <1>0, <1>1, <1>6 DEF Places, SameSeats
  <2> QED
    BY <1>0, <2>2, <2>3, <2>4 DEF Places
<1> QED
  BY <1>5, <1>6

LEMMA GameKept ==
  ASSUME NEW w, NEW v, NEW id \in GameId, NEW p, NEW kick \in BOOLEAN, GameOK(w, id, p, kick),
         v.game[id] = w.game[id],
         \A d \in Conn : /\ v.conn[d].game = id <=> w.conn[d].game = id
                         /\ w.conn[d].game = id => v.conn[d].account = w.conn[d].account
  PROVE  GameOK(v, id, p, kick)
<1>1. SameSeats(w.game[id], v.game[id]) /\ SamePlayers(w, v, id)
  BY DEF SameSeats, SamePlayers
<1> QED
  BY <1>1, SeatsKept DEF GameOK

\* v has the games of w with the same players.
SameGames(w, v) ==
  /\ v.game = w.game
  /\ \A d \in Conn : /\ v.conn[d].game = w.conn[d].game
                     /\ w.conn[d].game # NULL => v.conn[d].account = w.conn[d].account

LEMMA GamesKept ==
  ASSUME NEW w, NEW v, NEW kick \in BOOLEAN, NEW id, NEW p, GamesBut(w, kick, id, p), SameGames(w, v)
  PROVE  GamesBut(v, kick, id, p)
<1>1. GameRefs(v) /\ Unique(v)
  BY DEF SameGames, GamesBut, GameRefs, Unique, Open
<1>2. ASSUME NEW j \in GameId, v.game[j] # NULL PROVE GameOK(v, j, IF j = id THEN p ELSE 0, kick) /\ Fresh(v.game[j])
  <2>1. PICK q : q = IF j = id THEN p ELSE 0
    OBVIOUS
  <2>2. GameOK(w, j, q, kick) /\ Fresh(w.game[j])
    BY <1>2, <2>1 DEF SameGames, GamesBut
  <2>3. j # NULL
    BY BnetdGamesAssumption
  <2>4. /\ v.game[j] = w.game[j]
        /\ \A d \in Conn : /\ v.conn[d].game = j <=> w.conn[d].game = j
                           /\ w.conn[d].game = j => v.conn[d].account = w.conn[d].account
    BY <2>3 DEF SameGames
  <2> QED
    BY <2>1, <2>2, <2>4, GameKept
<1> QED
  BY <1>1, <1>2 DEF GamesBut

LEMMA GamesSplit ==
  ASSUME NEW w, NEW kick, NEW id
  PROVE  GamesBut(w, kick, id, 0) <=> Games(w, kick)
BY DEF GamesBut, Games, GameOK

\* A world in which the game of id is x and c plays the game of to, or none.
Replay(w, id, x, c, to) == [[w EXCEPT !.game[id] = x] EXCEPT !.conn[c].game = to]

LEMMA PlaySteps ==
  ASSUME NEW w \in Worlds, NEW c \in Conn, NEW id \in GameId, NEW x \in Maybe(Game), NEW to \in Maybe(GameId),
         NEW v, v = Replay(w, id, x, c, to)
  PROVE  /\ Plays(w, v, c, to)
         /\ v.game[id] = x /\ \A j \in GameId : j # id => v.game[j] = w.game[j]
<1>1. /\ w.conn \in [Conn -> ConnRec] /\ w.chan \in Seq(Channels) /\ w.game \in [GameId -> Maybe(Game)]
      /\ w.conn[c] \in ConnRec /\ IsWorld(w)
  BY WorldFacts
<1>2. PICK r : r = [w.conn[c] EXCEPT !.game = to]
  OBVIOUS
<1>3. PICK u, g : u = [w.conn EXCEPT ![c] = r] /\ g = [w.game EXCEPT ![id] = x]
  OBVIOUS
<1>4. v.conn = u /\ v.chan = w.chan /\ v.game = g /\ IsWorld(v)
  BY <1>1, <1>2, <1>3 DEF IsWorld, Replay
<1>5. /\ r \in ConnRec /\ r.state = w.conn[c].state /\ r.account = w.conn[c].account
      /\ r.channel = w.conn[c].channel /\ r.tmpOP = w.conn[c].tmpOP /\ r.game = to
  BY <1>1, <1>2 DEF ConnRec
<1>6. u \in [Conn -> ConnRec] /\ u[c] = r /\ \A d \in Conn : d # c => u[d] = w.conn[d]
  BY <1>1, <1>3, <1>5
<1>7. g \in [GameId -> Maybe(Game)] /\ g[id] = x /\ \A j \in GameId : j # id => g[j] = w.game[j]
  BY <1>1, <1>3
<1>8. v \in Worlds
  BY <1>1, <1>4, <1>6, <1>7 DEF Worlds, IsWorld
<1>9. Plays(w, v, c, to)
  BY <1>4, <1>5, <1>6, <1>8 DEF Plays
<1> QED
  BY <1>4, <1>7, <1>9

\* v is w after c has left the game of id, for which the place p was freed.
LeftGame(w, v, c, id, p) ==
  /\ Plays(w, v, c, NULL) /\ \A j \in GameId : j # id => v.game[j] = w.game[j]
  /\ w.game[id].ref < 2 => v.game[id] = NULL
  /\ w.game[id].ref >= 2 => Freed(w.game[id], v.game[id], p)

\* LeaveGame, step by step.
LEMMA LeaveSteps ==
  ASSUME NEW w \in Worlds, NEW c \in Conn, NEW id \in GameId, id = w.conn[c].game, w.game[id] # NULL,
         NEW a, a = w.conn[c].account, HereAs(w.game[id], a) # {},
         NEW v, v = LeaveGame(w, c)
  PROVE  LeftGame(w, v, c, id, Min(HereAs(w.game[id], a)))
<1>1. id # NULL
  BY BnetdGamesAssumption
<1>2. PICK g \in Game : g = w.game[id]
  BY WorldFacts DEF Maybe
<1>3. PICK p : p = Min(HereAs(g, a))
  OBVIOUS
<1>4. {i \in Here(g) : g.slots[i].account = w.conn[c].account} = HereAs(g, a)
  BY DEF HereAs
<1>5. p \in DOMAIN g.slots
  <2>1. HereAs(g, a) \in SUBSET Nat /\ HereAs(g, a) \subseteq DOMAIN g.slots /\ HereAs(g, a) # {}
    BY <1>2, GameFacts DEF HereAs
  <2> QED
    BY <1>3, <2>1, MinFacts
<1>6. v = [game_del_player(w, id, c) EXCEPT !.conn[c].game = NULL]
  BY <1>1 DEF LeaveGame
<1>7. PICK h : h = game_choose_host([g EXCEPT !.slots[p].conn = NULL, !.ref = @ - 1])
  OBVIOUS
<1>8. game_del_player(w, id, c) =
        IF g.ref < 2 THEN [w EXCEPT !.game[id] = NULL] ELSE [w EXCEPT !.game[id] = h]
  BY <1>2, <1>3, <1>4, <1>7 DEF game_del_player, game_destroy
<1>9. g.ref \in Nat
  BY GameFacts
<1>10. CASE g.ref < 2
  <2>1. v = Replay(w, id, NULL, c, NULL)
    BY <1>6, <1>8, <1>10 DEF Replay
  <2>2. /\ Plays(w, v, c, NULL)
        /\ v.game[id] = NULL /\ \A j \in GameId : j # id => v.game[j] = w.game[j]
    <3>1. NULL \in Maybe(Game) /\ NULL \in Maybe(GameId)
      BY DEF Maybe
    <3> QED
      BY <2>1, <3>1, PlaySteps
  <2> QED
    BY <1>2, <1>9, <1>10, <2>2 DEF LeftGame
<1>11. CASE g.ref >= 2
  <2>1. v = Replay(w, id, h, c, NULL)
    <3>1. ~(g.ref < 2)
      BY <1>9, <1>11
    <3>2. game_del_player(w, id, c) = [w EXCEPT !.game[id] = h]
      BY <1>8, <3>1
    <3> QED
      BY <1>6, <3>2 DEF Replay
  <2>2. Freed(g, h, p)
    <3>1. g.ref >= 1
      BY <1>9, <1>11
    <3> QED
      BY <1>5, <1>7, <3>1, FreeFacts
  <2>3. h \in Maybe(Game)
    BY <2>2 DEF Freed, Maybe
  <2>4. /\ Plays(w, v, c, NULL)
        /\ v.game[id] = h /\ \A j \in GameId : j # id => v.game[j] = w.game[j]
    BY <2>1, <2>3, PlaySteps DEF Maybe
  <2>5. w.game[id].ref = g.ref /\ ~(g.ref < 2)
    BY <1>2, <1>9, <1>11
  <2>6. Freed(w.game[id], v.game[id], p)
    BY <1>2, <2>2, <2>4
  <2> QED
    BY <1>2, <1>3, <2>4, <2>5, <2>6 DEF LeftGame
<1> QED
  BY <1>9, <1>10, <1>11

\* One element less, one element more.
LEMMA LessOne ==
  ASSUME NEW S, IsFiniteSet(S), NEW x \in S, NEW T, T = S \ {x}
  PROVE  Cardinality(T) = Cardinality(S) - 1
BY FS_RemoveElement

LEMMA MoreOne ==
  ASSUME NEW S, IsFiniteSet(S), NEW x, x \notin S, NEW T, T = S \cup {x}
  PROVE  Cardinality(T) = Cardinality(S) + 1
BY FS_AddElement

\* The connections that play a game are finitely many.
LEMMA InFacts ==
  ASSUME NEW w, NEW id
  PROVE  /\ IsFiniteSet(In(w, id)) /\ Cardinality(In(w, id)) \in Nat
         /\ \A a : IsFiniteSet(InAs(w, id, a)) /\ Cardinality(InAs(w, id, a)) \in Nat
<1>1. In(w, id) \in SUBSET Conn /\ \A a : InAs(w, id, a) \in SUBSET Conn
  BY DEF In, InAs
<1>2. IsFiniteSet(In(w, id)) /\ \A a : IsFiniteSet(InAs(w, id, a))
  BY <1>1, BnetdGamesAssumption, FS_Subset
<1> QED
  BY <1>2, FS_CardinalityType

\* The places an account has in a game.
LEMMA HereFacts ==
  ASSUME NEW g \in Game, NEW a
  PROVE  /\ IsFiniteSet(HereAs(g, a)) /\ Cardinality(HereAs(g, a)) \in Nat
         /\ HereAs(g, a) \subseteq Here(g) /\ HereAs(g, a) \in SUBSET Nat
         /\ HereAs(g, a) # {} => Min(HereAs(g, a)) \in HereAs(g, a)
<1>1. HereAs(g, a) \in SUBSET Here(g) /\ IsFiniteSet(Here(g)) /\ Here(g) \in SUBSET Nat
  BY GameFacts DEF HereAs
<1>2. IsFiniteSet(HereAs(g, a))
  BY <1>1, FS_Subset
<1> QED
  BY <1>1, <1>2, FS_CardinalityType, MinFacts

\* Who plays a game has a place.
LEMMA PlaceHere ==
  ASSUME NEW w \in Worlds, NEW id \in GameId, w.game[id] # NULL, Counts(w, id),
         NEW c \in Conn, w.conn[c].game = id, w.conn[c].account # NULL
  PROVE  /\ HereAs(w.game[id], w.conn[c].account) # {} /\ w.game[id].ref >= 1
         /\ w.game[id].ref < 2 => In(w, id) = {c}
<1>1. PICK g \in Game : g = w.game[id]
  BY WorldFacts DEF Maybe
<1>2. PICK a \in Account : a = w.conn[c].account
  BY WorldFacts DEF Maybe
<1>3. c \in In(w, id) /\ c \in InAs(w, id, a)
  BY <1>2 DEF In, InAs
<1>4. /\ IsFiniteSet(In(w, id)) /\ Cardinality(In(w, id)) \in Nat
      /\ IsFiniteSet(InAs(w, id, a)) /\ Cardinality(InAs(w, id, a)) \in Nat
  BY InFacts
<1>5. Cardinality(In(w, id)) # 0 /\ Cardinality(InAs(w, id, a)) # 0
  BY <1>3, <1>4, FS_EmptySet
<1>6. g.ref = Cardinality(In(w, id)) /\ Cardinality(HereAs(g, a)) = Cardinality(InAs(w, id, a))
  BY <1>1 DEF Counts
<1>7. HereAs(g, a) # {}
  BY <1>5, <1>6, FS_EmptySet
<1>8. g.ref < 2 => In(w, id) = {c}
  <2> HAVE g.ref < 2
  <2>1. Cardinality(In(w, id)) = 1
    BY <1>4, <1>5, <1>6
  <2>2. PICK x : In(w, id) = {x}
    BY <1>4, <2>1, FS_Singleton
  <2> QED
    BY <1>3, <2>2
<1> QED
  BY <1>1, <1>2, <1>4, <1>5, <1>6, <1>7, <1>8

\* The game of id after c has left it.
LEMMA FreedOK ==
  ASSUME NEW w \in Worlds, NEW c \in Conn, NEW id \in GameId, w.game[id] # NULL,
         NEW a \in Account, a = w.conn[c].account, w.conn[c].game = id,
         NEW p, p = Min(HereAs(w.game[id], a)),
         NEW q \in {0, p}, NEW kick \in BOOLEAN, GameOK(w, id, q, kick), kick \/ Sole(w),
         NEW v, Plays(w, v, c, NULL), w.game[id].ref >= 2, Freed(w.game[id], v.game[id], p)
  PROVE  GameOK(v, id, 0, kick) /\ Fresh(v.game[id])
<1>1. PICK g \in Game : g = w.game[id]
  BY WorldFacts DEF Maybe
<1>2. PICK h \in Game : h = v.game[id]
  BY DEF Freed
<1>3. /\ h.type = g.type /\ h.ref = g.ref - 1
      /\ DOMAIN h.slots = DOMAIN g.slots /\ Len(h.slots) = Len(g.slots)
      /\ \A i \in DOMAIN g.slots :
           /\ h.slots[i].account = g.slots[i].account /\ h.slots[i].report = g.slots[i].report
           /\ h.slots[i].conn = IF i = p THEN NULL ELSE g.slots[i].conn
      /\ Here(h) # {} => \E i \in Here(h) : h.owner = h.slots[i].conn
  BY <1>1, <1>2 DEF Freed
<1>4. Counts(w, id) /\ Reports(g, q) /\ (kick \/ Places(w, id))
  BY <1>1 DEF GameOK
<1>5. a # NULL /\ id # NULL
  BY BnetdGamesAssumption
<1>6. p \in HereAs(g, a) /\ HereAs(g, a) # {}
  BY <1>1, <1>4, <1>5, PlaceHere, HereFacts
<1>7. p \in Here(g) /\ p \in DOMAIN g.slots /\ g.slots[p].account = a
  BY <1>6 DEF HereAs, Here
<1>8. In(v, id) = In(w, id) \ {c} /\ c \in In(w, id)
  BY <1>5 DEF Plays, In
<1>9. Here(h) = Here(g) \ {p}
  <2>1. \A i \in DOMAIN g.slots : h.slots[i].conn # NULL <=> i # p /\ g.slots[i].conn # NULL
    BY <1>3
  <2> QED
    BY <1>3, <2>1 DEF Here
<1>10. InAs(v, id, a) = InAs(w, id, a) \ {c} /\ c \in InAs(w, id, a)
  BY <1>8 DEF Plays, InAs, In
<1>11. \A b \in Account : b # a => InAs(v, id, b) = InAs(w, id, b)
  BY <1>8 DEF Plays, InAs, In
<1>12. HereAs(h, a) = HereAs(g, a) \ {p}
  BY <1>3, <1>9 DEF HereAs, Here
<1>13. \A b \in Account : b # a => HereAs(h, b) = HereAs(g, b)
  BY <1>3, <1>7, <1>9 DEF HereAs, Here
<1>14. g.ref \in Nat /\ g.ref >= 2
  BY <1>1, GameFacts
<1>15. Counts(v, id)
  <2>1. h.ref = Cardinality(In(v, id))
    <3>1. Cardinality(In(v, id)) = Cardinality(In(w, id)) - 1
      BY <1>8, InFacts, LessOne
    <3> QED
      BY <1>1, <1>3, <1>4, <3>1 DEF Counts
  <2>2. Cardinality(HereAs(h, a)) = Cardinality(InAs(v, id, a))
    <3>1. Cardinality(InAs(v, id, a)) = Cardinality(InAs(w, id, a)) - 1
      <4>1. IsFiniteSet(InAs(w, id, a))
        BY InFacts
      <4> QED
        BY <1>10, <4>1, LessOne
    <3>2. Cardinality(HereAs(h, a)) = Cardinality(HereAs(g, a)) - 1
      BY <1>6, <1>12, HereFacts, LessOne
    <3> QED
      BY <1>1, <1>4, <3>1, <3>2 DEF Counts
  <2>3. \A b \in Account : Cardinality(HereAs(h, b)) = Cardinality(InAs(v, id, b))
    BY <1>1, <1>4, <1>11, <1>13, <2>2 DEF Counts
  <2> QED
    BY <1>2, <2>1, <2>3 DEF Counts
<1>16. Reports(h, 0)
  BY <1>3, <1>4 DEF Reports
<1>17. ASSUME ~kick PROVE Places(v, id)
  <2>1. Places(w, id) /\ Sole(w)
    BY <1>4, <1>17
  <2>2. \A i \in Here(g) :
          g.slots[i].conn \in In(w, id) /\ w.conn[g.slots[i].conn].account = g.slots[i].account
    BY <1>1, <2>1 DEF Places
  <2>3. g.slots[p].conn = c
    <3>1. PICK d \in Conn : d = g.slots[p].conn /\ w.conn[d].account = a
      BY <1>7, <2>2 DEF In
    <3> QED
      BY <1>5, <2>1, <3>1 DEF Sole
  <2>4. \A i \in Here(g) : g.slots[i].conn = c => i = p
    <3> SUFFICES ASSUME NEW i \in Here(g), g.slots[i].conn = c PROVE i = p
      OBVIOUS
    <3>1. i \in HereAs(g, a)
      BY <2>2 DEF HereAs
    <3>2. InAs(w, id, a) = {c}
      <4>1. \A d \in InAs(w, id, a) : d \in Conn /\ w.conn[d].account = a
        BY DEF InAs, In
      <4>2. \A d \in InAs(w, id, a) : d = c
        BY <1>5, <2>1, <4>1 DEF Sole
      <4> QED
        BY <1>10, <4>2
    <3>3. Cardinality(HereAs(g, a)) = 1
      <4>1. Cardinality(HereAs(g, a)) = Cardinality(InAs(w, id, a))
        BY <1>1, <1>4 DEF Counts
      <4>2. Cardinality({c}) = 1
        BY FS_Singleton
      <4> QED
        BY <3>2, <4>1, <4>2
    <3>4. PICK x : HereAs(g, a) = {x}
      BY <3>3, HereFacts, FS_Singleton
    <3> QED
      BY <1>6, <3>1, <3>4
  <2>5. \A i \in Here(h) : h.slots[i].conn \in In(v, id) /\ v.conn[h.slots[i].conn].account = h.slots[i].account
    <3> SUFFICES ASSUME NEW i \in Here(h)
                 PROVE  h.slots[i].conn \in In(v, id) /\ v.conn[h.slots[i].conn].account = h.slots[i].account
      OBVIOUS
    <3>1. i \in Here(g) /\ i # p /\ i \in DOMAIN g.slots
      BY <1>9 DEF Here
    <3>2. PICK d : d = g.slots[i].conn
      OBVIOUS
    <3>3. h.slots[i].conn = d /\ h.slots[i].account = g.slots[i].account
      BY <1>3, <3>1, <3>2
    <3>4. d \in In(w, id) /\ d # c /\ w.conn[d].account = g.slots[i].account
      BY <2>2, <2>4, <3>1, <3>2
    <3>5. d \in In(v, id) /\ v.conn[d].account = w.conn[d].account
      BY <1>8, <3>4 DEF In, Plays
    <3> QED
      BY <3>3, <3>4, <3>5
  <2>6. ASSUME NEW d \in In(v, id) PROVE \E i \in DOMAIN h.slots : h.slots[i].conn = d
    <3>1. d \in In(w, id) /\ d # c
      BY <1>8
    <3>2. PICK i \in DOMAIN g.slots : g.slots[i].conn = d
      BY <1>1, <2>1, <3>1 DEF Places
    <3>3. i # p
      BY <2>3, <3>1, <3>2
    <3> QED
      BY <1>3, <3>2, <3>3
  <2>7. h.owner \in In(v, id)
    <3>1. In(v, id) # {}
      <4>1. h.ref # 0 /\ h.ref = Cardinality(In(v, id))
        BY <1>2, <1>3, <1>14, <1>15 DEF Counts
      <4> QED
        BY <4>1, FS_EmptySet
    <3>2. PICK d \in In(v, id) : d # NULL
      BY <3>1, BnetdGamesAssumption DEF In
    <3>3. Here(h) # {}
      BY <2>6, <3>2 DEF Here
    <3> QED
      BY <1>3, <2>5, <3>3
  <2> QED
    BY <1>2, <2>5, <2>6, <2>7 DEF Places
<1>18. Fresh(h)
  BY <1>3, <1>14 DEF Fresh
<1> QED
  BY <1>2, <1>15, <1>16, <1>17, <1>18 DEF GameOK

\* The game of id after c has come to it.
LEMMA SeatedOK ==
  ASSUME NEW w \in Worlds, NEW c \in Conn, NEW id \in GameId, w.game[id] # NULL,
         NEW a \in Account, a = w.conn[c].account, w.conn[c].game = NULL,
         NEW kick \in BOOLEAN, GameOK(w, id, 0, kick),
         NEW v, Plays(w, v, c, id), NEW k, Seated(w.game[id], v.game[id], k, c, a)
  PROVE  GameOK(v, id, 0, kick) /\ Fresh(v.game[id])
<1>1. PICK g \in Game : g = w.game[id]
  BY WorldFacts DEF Maybe
<1>2. PICK h \in Game : h = v.game[id]
  BY DEF Seated
<1>3. /\ h.ref = g.ref + 1
      /\ DOMAIN h.slots = DOMAIN g.slots \cup {k} /\ k \notin Here(g)
      /\ h.slots[k] = Slot(c, a) /\ \A i \in DOMAIN g.slots : i # k => h.slots[i] = g.slots[i]
      /\ k \in DOMAIN g.slots => Len(h.slots) = Len(g.slots)
      /\ k \notin DOMAIN g.slots => Here(g) = DOMAIN g.slots
      /\ Here(h) # {} => \E i \in Here(h) : h.owner = h.slots[i].conn
  BY <1>1, <1>2 DEF Seated
<1>4. Counts(w, id) /\ Reports(g, 0) /\ (kick \/ Places(w, id))
  BY <1>1 DEF GameOK
<1>5. id # NULL /\ c # NULL
  BY BnetdGamesAssumption
<1>6. h.slots[k].conn = c /\ h.slots[k].account = a /\ h.slots[k].report = 0
  BY <1>3 DEF Slot
<1>7. In(v, id) = In(w, id) \cup {c} /\ c \notin In(w, id)
  BY <1>5 DEF Plays, In
<1>8. Here(h) = Here(g) \cup {k}
  BY <1>3, <1>5, <1>6 DEF Here
<1>9. InAs(v, id, a) = InAs(w, id, a) \cup {c} /\ c \notin InAs(w, id, a)
  BY <1>7 DEF Plays, InAs, In
<1>10. \A b \in Account : b # a => InAs(v, id, b) = InAs(w, id, b)
  BY <1>7 DEF Plays, InAs, In
<1>11. \A i \in Here(g) : i # k /\ h.slots[i] = g.slots[i]
  BY <1>3 DEF Here
<1>12. HereAs(h, a) = HereAs(g, a) \cup {k} /\ k \notin HereAs(g, a)
  BY <1>3, <1>6, <1>8, <1>11 DEF HereAs
<1>13. \A b \in Account : b # a => HereAs(h, b) = HereAs(g, b)
  BY <1>6, <1>8, <1>11 DEF HereAs
<1>14. g.ref \in Nat
  BY <1>1, GameFacts
<1>15. Counts(v, id)
  <2>1. h.ref = Cardinality(In(v, id))
    <3>1. Cardinality(In(v, id)) = Cardinality(In(w, id)) + 1
      BY <1>7, InFacts, MoreOne
    <3> QED
      BY <1>1, <1>3, <1>4, <3>1 DEF Counts
  <2>2. Cardinality(HereAs(h, a)) = Cardinality(InAs(v, id, a))
    <3>1. Cardinality(InAs(v, id, a)) = Cardinality(InAs(w, id, a)) + 1
      BY <1>9, InFacts, MoreOne
    <3>2. Cardinality(HereAs(h, a)) = Cardinality(HereAs(g, a)) + 1
      BY <1>12, HereFacts, MoreOne
    <3> QED
      BY <1>1, <1>4, <3>1, <3>2 DEF Counts
  <2>3. \A b \in Account : Cardinality(HereAs(h, b)) = Cardinality(InAs(v, id, b))
    BY <1>1, <1>4, <1>10, <1>13, <2>2 DEF Counts
  <2> QED
    BY <1>2, <2>1, <2>3 DEF Counts
<1>16. Reports(h, 0)
  <2> SUFFICES ASSUME NEW i \in DOMAIN h.slots, h.slots[i].report # 0
               PROVE  h.slots[i].conn = NULL /\ h.slots[i].report = Len(h.slots)
    BY DEF Reports
  <2>1. i # k /\ i \in DOMAIN g.slots /\ h.slots[i] = g.slots[i]
    BY <1>3, <1>6
  <2>2. i # 0
    BY <2>1, GameFacts
  <2>3. g.slots[i].conn = NULL /\ g.slots[i].report = Len(g.slots)
    BY <1>4, <2>1, <2>2 DEF Reports
  <2>4. i \notin Here(g)
    BY <2>3 DEF Here
  <2> QED
    BY <1>3, <2>1, <2>3, <2>4
<1>17. ASSUME ~kick PROVE Places(v, id)
  <2>1. Places(w, id)
    BY <1>4, <1>17
  <2>2. \A i \in Here(h) : h.slots[i].conn \in In(v, id) /\ v.conn[h.slots[i].conn].account = h.slots[i].account
    <3> SUFFICES ASSUME NEW i \in Here(h)
                 PROVE  h.slots[i].conn \in In(v, id) /\ v.conn[h.slots[i].conn].account = h.slots[i].account
      OBVIOUS
    <3>0. \A d \in In(v, id) : v.conn[d].account = w.conn[d].account
      BY DEF Plays, In
    <3>1. CASE i = k
      BY <1>6, <1>7, <3>0, <3>1
    <3>2. CASE i # k
      <4>1. i \in Here(g) /\ h.slots[i] = g.slots[i]
        BY <1>8, <1>11, <3>2
      <4>2. g.slots[i].conn \in In(w, id) /\ w.conn[g.slots[i].conn].account = g.slots[i].account
        BY <1>1, <2>1, <4>1 DEF Places
      <4> QED
        BY <1>7, <3>0, <4>1, <4>2
    <3> QED
      BY <3>1, <3>2
  <2>3. ASSUME NEW d \in In(v, id) PROVE \E i \in DOMAIN h.slots : h.slots[i].conn = d
    <3>1. CASE d = c
      BY <1>3, <1>6, <3>1
    <3>2. CASE d # c
      <4>1. d \in In(w, id) /\ d # NULL
        BY <1>7, <3>2, BnetdGamesAssumption DEF In
      <4>2. PICK i \in DOMAIN g.slots : g.slots[i].conn = d
        BY <1>1, <2>1, <4>1 DEF Places
      <4>3. i \in Here(g)
        BY <4>1, <4>2 DEF Here
      <4> QED
        BY <1>3, <1>11, <4>2, <4>3
    <3> QED
      BY <3>1, <3>2
  <2>4. h.owner \in In(v, id)
    BY <1>3, <1>8, <2>2
  <2> QED
    BY <1>2, <2>2, <2>3, <2>4 DEF Places
<1>18. Fresh(h)
  BY <1>3, <1>14 DEF Fresh
<1> QED
  BY <1>2, <1>15, <1>16, <1>17, <1>18 DEF GameOK

\* LeaveGame, also after a report for the place that is then freed.
LEMMA LeaveFacts ==
  ASSUME NEW w \in Worlds, Stages(w), NEW kick \in BOOLEAN, kick \/ Sole(w), NEW c \in Conn,
         NEW id, id = w.conn[c].game, NEW p, GamesBut(w, kick, id, p),
         id = NULL => p = 0,
         id # NULL => p \in {0, Min(HereAs(w.game[id], w.conn[c].account))},
         NEW v, v = LeaveGame(w, c)
  PROVE  /\ Plays(w, v, c, NULL) /\ Games(v, kick)
         /\ \A j \in GameId : j # id => v.game[j] = w.game[j]
<1>1. CASE id = NULL
  <2>1. v = w
    BY <1>1 DEF LeaveGame
  <2>2. Games(w, kick)
    BY <1>1, GamesSplit
  <2>3. Plays(w, w, c, NULL)
    BY <1>1 DEF Plays
  <2> QED
    BY <2>1, <2>2, <2>3
<1>2. CASE id # NULL
  <2>1. id \in GameId /\ w.game[id] # NULL /\ w.conn[c].account # NULL
    BY <1>2, WorldFacts DEF Maybe, GamesBut, GameRefs, Stages
  <2>2. PICK a \in Account : a = w.conn[c].account
    BY <2>1, WorldFacts DEF Maybe
  <2>3. PICK z : z = Min(HereAs(w.game[id], a))
    OBVIOUS
  <2>4. p \in {0, z} /\ GameOK(w, id, p, kick) /\ Counts(w, id)
    BY <1>2, <2>1, <2>2, <2>3 DEF GamesBut, GameOK
  <2>5. HereAs(w.game[id], a) # {} /\ w.game[id].ref >= 1 /\ (w.game[id].ref < 2 => In(w, id) = {c})
    BY <2>1, <2>2, <2>4, PlaceHere
  <2>6. LeftGame(w, v, c, id, z)
    BY <2>1, <2>2, <2>3, <2>5, LeaveSteps
  <2>7. /\ Plays(w, v, c, NULL) /\ \A j \in GameId : j # id => v.game[j] = w.game[j]
        /\ w.game[id].ref < 2 => v.game[id] = NULL
        /\ w.game[id].ref >= 2 => Freed(w.game[id], v.game[id], z)
    BY <2>6 DEF LeftGame
  <2>8. \A d \in Conn : /\ v.conn[d].game = IF d = c THEN NULL ELSE w.conn[d].game
                        /\ v.conn[d].account = w.conn[d].account
    BY <2>7 DEF Plays
  <2>9. w.game[id].ref \in Nat
    <3>1. w.game[id] \in Game
      BY <2>1, WorldFacts DEF Maybe
    <3> QED
      BY <3>1, GameFacts
  <2>10. w.game[id].ref >= 2 => v.game[id] # NULL /\ v.game[id].name = w.game[id].name /\ v.game[id].status = w.game[id].status
    BY <2>7, GameFacts DEF Freed
  <2>11. GameRefs(v)
    <3> SUFFICES ASSUME NEW d \in Conn, v.conn[d].game # NULL PROVE v.game[v.conn[d].game] # NULL
      BY DEF GameRefs
    <3>1. d # c /\ v.conn[d].game = w.conn[d].game /\ w.game[w.conn[d].game] # NULL /\ w.conn[d].game \in GameId
      BY <2>8, WorldFacts DEF GamesBut, GameRefs, Maybe
    <3>2. CASE w.conn[d].game # id
      BY <2>7, <3>1, <3>2
    <3>3. CASE w.conn[d].game = id
      <4>1. d \in In(w, id)
        BY <3>3 DEF In
      <4>2. w.game[id].ref >= 2
        BY <2>5, <2>9, <3>1, <4>1
      <4> QED
        BY <2>10, <3>1, <3>3, <4>2
    <3> QED
      BY <3>2, <3>3
  <2>12. Unique(v)
    <3>1. \A j \in GameId : Open(v, j) => Open(w, j) /\ v.game[j].name = w.game[j].name
      <4> SUFFICES ASSUME NEW j \in GameId, Open(v, j) PROVE Open(w, j) /\ v.game[j].name = w.game[j].name
        OBVIOUS
      <4>1. CASE j # id
        BY <2>7, <4>1 DEF Open
      <4>2. CASE j = id
        <5>1. w.game[id].ref >= 2
          <6>1. v.game[id] # NULL
            BY <4>2 DEF Open
          <6>2. ~(w.game[id].ref < 2)
            BY <2>7, <6>1
          <6> QED
            BY <2>9, <6>2
        <5>2. /\ v.game[id].name = w.game[id].name /\ v.game[id].status = w.game[id].status
              /\ w.game[id] # NULL
          BY <2>1, <2>10, <5>1
        <5> QED
          BY <4>2, <5>2 DEF Open
      <4> QED
        BY <4>1, <4>2
    <3> QED
      BY <3>1 DEF GamesBut, Unique
  <2>13. ASSUME NEW j \in GameId, v.game[j] # NULL PROVE GameOK(v, j, 0, kick) /\ Fresh(v.game[j])
    <3>1. CASE j = id
      <4>1. w.game[id].ref >= 2
        BY <2>7, <2>9, <2>13, <3>1
      <4>2. /\ Freed(w.game[id], v.game[id], z)
            /\ Plays(w, v, c, NULL)
        BY <2>7, <4>1
      <4>3. GameOK(v, id, 0, kick) /\ Fresh(v.game[id])
        BY <2>1, <2>2, <2>3, <2>4, <4>1, <4>2, FreedOK
      <4> QED
        BY <3>1, <4>3
    <3>2. CASE j # id
      <4>1. v.game[j] = w.game[j] /\ j # NULL
        BY <2>7, <3>2, BnetdGamesAssumption
      <4>2. GameOK(w, j, 0, kick) /\ Fresh(w.game[j])
        BY <2>13, <3>2, <4>1 DEF GamesBut
      <4>3. \A d \in Conn : /\ v.conn[d].game = j <=> w.conn[d].game = j
                            /\ w.conn[d].game = j => v.conn[d].account = w.conn[d].account
        BY <2>8, <3>2, <4>1
      <4> QED
        BY <4>1, <4>2, <4>3, GameKept
    <3> QED
      BY <3>1, <3>2
  <2>14. GamesBut(v, kick, id, 0)
    BY <2>11, <2>12, <2>13 DEF GamesBut
  <2>15. Games(v, kick)
    BY <2>14, GamesSplit
  <2> QED
    BY <2>7, <2>15
<1> QED
  BY <1>1, <1>2

\* All games, when the one of id may just have been created.
GamesNear(w, kick, id) ==
  /\ GameRefs(w) /\ Unique(w) /\ w.game[id] # NULL
  /\ \A j \in GameId : w.game[j] # NULL => GameOK(w, j, 0, kick) /\ (j # id => Fresh(w.game[j]))

\* game_add_player in conn_set_game
LEMMA SeatWorld ==
  ASSUME NEW w \in Worlds, NEW kick \in BOOLEAN, NEW id \in GameId, GamesNear(w, kick, id),
         NEW c \in Conn, w.conn[c].game = NULL, NEW a \in Account, a = w.conn[c].account,
         NEW v, v = Replay(w, id, game_add_player(w.game[id], c, a), c, id)
  PROVE  Plays(w, v, c, id) /\ Games(v, kick)
<1>1. PICK g \in Game : g = w.game[id]
  BY WorldFacts DEF Maybe, GamesNear
<1>2. PICK x : x = game_add_player(g, c, a)
  OBVIOUS
<1>3. PICK k : Seated(g, x, k, c, a)
  BY <1>2, SeatFacts
<1>4. x \in Game /\ x # NULL /\ x.name = g.name /\ x.status = g.status
  BY <1>3, GameFacts DEF Seated
<1>5. /\ Plays(w, v, c, id)
      /\ v.game[id] = x /\ \A j \in GameId : j # id => v.game[j] = w.game[j]
  <2>1. x \in Maybe(Game) /\ id \in Maybe(GameId) /\ v = Replay(w, id, x, c, id)
    BY <1>1, <1>2, <1>4 DEF Maybe
  <2> QED
    BY <2>1, PlaySteps
<1>6. \A d \in Conn : /\ v.conn[d].game = IF d = c THEN id ELSE w.conn[d].game
                      /\ v.conn[d].account = w.conn[d].account
  BY <1>5 DEF Plays
<1>7. GameRefs(v)
  <2> SUFFICES ASSUME NEW d \in Conn, v.conn[d].game # NULL PROVE v.game[v.conn[d].game] # NULL
    BY DEF GameRefs
  <2>1. PICK j \in GameId : j = v.conn[d].game /\ w.game[j] # NULL
    BY <1>6, WorldFacts DEF GamesNear, GameRefs, Maybe
  <2> QED
    BY <1>4, <1>5, <2>1
<1>8. Unique(v)
  <2>1. \A j \in GameId : Open(v, j) => Open(w, j) /\ v.game[j].name = w.game[j].name
    BY <1>1, <1>4, <1>5 DEF Open, GamesNear
  <2> QED
    BY <2>1 DEF GamesNear, Unique
<1>9. ASSUME NEW j \in GameId, v.game[j] # NULL PROVE GameOK(v, j, 0, kick) /\ Fresh(v.game[j])
  <2>1. CASE j = id
    <3>1. GameOK(w, id, 0, kick) /\ w.game[id] # NULL /\ Seated(w.game[id], v.game[id], k, c, a)
      BY <1>1, <1>3, <1>5 DEF GamesNear
    <3> QED
      BY <1>5, <2>1, <3>1, SeatedOK
  <2>2. CASE j # id
    <3>1. v.game[j] = w.game[j] /\ j # NULL
      BY <1>5, <2>2, BnetdGamesAssumption
    <3>2. GameOK(w, j, 0, kick) /\ Fresh(w.game[j])
      BY <1>9, <2>2, <3>1 DEF GamesNear
    <3>3. \A d \in Conn : /\ v.conn[d].game = j <=> w.conn[d].game = j
                          /\ w.conn[d].game = j => v.conn[d].account = w.conn[d].account
      BY <1>6, <2>2, <3>1
    <3>4. GameOK(v, j, 0, kick)
      BY ONLY <3>1, <3>2, <3>3, GameKept, j \in GameId, kick \in BOOLEAN
    <3> QED
      BY <3>1, <3>2, <3>4
  <2> QED
    BY <2>1, <2>2
<1>10. GamesBut(v, kick, id, 0)
  BY <1>7, <1>8, <1>9 DEF GamesBut
<1> QED
  BY <1>5, <1>10, GamesSplit

\* game_create in conn_set_game
LEMMA CreateGame ==
  ASSUME NEW w \in Worlds, NEW kick \in BOOLEAN, Games(w, kick), NEW id \in Unused(w),
         NEW name \in GameName, NEW type \in {"normal", "ladder"}, Available(w, name) = {},
         NEW v, v = [w EXCEPT !.game[id] = NewGame(name, type)]
  PROVE  /\ v \in Worlds /\ v.conn = w.conn /\ v.chan = w.chan
         /\ GamesNear(v, kick, id) /\ (type = "ladder" => Games(v, kick))
<1>1. PICK x : x = NewGame(name, type)
  OBVIOUS
<1>2. id \in GameId /\ w.game[id] = NULL /\ id # NULL
  BY BnetdGamesAssumption DEF Unused
<1>3. /\ w.conn \in [Conn -> ConnRec] /\ w.chan \in Seq(Channels) /\ w.game \in [GameId -> Maybe(Game)]
      /\ IsWorld(w)
  BY WorldFacts
<1>4. /\ x \in Game /\ x.name = name /\ x.type = type /\ x.status = "open" /\ x.slots = <<>> /\ x.ref = 0
  <2>1. <<>> \in Seq(Slots)
    BY EmptySeq
  <2> QED
    BY <1>1, <2>1 DEF NewGame, Game
<1>5. PICK g : g = [w.game EXCEPT ![id] = x]
  OBVIOUS
<1>6. v.conn = w.conn /\ v.chan = w.chan /\ v.game = g /\ IsWorld(v)
  BY <1>1, <1>3, <1>5 DEF IsWorld
<1>7. g \in [GameId -> Maybe(Game)] /\ g[id] = x /\ \A j \in GameId : j # id => g[j] = w.game[j]
  BY <1>2, <1>3, <1>4, <1>5 DEF Maybe
<1>8. v \in Worlds
  BY <1>3, <1>6, <1>7 DEF Worlds, IsWorld
<1>9. x # NULL
  BY <1>4, GameFacts
<1>10. \A d \in Conn : w.conn[d].game # id
  BY <1>2 DEF Games, GameRefs
<1>11. GameRefs(v)
  <2>1. \A d \in Conn : w.conn[d].game # NULL => w.conn[d].game \in GameId /\ w.game[w.conn[d].game] # NULL
    BY WorldFacts DEF Games, GameRefs, Maybe
  <2> QED
    BY <1>6, <1>7, <1>10, <2>1 DEF GameRefs
<1>12. Unique(v)
  <2>1. \A j \in GameId : Open(w, j) => w.game[j].name # name
    BY DEF Available, Open
  <2>2. \A j \in GameId : j # id /\ Open(v, j) => Open(w, j) /\ v.game[j].name = w.game[j].name
    BY <1>6, <1>7 DEF Open
  <2>3. v.game[id].name = name
    BY <1>4, <1>6, <1>7
  <2> QED
    BY <2>1, <2>2, <2>3 DEF Games, Unique
<1>13. GameOK(v, id, 0, kick)
  <2>1. In(v, id) = {} /\ \A a : InAs(v, id, a) = {}
    BY <1>6, <1>10 DEF In, InAs
  <2>2. v.game[id] = x
    BY <1>6, <1>7
  <2>3. DOMAIN x.slots = {} /\ Here(x) = {}
    BY <1>4 DEF Here
  <2>4. \A a : HereAs(x, a) = {}
    BY <2>3 DEF HereAs
  <2>5. Counts(v, id)
    BY <1>4, <2>1, <2>2, <2>4, FS_EmptySet DEF Counts
  <2>6. Reports(x, 0)
    BY <2>3 DEF Reports
  <2>7. Places(v, id)
    BY <1>4, <2>1, <2>2, <2>3 DEF Places
  <2> QED
    BY <2>2, <2>5, <2>6, <2>7 DEF GameOK
<1>14. ASSUME NEW j \in GameId, v.game[j] # NULL, j # id PROVE GameOK(v, j, 0, kick) /\ Fresh(v.game[j])
  <2>1. v.game[j] = w.game[j]
    BY <1>6, <1>7, <1>14
  <2>2. GameOK(w, j, 0, kick) /\ Fresh(w.game[j])
    BY <1>14, <2>1 DEF Games, GameOK
  <2>3. \A d \in Conn : /\ v.conn[d].game = j <=> w.conn[d].game = j
                        /\ w.conn[d].game = j => v.conn[d].account = w.conn[d].account
    BY <1>6
  <2>4. GameOK(v, j, 0, kick)
    BY ONLY <2>1, <2>2, <2>3, GameKept, j \in GameId, kick \in BOOLEAN
  <2> QED
    BY <2>1, <2>2, <2>4
<1>15. GamesNear(v, kick, id)
  BY <1>6, <1>7, <1>9, <1>11, <1>12, <1>13, <1>14 DEF GamesNear
<1>16. ASSUME type = "ladder" PROVE Games(v, kick)
  <2>1. Fresh(v.game[id])
    BY <1>4, <1>6, <1>7, <1>16 DEF Fresh
  <2>2. GamesBut(v, kick, id, 0)
    BY <1>11, <1>12, <1>13, <1>14, <2>1 DEF GamesBut
  <2> QED
    BY <2>2, GamesSplit
<1> QED
  BY <1>6, <1>8, <1>15, <1>16

\* The parts of EnterGame: the world with a new game x of id, and the game
\* entered, if there is one.
Made(w, id, x) == [w EXCEPT !.game[id] = x]
EnterAt(w, w1, id, c, a, out) ==
  IF id = NULL THEN w
  ELSE IF out THEN w1
  ELSE [w1 EXCEPT !.game[id] = game_add_player(@, c, a), !.conn[c].game = id]

\* EnterGame of a player who is in no game; who creates one has its password.
LEMMA EnterFacts ==
  ASSUME NEW w \in Worlds, NEW kick \in BOOLEAN, Games(w, kick),
         NEW c \in Conn, w.conn[c].game = NULL, w.conn[c].account # NULL,
         NEW name \in GameName, NEW type \in {"normal", "ladder"}, NEW pass \in BOOLEAN,
         Available(w, name) # {} \/ (pass /\ Unused(w) # {}),
         NEW v, v = EnterGame(w, c, name, type, pass)
  PROVE  Games(v, kick) /\ \E to \in Maybe(GameId) : Plays(w, v, c, to)
<1>1. PICK a \in Account : a = w.conn[c].account
  BY WorldFacts DEF Maybe
<1>2. PICK open : open = gamelist_find_game_available(w, name, type)
  OBVIOUS
<1>3. open # NULL => open \in Available(w, name) /\ open \in GameId /\ w.game[open] # NULL
  <2>1. PICK G : G = {g \in Available(w, name) : w.game[g].type = type}
    OBVIOUS
  <2>2. open = IF G = {} THEN NULL ELSE CHOOSE g \in G : TRUE
    BY <1>2, <2>1 DEF gamelist_find_game_available
  <2>3. open # NULL => open \in G
    BY <2>2
  <2> QED
    BY <2>1, <2>3 DEF Available
<1>4. PICK out \in BOOLEAN : out = (~pass \/ (type = "ladder" /\ a \notin Wins))
  OBVIOUS
<1>5. NULL \in Maybe(GameId) /\ Plays(w, w, c, NULL)
  BY DEF Plays, Maybe
<1>6. CASE open = NULL /\ Available(w, name) # {}
  <2>1. v = w
    BY <1>2, <1>6 DEF EnterGame
  <2> QED
    BY <1>5, <2>1
<1>7. CASE open # NULL
  <2>1. v = IF out THEN w ELSE [w EXCEPT !.game[open] = game_add_player(@, c, a), !.conn[c].game = open]
    BY <1>1, <1>2, <1>4, <1>7 DEF EnterGame
  <2>2. CASE out
    BY <1>5, <2>1, <2>2
  <2>3. CASE ~out
    <3>1. v = Replay(w, open, game_add_player(w.game[open], c, a), c, open)
      BY <2>1, <2>3, <1>3, <1>7, WorldFacts DEF Replay, IsWorld
    <3>2. GamesNear(w, kick, open)
      BY <1>3, <1>7 DEF GamesNear, Games, GameOK
    <3>3. Plays(w, v, c, open) /\ Games(v, kick)
      BY <1>1, <1>3, <1>7, <3>1, <3>2, SeatWorld
    <3>4. open \in Maybe(GameId)
      BY <1>3, <1>7 DEF Maybe
    <3> QED
      BY <3>3, <3>4
  <2> QED
    BY <2>2, <2>3
<1>8. CASE Available(w, name) = {}
  <2>1. open = NULL /\ pass /\ Unused(w) # {}
    BY <1>3, <1>8
  <2>2. PICK id \in Unused(w) : id = Min(Unused(w))
    <3>1. Unused(w) \in SUBSET Nat
      BY BnetdGamesAssumption DEF Unused
    <3> QED
      BY <2>1, <3>1, MinFacts
  <2>3. id \in GameId /\ id # NULL /\ id \in Maybe(GameId)
    BY BnetdGamesAssumption DEF Unused, Maybe
  <2>4. PICK w1 : w1 = [w EXCEPT !.game[id] = NewGame(name, type)]
    OBVIOUS
  <2>5. /\ w1 \in Worlds /\ w1.conn = w.conn /\ w1.chan = w.chan
        /\ GamesNear(w1, kick, id) /\ (type = "ladder" => Games(w1, kick))
    BY <1>8, <2>4, CreateGame
  <2>6. v = IF out THEN w1 ELSE [w1 EXCEPT !.game[id] = game_add_player(@, c, a), !.conn[c].game = id]
    <3> DEFINE found == gamelist_find_game_available(w, name, type)
               create == found = NULL /\ Available(w, name) = {}
               i == IF create THEN Min(Unused(w)) ELSE found
               m == IF create THEN Made(w, i, NewGame(name, type)) ELSE w
    <3>1. v = EnterAt(w, m, i, c, w.conn[c].account, ~pass \/ (type = "ladder" /\ w.conn[c].account \notin Wins))
      BY DEF EnterGame, EnterAt, Made
    <3>2. i = id /\ m = w1
      BY <1>2, <1>8, <2>1, <2>2, <2>4 DEF Made
    <3> HIDE DEF i, m
    <3>3. v = EnterAt(w, w1, id, c, a, out)
      BY <1>1, <1>4, <3>1, <3>2
    <3> QED
      BY <2>3, <3>3 DEF EnterAt
  <2>7. CASE out
    <3>1. Games(w1, kick)
      BY <1>4, <2>1, <2>5, <2>7
    <3>2. Plays(w, w1, c, NULL)
      BY <2>5 DEF Plays
    <3> QED
      BY <1>5, <2>6, <2>7, <3>1, <3>2
  <2>8. CASE ~out
    <3>1. v = Replay(w1, id, game_add_player(w1.game[id], c, a), c, id)
      BY <2>3, <2>5, <2>6, <2>8, WorldFacts DEF Replay, IsWorld
    <3>2. Plays(w1, v, c, id) /\ Games(v, kick)
      BY <1>1, <2>3, <2>5, <3>1, SeatWorld
    <3>3. Plays(w, v, c, id)
      BY <2>5, <3>2 DEF Plays
    <3> QED
      BY <2>3, <3>2, <3>3
  <2> QED
    BY <2>7, <2>8
<1> QED
  BY <1>6, <1>7, <1>8

\* conn_set_game
LEMMA SetGameFacts ==
  ASSUME NEW w \in Worlds, Stages(w), NEW kick \in BOOLEAN, kick \/ Sole(w), Games(w, kick),
         NEW c \in Conn, w.conn[c].account # NULL,
         NEW name \in GameName, NEW type \in {"normal", "ladder"}, NEW pass \in BOOLEAN,
         Available(w, name) # {} \/ (pass /\ Unused(w) # {} /\ w.conn[c].game = NULL),
         NEW v, v = conn_set_game(w, c, name, type, pass)
  PROVE  Games(v, kick) /\ \E to \in Maybe(GameId) : Plays(w, v, c, to)
<1>1. PICK id \in Maybe(GameId) : id = w.conn[c].game
  BY WorldFacts
<1>2. CASE id # NULL /\ w.game[id].name = name
  <2>1. v = w
    BY <1>1, <1>2 DEF conn_set_game
  <2>2. Plays(w, w, c, id)
    BY <1>1 DEF Plays
  <2> QED
    BY <2>1, <2>2
<1>3. CASE ~(id # NULL /\ w.game[id].name = name)
  <2>1. PICK w1 : w1 = LeaveGame(w, c)
    OBVIOUS
  <2>2. v = EnterGame(w1, c, name, type, pass)
    BY <1>1, <1>3, <2>1 DEF conn_set_game
  <2>3. /\ Plays(w, w1, c, NULL) /\ Games(w1, kick)
        /\ \A j \in GameId : j # id => w1.game[j] = w.game[j]
    <3>1. GamesBut(w, kick, id, 0)
      BY GamesSplit
    <3> QED
      BY <1>1, <2>1, <3>1, LeaveFacts
  <2>4. w1 \in Worlds /\ w1.conn[c].game = NULL /\ w1.conn[c].account # NULL
    BY <2>3 DEF Plays
  <2>5. Available(w1, name) # {} \/ (pass /\ Unused(w1) # {})
    <3>1. CASE Available(w, name) # {}
      <4>1. PICK g : g \in Available(w, name)
        BY <3>1
      <4>2. g \in GameId /\ w.game[g].name = name /\ g # NULL
        BY <4>1, BnetdGamesAssumption DEF Available
      <4>3. g # id
        BY <1>3, <4>2
      <4>4. w1.game[g] = w.game[g]
        BY <2>3, <4>2, <4>3
      <4> QED
        BY <4>1, <4>4 DEF Available
    <3>2. CASE pass /\ Unused(w) # {} /\ w.conn[c].game = NULL
      BY <2>1, <3>2 DEF LeaveGame
    <3> QED
      BY <3>1, <3>2
  <2>6. Games(v, kick) /\ \E to \in Maybe(GameId) : Plays(w1, v, c, to)
    BY <2>2, <2>3, <2>4, <2>5, EnterFacts
  <2>7. PICK to \in Maybe(GameId) : Plays(w1, v, c, to)
    BY <2>6
  <2>8. Plays(w, v, c, to)
    BY <2>3, <2>7 DEF Plays
  <2> QED
    BY <2>6, <2>8
<1> QED
  BY <1>2, <1>3

\* game_set_status
LEMMA StatusFacts ==
  ASSUME NEW w \in Worlds, NEW kick \in BOOLEAN, Games(w, kick), NEW id \in GameId, w.game[id] # NULL,
         NEW status \in {"open", "full", "loaded", "started", "done"}, NEW v, v = game_set_status(w, id, status)
  PROVE  v \in Worlds /\ v.conn = w.conn /\ v.chan = w.chan /\ Games(v, kick)
<1>1. PICK g \in Game : g = w.game[id]
  BY WorldFacts DEF Maybe
<1>2. PICK keep \in BOOLEAN :
        keep = (\/ g.status = "started" /\ status \in {"open", "full", "loaded"}
                \/ g.status = "done")
  OBVIOUS
<1>3. v = IF keep THEN w ELSE [w EXCEPT !.game[id].status = status]
  BY <1>1, <1>2 DEF game_set_status
<1>4. CASE keep
  BY <1>3, <1>4
<1>5. CASE ~keep
  <2>1. PICK h : h = [g EXCEPT !.status = status]
    OBVIOUS
  <2>2. /\ h \in Game /\ h.name = g.name /\ h.type = g.type /\ h.status = status
        /\ h.slots = g.slots /\ h.ref = g.ref /\ h.owner = g.owner
    BY <2>1 DEF Game
  <2>3. /\ w.conn \in [Conn -> ConnRec] /\ w.chan \in Seq(Channels) /\ w.game \in [GameId -> Maybe(Game)]
        /\ IsWorld(w)
    BY WorldFacts
  <2>4. PICK gs : gs = [w.game EXCEPT ![id] = h]
    OBVIOUS
  <2>5. v.conn = w.conn /\ v.chan = w.chan /\ v.game = gs /\ IsWorld(v)
    BY <1>1, <1>3, <1>5, <2>1, <2>3, <2>4 DEF IsWorld
  <2>6. gs \in [GameId -> Maybe(Game)] /\ gs[id] = h /\ \A j \in GameId : j # id => gs[j] = w.game[j]
    BY <2>2, <2>3, <2>4 DEF Maybe
  <2>7. v \in Worlds
    BY <2>3, <2>5, <2>6 DEF Worlds, IsWorld
  <2>8. h # NULL
    BY <2>2, GameFacts
  <2>9. GameRefs(v)
    <3>1. \A d \in Conn : w.conn[d].game # NULL => w.conn[d].game \in GameId /\ w.game[w.conn[d].game] # NULL
      BY WorldFacts DEF Games, GameRefs, Maybe
    <3> QED
      BY <2>5, <2>6, <2>8, <3>1 DEF GameRefs
  <2>10. Unique(v)
    <3>1. Open(v, id) => Open(w, id) /\ v.game[id].name = w.game[id].name
      BY <1>1, <1>2, <1>5, <2>2, <2>5, <2>6 DEF Open
    <3>2. \A j \in GameId : Open(v, j) => Open(w, j) /\ v.game[j].name = w.game[j].name
      BY <2>5, <2>6, <3>1 DEF Open
    <3> QED
      BY <3>2 DEF Games, Unique
  <2>11. ASSUME NEW j \in GameId, v.game[j] # NULL PROVE GameOK(v, j, 0, kick) /\ Fresh(v.game[j])
    <3>1. /\ v.game[j].slots = w.game[j].slots /\ v.game[j].ref = w.game[j].ref
          /\ v.game[j].owner = w.game[j].owner /\ v.game[j].type = w.game[j].type /\ w.game[j] # NULL
      BY <1>1, <2>2, <2>5, <2>6, <2>11
    <3>2. Counts(w, j) /\ Fresh(w.game[j]) /\ Reports(w.game[j], 0) /\ (kick \/ Places(w, j))
      BY <3>1 DEF Games
    <3>3. SameSeats(w.game[j], v.game[j]) /\ SamePlayers(w, v, j)
      BY <2>5, <3>1 DEF SameSeats, SamePlayers
    <3>4. Counts(v, j) /\ (kick \/ Places(v, j))
      BY <3>2, <3>3, SeatsKept
    <3>5. Reports(v.game[j], 0) /\ Fresh(v.game[j])
      BY <3>1, <3>2 DEF Reports, Fresh
    <3> QED
      BY <3>4, <3>5 DEF GameOK
  <2>12. GamesBut(v, kick, id, 0)
    BY <2>9, <2>10, <2>11 DEF GamesBut
  <2> QED
    BY <2>5, <2>7, <2>12, GamesSplit
<1> QED
  BY <1>4, <1>5

\* game_set_reported_results: who has reported leaves next.
LEMMA ReportFacts ==
  ASSUME NEW w \in Worlds, NEW kick \in BOOLEAN, Games(w, kick), NEW id \in GameId, w.game[id] # NULL,
         NEW c \in Conn, w.conn[c].game = id, w.conn[c].account # NULL,
         NEW v, v = game_set_reported_results(w, id, c)
  PROVE  /\ v \in Worlds /\ v.conn = w.conn /\ v.chan = w.chan
         /\ \E p \in {0, Min(HereAs(v.game[id], w.conn[c].account))} : GamesBut(v, kick, id, p)
<1>1. PICK g \in Game : g = w.game[id]
  BY WorldFacts DEF Maybe
<1>2. PICK a \in Account : a = w.conn[c].account
  BY WorldFacts DEF Maybe
<1>3. PICK places : places = {i \in DOMAIN g.slots : g.slots[i].account = a}
  OBVIOUS
<1>4. v = IF places = {} \/ g.slots[Min(places)].report # 0 THEN w
          ELSE [w EXCEPT !.game[id].slots[Min(places)].report = Len(g.slots)]
  BY <1>1, <1>2, <1>3 DEF game_set_reported_results
<1>5. CASE v = w
  BY <1>5, GamesSplit
<1>6. CASE v # w
  <2>1. places # {} /\ v = [w EXCEPT !.game[id].slots[Min(places)].report = Len(g.slots)]
    BY <1>4, <1>6
  <2>2. /\ g.slots \in Seq(Slots) /\ DOMAIN g.slots = 1..Len(g.slots) /\ Len(g.slots) \in Nat
        /\ \A i \in DOMAIN g.slots : g.slots[i] \in Slots
    BY GameFacts
  <2>3. places \in SUBSET Nat
    BY <1>3, <2>2
  <2>4. PICK q : q = Min(places) /\ q \in places /\ \A i \in places : q <= i
    BY <2>1, <2>3, MinFacts
  <2>5. q \in DOMAIN g.slots /\ g.slots[q].account = a /\ g.slots[q] \in Slots
    BY <1>3, <2>2, <2>4
  <2>6. PICK x : x = [g.slots[q] EXCEPT !.report = Len(g.slots)]
    OBVIOUS
  <2>7. x \in Slots /\ x.conn = g.slots[q].conn /\ x.account = g.slots[q].account /\ x.report = Len(g.slots)
    BY <2>2, <2>5, <2>6 DEF Slots
  <2>8. PICK s : s = [g.slots EXCEPT ![q] = x]
    OBVIOUS
  <2>9. s \in Seq(Slots) /\ DOMAIN s = DOMAIN g.slots /\ Len(s) = Len(g.slots)
    BY <2>2, <2>5, <2>7, <2>8, ExceptSeq
  <2>10. s[q] = x /\ \A i \in DOMAIN g.slots : i # q => s[i] = g.slots[i]
    BY <2>5, <2>8
  <2>11. PICK h : h = [g EXCEPT !.slots = s]
    OBVIOUS
  <2>12. /\ h \in Game /\ h.name = g.name /\ h.type = g.type /\ h.status = g.status
         /\ h.slots = s /\ h.ref = g.ref /\ h.owner = g.owner
    BY <2>9, <2>11 DEF Game
  <2>13. /\ w.conn \in [Conn -> ConnRec] /\ w.chan \in Seq(Channels) /\ w.game \in [GameId -> Maybe(Game)]
         /\ IsWorld(w)
    BY WorldFacts
  <2>14. PICK gs : gs = [w.game EXCEPT ![id] = h]
    OBVIOUS
  <2>15. v.conn = w.conn /\ v.chan = w.chan /\ v.game = gs /\ IsWorld(v)
    <3>1. [w.game[id] EXCEPT !.slots[q].report = Len(g.slots)] = h
      BY <1>1, <2>6, <2>8, <2>11
    <3>2. v = [w EXCEPT !.game[id] = h]
      BY <2>1, <2>4, <3>1
    <3> QED
      BY <2>13, <2>14, <3>2 DEF IsWorld
  <2>16. gs \in [GameId -> Maybe(Game)] /\ gs[id] = h /\ \A j \in GameId : j # id => gs[j] = w.game[j]
    BY <2>12, <2>13, <2>14 DEF Maybe
  <2>17. v \in Worlds
    BY <2>13, <2>15, <2>16 DEF Worlds, IsWorld
  <2>18. h # NULL
    BY <2>12, GameFacts
  <2>19. GameRefs(v)
    <3>1. \A d \in Conn : w.conn[d].game # NULL => w.conn[d].game \in GameId /\ w.game[w.conn[d].game] # NULL
      BY WorldFacts DEF Games, GameRefs, Maybe
    <3> QED
      BY <2>15, <2>16, <2>18, <3>1 DEF GameRefs
  <2>20. Unique(v)
    <3>1. \A j \in GameId : Open(v, j) => Open(w, j) /\ v.game[j].name = w.game[j].name
      BY <1>1, <2>12, <2>15, <2>16 DEF Open
    <3> QED
      BY <3>1 DEF Games, Unique
  <2>21. \A j \in GameId : SameSeats(w.game[j], v.game[j]) /\ SamePlayers(w, v, j)
    <3>1. SameSeats(g, h)
      BY <2>7, <2>9, <2>10, <2>12 DEF SameSeats
    <3>2. \A j \in GameId : j # id => SameSeats(w.game[j], v.game[j])
      BY <2>15, <2>16 DEF SameSeats
    <3>3. SameSeats(w.game[id], v.game[id])
      BY <1>1, <2>15, <2>16, <3>1
    <3> QED
      BY <2>15, <3>2, <3>3 DEF SamePlayers
  <2>22. PICK p : p = IF q \in Here(g) THEN q ELSE 0
    OBVIOUS
  <2>23. Reports(h, p)
    <3> SUFFICES ASSUME NEW i \in DOMAIN h.slots, h.slots[i].report # 0
                 PROVE  (h.slots[i].conn = NULL \/ i = p) /\ h.slots[i].report = Len(h.slots)
      BY DEF Reports
    <3>1. CASE i = q
      BY <2>5, <2>7, <2>9, <2>10, <2>12, <2>22, <3>1 DEF Here
    <3>2. CASE i # q
      <4>1. i \in DOMAIN g.slots /\ h.slots[i] = g.slots[i] /\ i # 0
        BY <2>2, <2>9, <2>10, <2>12, <3>2
      <4>2. Reports(g, 0)
        BY <1>1 DEF Games
      <4> QED
        BY <2>9, <2>12, <4>1, <4>2 DEF Reports
    <3> QED
      BY <3>1, <3>2
  <2>24. p \in {0, Min(HereAs(h, a))}
    <3>1. Here(h) = Here(g)
      BY <2>7, <2>9, <2>10, <2>12 DEF Here
    <3>2. HereAs(h, a) \subseteq places
      BY <1>3, <2>7, <2>9, <2>10, <2>12, <3>1 DEF HereAs, Here
    <3>3. ASSUME q \in Here(g) PROVE q = Min(HereAs(h, a))
      <4>1. q \in HereAs(h, a)
        BY <2>5, <2>7, <2>10, <2>12, <3>1, <3>3 DEF HereAs
      <4>2. HereAs(h, a) \in SUBSET Nat /\ HereAs(h, a) # {}
        BY <2>3, <3>2, <4>1
      <4>3. Min(HereAs(h, a)) \in HereAs(h, a) /\ Min(HereAs(h, a)) <= q
        BY <4>1, <4>2, MinFacts
      <4>4. q <= Min(HereAs(h, a)) /\ Min(HereAs(h, a)) \in Nat /\ q \in Nat
        BY <2>3, <2>4, <3>2, <4>3
      <4> QED
        BY <4>3, <4>4
    <3> QED
      BY <2>22, <3>3
  <2>25. ASSUME NEW j \in GameId, v.game[j] # NULL
         PROVE  GameOK(v, j, IF j = id THEN p ELSE 0, kick) /\ Fresh(v.game[j])
    <3>1. w.game[j] # NULL
      BY <2>15, <2>16, <2>25
    <3>2. Counts(w, j) /\ Fresh(w.game[j]) /\ Reports(w.game[j], 0) /\ (kick \/ Places(w, j))
      BY <3>1 DEF Games
    <3>3. Counts(v, j) /\ (kick \/ Places(v, j))
      BY <2>21, <3>2, SeatsKept
    <3>4. CASE j = id
      <4>1. v.game[id] = h
        BY <2>15, <2>16
      <4>2. g.ref >= 1
        BY <1>1, <3>2, <3>4, PlaceHere
      <4>3. Fresh(h)
        BY <2>12, <4>2 DEF Fresh
      <4> QED
        BY <2>23, <3>3, <3>4, <4>1, <4>3 DEF GameOK
    <3>5. CASE j # id
      BY <2>15, <2>16, <3>2, <3>3, <3>5 DEF GameOK
    <3> QED
      BY <3>4, <3>5
  <2>26. GamesBut(v, kick, id, p)
    BY <2>19, <2>20, <2>25 DEF GamesBut
  <2>27. v.game[id] = h
    BY <2>15, <2>16
  <2> QED
    BY <1>2, <2>15, <2>17, <2>24, <2>26, <2>27
<1> QED
  BY <1>5, <1>6

-----------------------------------------------------------------------------
(* The invariant of a world                                                *)

\* The invariant without the games.
ChatInv(w, kick) == w \in Worlds /\ Stages(w) /\ ChanLinks(w) /\ (kick \/ Sole(w))

SameLogins(w, v) ==
  \A d \in Conn : v.conn[d].state = w.conn[d].state /\ v.conn[d].account = w.conn[d].account

\* What an account has for its connection is one that has the account.
Owned(w, ac) == \A a \in Account : \A c \in Conn : ac[a] = c => w.conn[c].account = a

\* From w to v nobody has logged in or out, no channel of users was left empty
\* and nobody came to a channel from which he is banned; or nobody came to any.
Carries(w, v) ==
  /\ SameLogins(w, v) /\ (Kept(w, NULL) => Kept(v, NULL))
  /\ \A ac : Owned(w, ac) /\ Bans(w, ac, {}) => Bans(v, ac, {})
Stays(w, v) == \A d \in Conn : v.conn[d].channel \in {NULL, w.conn[d].channel}
Keeps(w, v) == Carries(w, v) /\ Stays(w, v)

LEMMA CarriesTrans ==
  ASSUME NEW w, NEW x, NEW v, Carries(w, x), Carries(x, v)
  PROVE  Carries(w, v)
<1>1. \A ac : Owned(w, ac) => Owned(x, ac)
  BY DEF Carries, SameLogins, Owned
<1>2. SameLogins(w, v)
  BY DEF Carries, SameLogins
<1> QED
  BY <1>1, <1>2 DEF Carries

LEMMA KeepsTrans ==
  ASSUME NEW w, NEW x, NEW v, Keeps(w, x), Keeps(x, v)
  PROVE  Keeps(w, v)
<1>1. Carries(w, v)
  BY CarriesTrans DEF Keeps
<1> QED
  BY <1>1 DEF Keeps, Stays

\* Who moves between channels changes nothing else.
LEMMA MovesInv ==
  ASSUME NEW w, NEW v \in Worlds, NEW kick \in BOOLEAN, NEW c \in Conn, WorldInv(w, kick),
         Moves(w, v, c), ChanLinks(v), v.conn[c].channel # NULL => w.conn[c].account # NULL
  PROVE  WorldInv(v, kick) /\ SameLogins(w, v) /\ SameGames(w, v)
<1>1. SameLogins(w, v) /\ SameGames(w, v)
  BY DEF Moves, SameLogins, SameGames
<1>2. Stages(v) /\ (kick \/ Sole(v))
  BY DEF WorldInv, Stages, Sole, Moves
<1>3. Games(v, kick)
  <2>1. GamesBut(w, kick, NULL, 0)
    BY GamesSplit DEF WorldInv
  <2>2. GamesBut(v, kick, NULL, 0)
    BY <1>1, <2>1, GamesKept
  <2> QED
    BY <2>2, GamesSplit
<1> QED
  BY <1>1, <1>2, <1>3 DEF WorldInv

\* Who enters or leaves a game changes nothing else.
LEMMA PlaysInv ==
  ASSUME NEW w, NEW v, NEW kick \in BOOLEAN, NEW c \in Conn, NEW to, ChatInv(w, kick),
         Plays(w, v, c, to), Games(v, kick), to # NULL => w.conn[c].account # NULL
  PROVE  WorldInv(v, kick) /\ Keeps(w, v)
<1>1. SameLogins(w, v) /\ SameChat(w, v) /\ v \in Worlds
  BY DEF Plays, SameLogins, SameChat
<1>2. Stages(v) /\ (kick \/ Sole(v))
  BY DEF ChatInv, Stages, Sole, Plays
<1>3. /\ ChanLinks(v)
      /\ \A ac, D : Bans(w, ac, D) => Bans(v, ac, D)
      /\ \A id : Kept(w, id) => Kept(v, id)
  BY <1>1, ChatKept DEF ChatInv
<1>4. Stays(w, v)
  BY DEF Plays, Stays
<1> QED
  BY <1>1, <1>2, <1>3, <1>4 DEF WorldInv, Keeps, Carries

\* conn_part_channel
LEMMA PartInv ==
  ASSUME NEW w, NEW kick \in BOOLEAN, NEW c \in Conn, WorldInv(w, kick), NEW v, v = conn_part_channel(w, c)
  PROVE  /\ WorldInv(v, kick) /\ Keeps(w, v) /\ SameGames(w, v)
         /\ v.conn[c].channel = NULL
<1>1. /\ v \in Worlds /\ Moves(w, v, c) /\ v.conn[c].channel = NULL
      /\ ChanLinks(v)
      /\ \A ac, D : Bans(w, ac, D) => Bans(v, ac, D \ {c})
      /\ \A id : Kept(w, id) => Kept(v, id)
  BY PartChannel DEF WorldInv
<1>2. WorldInv(v, kick) /\ SameLogins(w, v) /\ SameGames(w, v)
  BY <1>1, MovesInv
<1>3. {} \ {c} = {}
  OBVIOUS
<1>4. \A ac : Bans(w, ac, {}) => Bans(v, ac, {})
  BY <1>1, <1>3
<1>5. Stays(w, v)
  BY <1>1 DEF Moves, Stays
<1> QED
  BY <1>1, <1>2, <1>4, <1>5 DEF Keeps, Carries

\* LeaveGame
LEMMA LeaveInv ==
  ASSUME NEW w, NEW kick \in BOOLEAN, NEW c \in Conn, WorldInv(w, kick), NEW v, v = LeaveGame(w, c)
  PROVE  WorldInv(v, kick) /\ Keeps(w, v) /\ Plays(w, v, c, NULL)
<1>1. PICK id : id = w.conn[c].game
  OBVIOUS
<1>2. GamesBut(w, kick, id, 0)
  BY GamesSplit DEF WorldInv
<1>3. Plays(w, v, c, NULL) /\ Games(v, kick)
  BY <1>1, <1>2, LeaveFacts DEF WorldInv
<1>4. ChatInv(w, kick)
  BY DEF WorldInv, ChatInv
<1> QED
  BY <1>3, <1>4, PlaysInv

\* A report, and the game left.
LEMMA ReportInv ==
  ASSUME NEW w, NEW kick \in BOOLEAN, NEW c \in Conn, WorldInv(w, kick), NEW id, id = w.conn[c].game, id # NULL,
         NEW v, v = LeaveGame(game_set_reported_results(w, id, c), c)
  PROVE  WorldInv(v, kick) /\ Keeps(w, v) /\ Plays(w, v, c, NULL)
<1>1. id \in GameId /\ w.game[id] # NULL /\ w.conn[c].account # NULL /\ w \in Worlds
  BY WorldFacts DEF WorldInv, Games, GameRefs, Stages, Maybe
<1>2. PICK x : x = game_set_reported_results(w, id, c)
  OBVIOUS
<1>3. /\ x \in Worlds /\ x.conn = w.conn /\ x.chan = w.chan
      /\ \E p \in {0, Min(HereAs(x.game[id], w.conn[c].account))} : GamesBut(x, kick, id, p)
  BY <1>1, <1>2, ReportFacts DEF WorldInv
<1>4. PICK p \in {0, Min(HereAs(x.game[id], w.conn[c].account))} : GamesBut(x, kick, id, p)
  BY <1>3
<1>5. ChatInv(x, kick)
  <2>1. SameChat(w, x)
    BY <1>3 DEF SameChat
  <2>2. ChanLinks(x)
    BY <1>1, <2>1, ChatKept DEF WorldInv
  <2>3. Stages(x)
    BY <1>3 DEF WorldInv, Stages
  <2>4. kick \/ Sole(x)
    BY <1>3 DEF WorldInv, Sole
  <2> QED
    BY <1>3, <2>2, <2>3, <2>4 DEF ChatInv
<1>6. Plays(x, v, c, NULL) /\ Games(v, kick)
  <2>1. id = x.conn[c].game /\ p \in {0, Min(HereAs(x.game[id], x.conn[c].account))} /\ v = LeaveGame(x, c)
    BY <1>2, <1>3, <1>4
  <2> QED
    BY <1>3, <1>4, <1>5, <2>1, LeaveFacts DEF ChatInv
<1>7. WorldInv(v, kick)
  BY <1>5, <1>6, PlaysInv
<1>8. Plays(w, v, c, NULL)
  <2>1. v \in Worlds /\ v.chan = w.chan
    BY <1>3, <1>6 DEF Plays
  <2>2. ASSUME NEW d \in Conn
        PROVE  /\ v.conn[d].state = w.conn[d].state /\ v.conn[d].account = w.conn[d].account
               /\ v.conn[d].channel = w.conn[d].channel /\ v.conn[d].tmpOP = w.conn[d].tmpOP
               /\ v.conn[d].game = IF d = c THEN NULL ELSE w.conn[d].game
    <3>1. x.conn[d] = w.conn[d]
      BY <1>3
    <3>2. /\ v.conn[d].state = x.conn[d].state /\ v.conn[d].account = x.conn[d].account
          /\ v.conn[d].channel = x.conn[d].channel /\ v.conn[d].tmpOP = x.conn[d].tmpOP
          /\ v.conn[d].game = IF d = c THEN NULL ELSE x.conn[d].game
      BY <1>6 DEF Plays
    <3> QED
      BY <3>1, <3>2
  <2> QED
    BY <2>1, <2>2 DEF Plays
<1>9. ChatInv(w, kick)
  BY DEF WorldInv, ChatInv
<1>10. Keeps(w, v)
  BY <1>6, <1>8, <1>9, PlaysInv
<1> QED
  BY <1>7, <1>8, <1>10

\* c may come to the i-th channel: there is room, or he is an officer; he has
\* come to a channel that way; and from w to v nobody else has come to one.
Admits(A, w, i, c) ==
  \/ w.chan[i].max = -1 \/ Len(w.chan[i].members) < w.chan[i].max
  \/ \E name \in AskedAs(w.chan, w.chan[i]) : account_is_operator_or_admin(A, w.conn[c].account, name)
Entered(A, v, c) ==
  \E i \in DOMAIN v.chan :
    /\ v.chan[i].id = v.conn[c].channel
    /\ \/ v.chan[i].max = -1 \/ Len(v.chan[i].members) <= v.chan[i].max
       \/ \E name \in AskedAs(v.chan, v.chan[i]) : account_is_operator_or_admin(A, v.conn[c].account, name)
Enters(A, w, v, c) ==
  /\ \A d \in Conn : d # c => v.conn[d].channel = w.conn[d].channel
  /\ v.conn[c].channel \in {NULL, w.conn[c].channel} \/ Entered(A, v, c)

\* c comes to the i-th channel of x, of which he is no member.
LEMMA AddInv ==
  ASSUME NEW x, NEW kick \in BOOLEAN, NEW c \in Conn, WorldInv(x, kick), x.conn[c].channel = NULL,
         x.conn[c].account # NULL, NEW i \in DOMAIN x.chan,
         x.conn[c].account \notin x.chan[i].banned,
         NEW n, n = x.chan[i].id, NEW A, NEW v, v = channel_add_connection(A, x, n, c)
  PROVE  /\ WorldInv(v, kick) /\ SameLogins(x, v) /\ Moves(x, v, c)
         /\ Kept(x, n) => Kept(v, NULL)
         /\ \A ac : Owned(x, ac) /\ Bans(x, ac, {}) => Bans(v, ac, {})
         /\ Admits(A, x, i, c) => Entered(A, v, c)
<1>0. x \in Worlds /\ ChanLinks(x)
  BY DEF WorldInv
<1>1. /\ v \in Worlds /\ Moves(x, v, c) /\ v.conn[c].channel = n
      /\ ChanLinks(v)
      /\ \A ac, D : Bans(x, ac, D) /\ (\A a \in x.chan[i].banned : ac[a] # c) => Bans(v, ac, D)
      /\ Kept(x, n) => Kept(v, NULL)
      /\ v.chan[i].members = Ahead(c, x.chan[i].members) /\ SameChannels(x, v)
  BY <1>0, AddChannel
<1>2. WorldInv(v, kick) /\ SameLogins(x, v)
  BY <1>1, MovesInv
<1>3. x.chan[i].banned \in SUBSET Account
  BY WorldFacts DEF WorldInv
<1>4. \A ac : Owned(x, ac) => \A a \in x.chan[i].banned : ac[a] # c
  BY <1>3 DEF Owned
<1>5. ASSUME Admits(A, x, i, c) PROVE Entered(A, v, c)
  <2>1. v.chan[i].id = v.conn[c].channel /\ v.chan[i].max = x.chan[i].max /\ i \in DOMAIN v.chan
    BY <1>1 DEF SameChannels
  <2>2. v.conn[c].account = x.conn[c].account
    BY <1>1 DEF Moves
  <2>3. x.chan[i].members \in Seq(Conn) /\ x.chan[i].max \in Nat \cup {-1}
    BY WorldFacts DEF WorldInv
  <2>4. Len(v.chan[i].members) = Len(x.chan[i].members) + 1 /\ Len(x.chan[i].members) \in Nat
    <3>1. PICK z \in Seq(Conn) : z = x.chan[i].members
      BY <2>3
    <3>2. <<c>> \in Seq(Conn) /\ Len(<<c>>) = 1
      OBVIOUS
    <3>3. Len(<<c>> \o z) = Len(<<c>>) + Len(z) /\ Len(z) \in Nat
      BY <3>2, ConcatProperties, LenProperties
    <3>4. v.chan[i].members = <<c>> \o z
      BY <1>1, <3>1 DEF Ahead
    <3>5. Len(v.chan[i].members) = Len(z) + 1
      BY <3>2, <3>3, <3>4
    <3> QED
      BY <3>1, <3>3, <3>5
  <2>5. AskedAs(x.chan, x.chan[i]) \subseteq AskedAs(v.chan, v.chan[i])
    <3>1. /\ DOMAIN v.chan = DOMAIN x.chan
          /\ \A j \in DOMAIN x.chan :
               v.chan[j].name = x.chan[j].name /\ v.chan[j].short = x.chan[j].short /\ v.chan[j].max = x.chan[j].max
      BY <1>1 DEF SameChannels
    <3> QED
      BY <3>1 DEF AskedAs
  <2>6. CASE x.chan[i].max = -1
    BY <2>1, <2>6 DEF Entered
  <2>7. CASE Len(x.chan[i].members) < x.chan[i].max
    <3>1. Len(v.chan[i].members) <= v.chan[i].max
      BY <2>1, <2>3, <2>4, <2>7
    <3> QED
      BY <2>1, <3>1 DEF Entered
  <2>8. CASE \E name \in AskedAs(x.chan, x.chan[i]) : account_is_operator_or_admin(A, x.conn[c].account, name)
    <3>1. \E name \in AskedAs(v.chan, v.chan[i]) : account_is_operator_or_admin(A, v.conn[c].account, name)
      BY <2>2, <2>5, <2>8
    <3> QED
      BY <2>1, <3>1 DEF Entered
  <2> QED
    BY <1>5, <2>6, <2>7, <2>8 DEF Admits
<1> QED
  BY <1>1, <1>2, <1>4, <1>5

\* A channel of users stays the only one that may be empty.
LEMMA KeptAny ==
  ASSUME NEW w \in Worlds, Kept(w, NULL), NEW id
  PROVE  Kept(w, id)
<1>1. \A i \in DOMAIN w.chan : w.chan[i].id # NULL
  BY WorldFacts
<1> QED
  BY <1>1 DEF Kept

\* The name for which a channel was found is one by which it can be found, also
\* when c has left his channel, unless it is a new copy in which there is room.
LEMMA AskedFacts ==
  ASSUME NEW w \in Worlds, NEW x \in Worlds, ChanLinks(x), NEW c \in Conn, NEW v, v = conn_part_channel(x, c),
         \A i \in DOMAIN w.chan : i \in DOMAIN x.chan /\ x.chan[i] = w.chan[i],
         NEW j \in DOMAIN v.chan, NEW k \in DOMAIN x.chan, v.chan[j] = x.chan[k],
         NEW name \in ChannelName, Found(w, x.chan[k], name)
  PROVE  \/ name \in AskedAs(v.chan, v.chan[j])
         \/ v.chan[j].max = -1 \/ Len(v.chan[j].members) < v.chan[j].max
<1>1. \A l \in DOMAIN x.chan :
        \/ ~x.chan[l].perm
        \/ \E m \in DOMAIN v.chan : v.chan[m].name = x.chan[l].name /\ v.chan[m].short = x.chan[l].short
  BY PartChannel
<1>2. \A l \in DOMAIN x.chan : x.chan[l].perm \/ x.chan[l].short = x.chan[l].name
  BY DEF ChanLinks, Shorts
<1>3. CASE x.chan[k].name = name
  BY <1>3 DEF AskedAs
<1>4. CASE x.chan[k].name # name
  <2>1. PICK l \in DOMAIN x.chan :
          /\ x.chan[l].short = name
          /\ x.chan[l].name = x.chan[k].name \/ (x.chan[k].members = <<>> /\ x.chan[l].name # name)
    BY <1>4 DEF Found
  <2>2. x.chan[l].name # name
    BY <1>4, <2>1
  <2>3. PICK m \in DOMAIN v.chan : v.chan[m].name = x.chan[l].name /\ v.chan[m].short = name
    BY <1>1, <1>2, <2>1, <2>2
  <2>4. CASE x.chan[l].name = x.chan[k].name
    BY <2>3, <2>4 DEF AskedAs
  <2>5. CASE x.chan[k].members = <<>>
    <3>1. x.chan[k].max \in Nat \cup {-1} /\ Len(x.chan[k].members) = 0
      BY <2>5, WorldFacts
    <3>2. CASE x.chan[k].max = 0
      BY <2>3, <3>2 DEF AskedAs
    <3> QED
      BY <3>1, <3>2
  <2> QED
    BY <2>1, <2>4, <2>5
<1> QED
  BY <1>3, <1>4

\* The parts of conn_set_channel.
SetChannelAt(A, w, c, name, f, w1, w2, w3, n) ==
  IF f.id # NULL /\ f.id = w.conn[c].channel THEN [w |-> f.w, ok |-> TRUE]
  ELSE IF f.id # NULL /\ Refused(A, w1, w1.chan[Place(w1.chan, f.id)], c, name) THEN [w |-> w1, ok |-> FALSE]
  ELSE [w |-> channel_add_connection(A, w3, n, c), ok |-> TRUE]

UserChannel(list, name) == Channel(NewId(list), name, name, FALSE, NULL, UserFlags, UserMax)

\* conn_set_channel: who has been banned from the channel he is in and is sent
\* to The Void is no longer there.
LEMMA SetChannelInv ==
  ASSUME NEW A, NEW w, NEW kick \in BOOLEAN, NEW c \in Conn, WorldInv(w, kick), w.conn[c].account # NULL,
         NEW name \in ChannelName, NEW r, r = conn_set_channel(A, w, c, name), NEW v, v = r.w
  PROVE  /\ WorldInv(v, kick) /\ Carries(w, v) /\ Enters(A, w, v, c)
         /\ ~r.ok => v.conn[c].channel = NULL
         /\ name = Void /\ (\A i \in DOMAIN w.chan : w.chan[i].id = w.conn[c].channel => w.chan[i].name # Void) =>
              \A ac : Owned(w, ac) /\ Bans(w, ac, {c}) => Bans(v, ac, {})
<1>0. w \in Worlds /\ ChanLinks(w)
  BY DEF WorldInv
<1>1. PICK f : f = channellist_find_channel_by_name(w, name)
  OBVIOUS
<1>2. PICK x : x = f.w
  OBVIOUS
<1>3. /\ x \in Worlds /\ x.conn = w.conn /\ x.game = w.game
      /\ ChanLinks(x)
      /\ \A ac, D : Bans(w, ac, D) => Bans(x, ac, D)
      /\ \A any : Kept(w, any) => Kept(x, any)
      /\ \A i \in DOMAIN w.chan : i \in DOMAIN x.chan /\ x.chan[i] = w.chan[i]
      /\ f.id # NULL => \E i \in DOMAIN x.chan : x.chan[i].id = f.id
      /\ name = Void => \A i \in DOMAIN x.chan : x.chan[i].id = f.id => x.chan[i].name = Void
      /\ \A i \in DOMAIN x.chan : x.chan[i].id = f.id => Found(w, x.chan[i], name)
  BY <1>0, <1>1, <1>2, FindFacts
<1>4. WorldInv(x, kick) /\ SameLogins(w, x)
  <2>1. Moves(w, x, c)
    BY <1>3 DEF Moves
  <2> QED
    BY <1>3, <2>1, MovesInv
<1>5. PICK w1 : w1 = conn_part_channel(x, c)
  OBVIOUS
<1>6. /\ w1 \in Worlds /\ Moves(x, w1, c) /\ w1.conn[c].channel = NULL
      /\ ChanLinks(w1)
      /\ \A ac, D : Bans(x, ac, D) => Bans(w1, ac, D \ {c})
      /\ \A any : Kept(x, any) => Kept(w1, any)
      /\ \A j \in DOMAIN x.chan : x.chan[j].id # x.conn[c].channel =>
           \E k \in DOMAIN w1.chan : w1.chan[k] = x.chan[j]
  BY <1>3, <1>5, PartChannel
<1>7. WorldInv(w1, kick) /\ SameLogins(x, w1)
  BY <1>4, <1>6, MovesInv
<1>8. PICK w2 : w2 = LeaveGame(w1, c)
  OBVIOUS
<1>9. WorldInv(w2, kick) /\ Carries(w1, w2) /\ Plays(w1, w2, c, NULL)
  BY <1>7, <1>8, LeaveInv DEF Keeps
<1>10. PICK w3, n : /\ w3 = IF f.id # NULL THEN w2 ELSE Added(w2, UserChannel(w2.chan, name))
                    /\ n = IF f.id # NULL THEN f.id ELSE NewId(w2.chan)
  OBVIOUS
<1>11. r = SetChannelAt(A, w, c, name, f, w1, w2, w3, n)
  <2> DEFINE F == channellist_find_channel_by_name(w, name)
             P == conn_part_channel(F.w, c)
             Q == LeaveGame(P, c)
             new == channel_create(Q, name, name, FALSE, NULL, UserFlags, UserMax)
             R == IF F.id # NULL THEN Q ELSE new.w
             N == IF F.id # NULL THEN F.id ELSE new.id
  <2>1. r = SetChannelAt(A, w, c, name, F, P, Q, R, N)
    BY DEF conn_set_channel, SetChannelAt
  <2>2. F = f /\ P = w1 /\ Q = w2
    BY <1>1, <1>2, <1>5, <1>8
  <2> HIDE DEF F, P, Q
  <2>3. new = [w |-> Added(w2, UserChannel(w2.chan, name)), id |-> NewId(w2.chan)]
    BY <2>2 DEF channel_create, Added, UserChannel
  <2> HIDE DEF new
  <2>4. new.w = Added(w2, UserChannel(w2.chan, name)) /\ new.id = NewId(w2.chan)
    BY <2>3
  <2>5. R = w3 /\ N = n
    BY <1>10, <2>2, <2>4
  <2> HIDE DEF R, N
  <2> QED
    BY <2>1, <2>2, <2>5
<1>12. /\ \A ac : Bans(w, ac, {}) => Bans(w, ac, {c})
       /\ \A ac : Bans(w, ac, {c}) => Bans(w1, ac, {})
  <2>1. {c} \ {c} = {}
    OBVIOUS
  <2>2. \A ac : Bans(w, ac, {}) => Bans(w, ac, {c})
    BY DEF Bans
  <2>3. ASSUME NEW ac, Bans(w, ac, {c}) PROVE Bans(w1, ac, {})
    <3>1. Bans(w1, ac, {c} \ {c})
      BY <1>3, <1>6, <2>3
    <3> QED
      BY <2>1, <3>1
  <2> QED
    BY <2>2, <2>3
<1>13. SameLogins(w, w1) /\ \A ac : Owned(w, ac) => Owned(w1, ac) /\ Owned(w2, ac)
  BY <1>4, <1>7, <1>9 DEF SameLogins, Owned, Carries
<1>14. /\ Kept(w, NULL) => Kept(w1, NULL) /\ Kept(w2, NULL)
       /\ \A ac : Owned(w, ac) /\ Bans(w, ac, {c}) => Bans(w2, ac, {})
  BY <1>3, <1>6, <1>9, <1>12, <1>13 DEF Carries
<1>15. CASE f.id # NULL /\ f.id = w.conn[c].channel
  <2>1. v = x /\ r.ok
    <3>1. r = [w |-> f.w, ok |-> TRUE]
      BY <1>11, <1>15 DEF SetChannelAt
    <3> QED
      BY <1>2, <3>1
  <2>2. Carries(w, x)
    BY <1>3, <1>4 DEF Carries
  <2>3. ~(name = Void /\ \A i \in DOMAIN w.chan : w.chan[i].id = w.conn[c].channel => w.chan[i].name # Void)
    <3>1. PICK i \in DOMAIN w.chan : w.chan[i].id = w.conn[c].channel
      BY <1>0, <1>15 DEF ChanLinks, Listed
    <3> QED
      BY <1>3, <1>15, <3>1
  <2>4. Enters(A, w, x, c)
    BY <1>3 DEF Enters
  <2> QED
    BY <1>4, <2>1, <2>2, <2>3, <2>4
<1>16. CASE ~(f.id # NULL /\ f.id = w.conn[c].channel)
  <2>0. \A d \in Conn : d # c => w1.conn[d].channel = w.conn[d].channel
    BY <1>3, <1>6 DEF Moves
  <2>1. CASE f.id # NULL /\ Refused(A, w1, w1.chan[Place(w1.chan, f.id)], c, name)
    <3>1. v = w1
      <4>1. r = [w |-> w1, ok |-> FALSE]
        BY <1>11, <1>16, <2>1 DEF SetChannelAt
      <4> QED
        BY <4>1
    <3>2. Carries(w, w1)
      BY <1>12, <1>13, <1>14 DEF Carries
    <3>3. Enters(A, w, w1, c)
      BY <1>6, <2>0 DEF Enters
    <3> QED
      BY <1>6, <1>7, <1>12, <3>1, <3>2, <3>3
  <2>2. CASE ~(f.id # NULL /\ Refused(A, w1, w1.chan[Place(w1.chan, f.id)], c, name))
    <3>2. v = channel_add_connection(A, w3, n, c) /\ r.ok
      <4>1. PICK y : y = channel_add_connection(A, w3, n, c)
        OBVIOUS
      <4>2. r = [w |-> y, ok |-> TRUE]
        BY <1>11, <1>16, <2>2, <4>1 DEF SetChannelAt
      <4> QED
        BY <4>1, <4>2
    <3>3. w2.conn[c].channel = NULL /\ w2.conn[c].account # NULL /\ w2.chan = w1.chan /\ w2.conn[c].account = w1.conn[c].account
      BY <1>6, <1>9, <1>13 DEF Plays, SameLogins
    <3>4. PICK i \in DOMAIN w3.chan :
            /\ w3.chan[i].id = n /\ Admits(A, w3, i, c) /\ w3.conn[c].account \notin w3.chan[i].banned
            /\ WorldInv(w3, kick) /\ w3.conn = w2.conn
            /\ \A ac, D : Bans(w2, ac, D) => Bans(w3, ac, D)
            /\ Kept(w2, NULL) => Kept(w3, n)
      <4>1. CASE f.id # NULL
        <5>1. w3 = w2 /\ n = f.id
          BY <1>10, <4>1
        <5>2. PICK k \in DOMAIN x.chan : x.chan[k].id = n /\ Found(w, x.chan[k], name)
          BY <1>3, <4>1, <5>1
        <5>3. PICK i \in DOMAIN w1.chan : w1.chan[i] = x.chan[k]
          BY <1>3, <1>6, <1>16, <4>1, <5>1, <5>2
        <5>4. Place(w1.chan, n) = i
          BY <1>6, <5>2, <5>3 DEF Place, ChanLinks, Distinct
        <5>5. ~Refused(A, w1, w1.chan[i], c, name)
          BY <2>2, <4>1, <5>1, <5>4
        <5>6. w1.chan[i].max \in Nat \cup {-1} /\ w1.chan[i].members \in Seq(Conn)
          BY <1>6, WorldFacts
        <5>7. Len(w1.chan[i].members) \in Nat
          BY <5>6, LenProperties
        <5>8. Admits(A, w2, i, c)
          <6>1. \/ w2.chan[i].max = -1 \/ Len(w2.chan[i].members) < w2.chan[i].max
                \/ account_is_operator_or_admin(A, w2.conn[c].account, name)
            BY <3>3, <5>5, <5>6, <5>7 DEF Refused
          <6>2. \/ name \in AskedAs(w2.chan, w2.chan[i])
                \/ w2.chan[i].max = -1 \/ Len(w2.chan[i].members) < w2.chan[i].max
            BY <1>0, <1>3, <1>5, <3>3, <5>2, <5>3, AskedFacts
          <6> QED
            BY <6>1, <6>2 DEF Admits
        <5>9. w2.conn[c].account \notin w2.chan[i].banned
          BY <3>3, <5>5 DEF Refused
        <5>10. Kept(w2, NULL) => Kept(w2, n)
          BY <1>9, KeptAny DEF WorldInv
        <5> QED
          BY <1>9, <3>3, <5>1, <5>2, <5>3, <5>8, <5>9, <5>10
      <4>2. CASE f.id = NULL
        <5>1. PICK ch : ch = UserChannel(w2.chan, name)
          OBVIOUS
        <5>2. w3 = Added(w2, ch) /\ n = NewId(w2.chan) /\ w2 \in Worlds /\ ChanLinks(w2)
          BY <1>9, <1>10, <4>2, <5>1 DEF WorldInv
        <5>3. UserMax \in Nat \union {-1} /\ UserMax # 0 /\ UserFlags \in SUBSET ChannelFlags
          BY BnetdChannelsAssumption DEF UserMax
        <5>f. PICK perm, tag, flags, max : perm = FALSE /\ tag = NULL /\ flags = UserFlags /\ max = UserMax
          OBVIOUS
        <5>4. Fit(name, name, perm, tag, flags, max)
          BY <5>3, <5>f DEF Fit
        <5>5. ch = Channel(NewId(w2.chan), name, name, perm, tag, flags, max)
          BY <5>1, <5>f DEF UserChannel
        <5>6. Created(w2, w3, ch) /\ ch.id = n /\ ch.max = UserMax
          <6>1. Created(w2, Added(w2, ch), ch) /\ ch.id = NewId(w2.chan) /\ ch.max = max
            BY <5>2, <5>4, <5>5, AddedFacts
          <6> QED
            BY <5>2, <5>f, <6>1
        <5>7. /\ w3 \in Worlds /\ ChanLinks(w3)
              /\ \A ac, D : Bans(w2, ac, D) => Bans(w3, ac, D)
              /\ \A any : Kept(w2, any) /\ (ch.perm \/ ch.id = any) => Kept(w3, any)
              /\ \E i \in DOMAIN w3.chan : w3.chan[i] = ch
          BY <5>2, <5>6, CreateChannel
        <5>8. PICK i \in DOMAIN w3.chan : w3.chan[i] = ch
          BY <5>7
        <5>9. w3.conn = w2.conn /\ w3.game = w2.game /\ ch.members = <<>> /\ ch.banned = {}
          BY <5>6 DEF Created
        <5>10. Admits(A, w3, i, c) /\ w3.conn[c].account \notin w3.chan[i].banned
          <6>1. Len(ch.members) = 0
            BY <5>9
          <6> QED
            BY <5>3, <5>6, <5>8, <5>9, <6>1 DEF Admits
        <5>11. WorldInv(w3, kick)
          <6>1. Moves(w2, w3, c) /\ w3.conn[c].channel = NULL
            BY <3>3, <5>9 DEF Moves
          <6> QED
            BY <1>9, <5>7, <6>1, MovesInv
        <5>12. Kept(w2, NULL) => Kept(w3, n)
          <6>1. Kept(w2, NULL) => Kept(w2, n)
            BY <5>2, KeptAny
          <6> QED
            BY <5>6, <5>7, <6>1
        <5> QED
          BY <5>6, <5>7, <5>8, <5>9, <5>10, <5>11, <5>12
      <4> QED
        BY <4>1, <4>2
    <3>5. w3.conn[c].channel = NULL /\ w3.conn[c].account # NULL
      BY <3>3, <3>4
    <3>6. /\ WorldInv(v, kick) /\ SameLogins(w3, v) /\ Moves(w3, v, c)
          /\ Kept(w3, n) => Kept(v, NULL)
          /\ \A ac : Owned(w3, ac) /\ Bans(w3, ac, {}) => Bans(v, ac, {})
          /\ Entered(A, v, c)
      BY <3>2, <3>4, <3>5, AddInv
    <3>7. SameLogins(w, v)
      BY <1>9, <1>13, <3>4, <3>6 DEF SameLogins, Carries
    <3>8. ASSUME NEW ac, Owned(w, ac), Bans(w, ac, {c}) PROVE Bans(v, ac, {})
      <4>1. Bans(w2, ac, {}) /\ Owned(w2, ac)
        BY <1>13, <1>14, <3>8
      <4>2. Bans(w3, ac, {}) /\ Owned(w3, ac)
        BY <3>4, <4>1 DEF Owned
      <4> QED
        BY <3>6, <4>2
    <3>9. Carries(w, v)
      BY <1>12, <1>14, <3>4, <3>6, <3>7, <3>8 DEF Carries
    <3>10. Enters(A, w, v, c)
      <4>1. \A d \in Conn : d # c => w2.conn[d].channel = w1.conn[d].channel
        BY <1>9 DEF Plays
      <4>2. \A d \in Conn : d # c => v.conn[d].channel = w3.conn[d].channel
        BY <3>6 DEF Moves
      <4> QED
        BY <2>0, <3>4, <3>6, <4>1, <4>2 DEF Enters
    <3> QED
      BY <3>2, <3>6, <3>8, <3>9, <3>10
  <2> QED
    BY <2>1, <2>2
<1> QED
  BY <1>15, <1>16

LEMMA VoidName == Void \in ChannelName
BY BnetdChannelsAssumption

\* JoinOrVoid
LEMMA JoinInv ==
  ASSUME NEW A, NEW w, NEW kick \in BOOLEAN, NEW c \in Conn, WorldInv(w, kick), w.conn[c].account # NULL,
         NEW name \in ChannelName, NEW v, v = JoinOrVoid(A, w, c, name)
  PROVE  WorldInv(v, kick) /\ Carries(w, v) /\ Enters(A, w, v, c)
<1>1. PICK r : r = conn_set_channel(A, w, c, name)
  OBVIOUS
<1>2. PICK x : x = r.w
  OBVIOUS
<1>3. WorldInv(x, kick) /\ Carries(w, x) /\ Enters(A, w, x, c) /\ (~r.ok => x.conn[c].channel = NULL)
  BY <1>1, <1>2, SetChannelInv
<1>4. PICK q : q = conn_set_channel(A, x, c, Void)
  OBVIOUS
<1>5. PICK y : y = q.w
  OBVIOUS
<1>6. WorldInv(y, kick) /\ Carries(x, y) /\ Enters(A, x, y, c)
  <2>1. x.conn[c].account # NULL
    BY <1>3 DEF Carries, SameLogins
  <2> QED
    BY <1>3, <1>4, <1>5, <2>1, SetChannelInv, VoidName
<1>7. Carries(w, y)
  BY <1>3, <1>6, CarriesTrans
<1>8. ~r.ok => Enters(A, w, y, c)
  BY <1>3, <1>6 DEF Enters
<1>9. v = IF r.ok THEN x ELSE y
  BY <1>1, <1>2, <1>4, <1>5 DEF JoinOrVoid
<1> QED
  BY <1>3, <1>6, <1>7, <1>8, <1>9

\* v is w with other bans or flags in the i-th channel.
Rebanned(w, v, i, banned) ==
  /\ v \in Worlds /\ v.conn = w.conn /\ v.game = w.game /\ DOMAIN v.chan = DOMAIN w.chan
  /\ \A j \in DOMAIN w.chan :
       /\ v.chan[j].id = w.chan[j].id /\ v.chan[j].name = w.chan[j].name /\ v.chan[j].short = w.chan[j].short
       /\ v.chan[j].perm = w.chan[j].perm /\ v.chan[j].members = w.chan[j].members
       /\ v.chan[j].banned = IF j = i THEN banned ELSE w.chan[j].banned

LEMMA ChangeSteps ==
  ASSUME NEW w \in Worlds, NEW i \in DOMAIN w.chan, NEW ch \in Channels,
         ch.id = w.chan[i].id /\ ch.name = w.chan[i].name /\ ch.short = w.chan[i].short,
         ch.perm = w.chan[i].perm /\ ch.members = w.chan[i].members,
         NEW v, IsWorld(v), v.conn = w.conn, v.game = w.game, v.chan = [w.chan EXCEPT ![i] = ch]
  PROVE  Rebanned(w, v, i, ch.banned)
<1>1. /\ w.conn \in [Conn -> ConnRec] /\ w.chan \in Seq(Channels) /\ w.game \in [GameId -> Maybe(Game)]
      /\ i \in 1..Len(w.chan)
  BY WorldFacts
<1>2. PICK s : s = [w.chan EXCEPT ![i] = ch]
  OBVIOUS
<1>3. s \in Seq(Channels) /\ DOMAIN s = DOMAIN w.chan
  BY <1>1, <1>2, ExceptSeq
<1>4. s[i] = ch /\ \A j \in DOMAIN w.chan : j # i => s[j] = w.chan[j]
  BY <1>2
<1>5. v \in Worlds
  BY <1>1, <1>2, <1>3 DEF Worlds, IsWorld
<1> QED
  BY <1>2, <1>3, <1>4, <1>5 DEF Rebanned

Banning(w, i, banned) == [w EXCEPT !.chan[i].banned = banned]
Flagging(w, i, flags) == [w EXCEPT !.chan[i].flags = flags]

LEMMA BanSteps ==
  ASSUME NEW w \in Worlds, NEW i \in DOMAIN w.chan, NEW banned \in SUBSET Account
  PROVE  Rebanned(w, Banning(w, i, banned), i, banned)
<1>1. IsWorld(w) /\ w.chan[i] \in Channels
  BY WorldFacts
<1>2. PICK v : v = Banning(w, i, banned)
  OBVIOUS
<1>3. PICK ch : ch = [w.chan[i] EXCEPT !.banned = banned]
  OBVIOUS
<1>4. v.conn = w.conn /\ v.chan = [w.chan EXCEPT ![i] = ch] /\ v.game = w.game /\ IsWorld(v)
  BY <1>1, <1>2, <1>3 DEF IsWorld, Banning
<1>5. /\ ch \in Channels /\ ch.id = w.chan[i].id /\ ch.name = w.chan[i].name /\ ch.short = w.chan[i].short
      /\ ch.perm = w.chan[i].perm /\ ch.members = w.chan[i].members /\ ch.banned = banned
  BY <1>1, <1>3 DEF Channels
<1>6. Rebanned(w, v, i, ch.banned)
  BY <1>4, <1>5, ChangeSteps
<1> QED
  BY <1>2, <1>5, <1>6

LEMMA FlagSteps ==
  ASSUME NEW w \in Worlds, NEW i \in DOMAIN w.chan, NEW flags \in SUBSET ChannelFlags
  PROVE  Rebanned(w, Flagging(w, i, flags), i, w.chan[i].banned)
<1>1. IsWorld(w) /\ w.chan[i] \in Channels
  BY WorldFacts
<1>2. PICK v : v = Flagging(w, i, flags)
  OBVIOUS
<1>3. PICK ch : ch = [w.chan[i] EXCEPT !.flags = flags]
  OBVIOUS
<1>4. v.conn = w.conn /\ v.chan = [w.chan EXCEPT ![i] = ch] /\ v.game = w.game /\ IsWorld(v)
  BY <1>1, <1>2, <1>3 DEF IsWorld, Flagging
<1>5. /\ ch \in Channels /\ ch.id = w.chan[i].id /\ ch.name = w.chan[i].name /\ ch.short = w.chan[i].short
      /\ ch.perm = w.chan[i].perm /\ ch.members = w.chan[i].members /\ ch.banned = w.chan[i].banned
  BY <1>1, <1>3 DEF Channels
<1>6. Rebanned(w, v, i, ch.banned)
  BY <1>4, <1>5, ChangeSteps
<1> QED
  BY <1>2, <1>5, <1>6

\* channel_ban_user, channel_unban_user and channel_set_flags: who is banned may
\* still be there.
LEMMA BanInv ==
  ASSUME NEW w, NEW kick \in BOOLEAN, WorldInv(w, kick), NEW i, i \in DOMAIN w.chan, NEW banned, NEW v,
         Rebanned(w, v, i, banned)
  PROVE  /\ WorldInv(v, kick) /\ SameLogins(w, v) /\ v.conn = w.conn
         /\ Kept(w, NULL) => Kept(v, NULL)
         /\ \A ac, D : /\ Bans(w, ac, {})
                       /\ \A a \in banned \ w.chan[i].banned :
                            ac[a] \in Conn \ D => w.conn[ac[a]].channel # w.chan[i].id
                       => Bans(v, ac, D)
<1>1. /\ v \in Worlds /\ v.conn = w.conn /\ v.game = w.game /\ DOMAIN v.chan = DOMAIN w.chan
      /\ \A j \in DOMAIN w.chan :
           /\ v.chan[j].id = w.chan[j].id /\ v.chan[j].name = w.chan[j].name /\ v.chan[j].short = w.chan[j].short
           /\ v.chan[j].perm = w.chan[j].perm /\ v.chan[j].members = w.chan[j].members
           /\ v.chan[j].banned = IF j = i THEN banned ELSE w.chan[j].banned
  BY DEF Rebanned
<1>2. w \in Worlds /\ ChanLinks(w)
  BY DEF WorldInv
<1>3. \A j \in DOMAIN w.chan : \A c : On(v.chan[j], c) <=> On(w.chan[j], c)
  BY <1>1 DEF On
<1>4. Distinct(v) /\ Shorts(v) /\ Listed(v) /\ Operators(v)
  BY <1>1, <1>2 DEF ChanLinks, Distinct, Shorts, Listed, Operators
<1>5. Members(v)
  BY <1>1, <1>2, <1>3 DEF ChanLinks, Members
<1>7. Stages(v) /\ (kick \/ Sole(v))
  BY <1>1 DEF WorldInv, Stages, Sole
<1>8. Games(v, kick)
  <2>1. SameGames(w, v)
    BY <1>1 DEF SameGames
  <2>2. GamesBut(w, kick, NULL, 0)
    BY GamesSplit DEF WorldInv
  <2>3. GamesBut(v, kick, NULL, 0)
    BY <2>1, <2>2, GamesKept
  <2> QED
    BY <2>3, GamesSplit
<1>9. Kept(w, NULL) => Kept(v, NULL)
  BY <1>1 DEF Kept
<1>10. ASSUME NEW ac, NEW D, Bans(w, ac, {}),
              \A a \in banned \ w.chan[i].banned : ac[a] \in Conn \ D => w.conn[ac[a]].channel # w.chan[i].id
       PROVE  Bans(v, ac, D)
  <2> SUFFICES ASSUME NEW j \in DOMAIN v.chan, NEW a \in v.chan[j].banned, ac[a] \in Conn \ D
               PROVE  v.conn[ac[a]].channel # v.chan[j].id
    BY DEF Bans
  <2>1. CASE a \in w.chan[j].banned
    BY <1>1, <1>10, <2>1 DEF Bans
  <2>2. CASE a \notin w.chan[j].banned
    <3>1. j = i /\ a \in banned \ w.chan[i].banned
      BY <1>1, <2>2
    <3> QED
      BY <1>1, <1>10, <3>1
  <2> QED
    BY <2>1, <2>2
<1> QED
  BY <1>1, <1>4, <1>5, <1>7, <1>8, <1>9, <1>10 DEF WorldInv, ChanLinks, SameLogins

\* _handle_tmpop_command and _handle_deop_command
Crowned(w, d, op) == [w EXCEPT !.conn[d].tmpOP = op]

LEMMA OperatorInv ==
  ASSUME NEW w, NEW kick \in BOOLEAN, WorldInv(w, kick), NEW d \in Conn, NEW op,
         op = NULL \/ \E i \in DOMAIN w.chan : w.chan[i].id = w.conn[d].channel /\ op = w.chan[i].name,
         NEW v, v = Crowned(w, d, op)
  PROVE  WorldInv(v, kick) /\ Keeps(w, v)
<1>0. w \in Worlds /\ ChanLinks(w)
  BY DEF WorldInv
<1>1. /\ w.conn \in [Conn -> ConnRec] /\ w.chan \in Seq(Channels) /\ w.game \in [GameId -> Maybe(Game)]
      /\ IsWorld(w) /\ w.conn[d] \in ConnRec /\ op \in Maybe(ChannelName)
  BY <1>0, WorldFacts DEF Maybe, Channels
<1>2. PICK r : r = [w.conn[d] EXCEPT !.tmpOP = op]
  OBVIOUS
<1>3. PICK u : u = [w.conn EXCEPT ![d] = r]
  OBVIOUS
<1>4. v.conn = u /\ v.chan = w.chan /\ v.game = w.game /\ IsWorld(v)
  BY <1>1, <1>2, <1>3 DEF IsWorld, Crowned
<1>5. /\ r \in ConnRec /\ r.state = w.conn[d].state /\ r.account = w.conn[d].account
      /\ r.channel = w.conn[d].channel /\ r.game = w.conn[d].game /\ r.tmpOP = op
  BY <1>1, <1>2 DEF ConnRec
<1>6. u \in [Conn -> ConnRec] /\ u[d] = r /\ \A c \in Conn : c # d => u[c] = w.conn[c]
  BY <1>1, <1>3, <1>5
<1>7. v \in Worlds
  BY <1>1, <1>4, <1>6 DEF Worlds, IsWorld
<1>8. Moves(w, v, d) /\ \A c \in Conn : v.conn[c].channel = w.conn[c].channel
  BY <1>4, <1>5, <1>6 DEF Moves
<1>9. /\ \A c \in Conn : v.conn[c].account = w.conn[c].account
      /\ \A c \in Conn : c # d => v.conn[c].tmpOP = w.conn[c].tmpOP
      /\ v.conn[d].tmpOP = op
  BY <1>4, <1>5, <1>6
<1>10. Distinct(v) /\ Shorts(v) /\ Listed(v) /\ Members(v)
  BY <1>0, <1>4, <1>8 DEF ChanLinks, Distinct, Shorts, Listed, Members
<1>11. Operators(v)
  <2> SUFFICES ASSUME NEW c \in Conn, v.conn[c].tmpOP # NULL
               PROVE  /\ v.conn[c].channel # NULL
                      /\ \A j \in DOMAIN v.chan : v.chan[j].id = v.conn[c].channel => v.chan[j].name = v.conn[c].tmpOP
    BY DEF Operators
  <2>1. CASE c # d
    BY <1>0, <1>4, <1>8, <1>9, <2>1 DEF ChanLinks, Operators
  <2>2. CASE c = d
    <3>1. PICK i \in DOMAIN w.chan : w.chan[i].id = w.conn[d].channel /\ op = w.chan[i].name
      BY <1>9, <2>2
    <3>2. w.chan[i].id # NULL
      BY <1>0, WorldFacts
    <3>3. \A j \in DOMAIN w.chan : w.chan[j].id = w.chan[i].id => j = i
      BY <1>0 DEF ChanLinks, Distinct
    <3> QED
      BY <1>4, <1>8, <1>9, <2>2, <3>1, <3>2, <3>3
  <2> QED
    BY <2>1, <2>2
<1>13. v.conn[d].channel # NULL => w.conn[d].account # NULL
  BY <1>8 DEF WorldInv, Stages
<1>14. WorldInv(v, kick) /\ SameLogins(w, v)
  BY <1>7, <1>8, <1>10, <1>11, <1>13, MovesInv DEF ChanLinks
<1>15. Kept(w, NULL) => Kept(v, NULL)
  BY <1>4 DEF Kept
<1>16. \A ac : Bans(w, ac, {}) => Bans(v, ac, {})
  BY <1>4, <1>8 DEF Bans
<1>17. Stays(w, v)
  BY <1>8 DEF Stays
<1> QED
  BY <1>14, <1>15, <1>16, <1>17 DEF Keeps, Carries

\* The channels of the file.
LEMMA FileFacts ==
  ASSUME NEW i \in DOMAIN ChannelFile
  PROVE  /\ ChannelFile[i].members = <<>> /\ ChannelFile[i].banned = {} /\ ChannelFile[i].perm
         /\ ChannelFile[i].id = i /\ (ChannelFile[i].short = Void <=> ChannelFile[i].name = Void)
<1>1. PICK ch : ch = ChannelFile[i] /\ (ch.short = Void <=> ch.name = Void)
  BY BnetdChannelsAssumption
<1>2. ch = Channel(i, ch.name, ch.short, TRUE, ch.tag, ch.flags, ch.max)
  BY <1>1, BnetdChannelsAssumption
<1> QED
  BY <1>1, <1>2 DEF Channel

\* channellist_reload up to the return of the members
LEMMA ReloadInv ==
  ASSUME NEW w, NEW kick \in BOOLEAN, WorldInv(w, kick), NEW v, v = channellist_reload(w)
  PROVE  /\ WorldInv(v, kick) /\ SameLogins(w, v) /\ Kept(v, NULL) /\ Stays(w, v)
         /\ \A ac, D : Bans(v, ac, D)
<1>0. w \in Worlds /\ ChanLinks(w)
  BY DEF WorldInv
<1>1. /\ w.conn \in [Conn -> ConnRec] /\ w.game \in [GameId -> Maybe(Game)] /\ IsWorld(w)
  BY <1>0, WorldFacts
<1>2. PICK u : u = [c \in Conn |-> [w.conn[c] EXCEPT !.channel = NULL, !.tmpOP = NULL]]
  OBVIOUS
<1>3. v.conn = u /\ v.chan = ChannelFile /\ v.game = w.game /\ IsWorld(v)
  BY <1>1, <1>2 DEF IsWorld, channellist_reload
<1>4. ASSUME NEW c \in Conn
      PROVE  /\ u[c] \in ConnRec /\ u[c].state = w.conn[c].state /\ u[c].account = w.conn[c].account
             /\ u[c].channel = NULL /\ u[c].game = w.conn[c].game /\ u[c].tmpOP = NULL
  <2>1. PICK r : r = w.conn[c]
    OBVIOUS
  <2>2. u[c] = [r EXCEPT !.channel = NULL, !.tmpOP = NULL] /\ r \in ConnRec
    BY <1>1, <1>2, <2>1
  <2> QED
    BY <2>1, <2>2 DEF ConnRec, Maybe
<1>5. u \in [Conn -> ConnRec]
  BY <1>2, <1>4
<1>6. ChannelFile \in Seq(Channels)
  BY BnetdChannelsAssumption
<1>7. v \in Worlds
  BY <1>1, <1>3, <1>5, <1>6 DEF Worlds, IsWorld
<1>8. \A i \in DOMAIN v.chan :
        /\ v.chan[i].members = <<>> /\ v.chan[i].banned = {} /\ v.chan[i].perm
        /\ v.chan[i].id = i /\ (v.chan[i].short = Void <=> v.chan[i].name = Void)
  BY <1>3, FileFacts
<1>9. \A i \in DOMAIN v.chan : v.chan[i].id # NULL
  BY <1>7, WorldFacts
<1>10. \A i \in DOMAIN v.chan : DOMAIN v.chan[i].members = {}
  BY <1>8
<1>11. \A i \in DOMAIN v.chan : \A c : ~On(v.chan[i], c)
  BY <1>10 DEF On
<1>12. Members(v)
  BY <1>3, <1>4, <1>9, <1>10, <1>11 DEF Members
<1>13. Listed(v) /\ Operators(v)
  BY <1>3, <1>4 DEF Listed, Operators
<1>14. Distinct(v) /\ Shorts(v)
  BY <1>8 DEF Distinct, Shorts
<1>16. SameLogins(w, v)
  BY <1>3, <1>4 DEF SameLogins
<1>17. Stages(v) /\ (kick \/ Sole(v))
  BY <1>3, <1>4 DEF WorldInv, Stages, Sole
<1>18. Games(v, kick)
  <2>1. SameGames(w, v)
    BY <1>3, <1>4 DEF SameGames
  <2>2. GamesBut(w, kick, NULL, 0)
    BY GamesSplit DEF WorldInv
  <2>3. GamesBut(v, kick, NULL, 0)
    BY <2>1, <2>2, GamesKept
  <2> QED
    BY <2>3, GamesSplit
<1>19. Kept(v, NULL)
  BY <1>8 DEF Kept
<1>20. \A ac, D : Bans(v, ac, D)
  BY <1>8 DEF Bans
<1>21. Stays(w, v)
  BY <1>3, <1>4 DEF Stays
<1> QED
  BY <1>7, <1>12, <1>13, <1>14, <1>16, <1>17, <1>18, <1>19, <1>20, <1>21 DEF WorldInv, ChanLinks

\* The login or the end of connections that are in no channel and in no game.
LEMMA LoginInv ==
  ASSUME NEW w, NEW kick \in BOOLEAN, WorldInv(w, kick), NEW v, SameChat(w, v), SameGames(w, v),
         Stages(v), kick \/ Sole(v)
  PROVE  /\ WorldInv(v, kick)
         /\ \A ac, D : Bans(w, ac, D) => Bans(v, ac, D)
         /\ Kept(w, NULL) => Kept(v, NULL)
<1>1. /\ v \in Worlds /\ ChanLinks(v)
      /\ \A ac, D : Bans(w, ac, D) => Bans(v, ac, D)
      /\ \A id : Kept(w, id) => Kept(v, id)
  BY ChatKept DEF WorldInv
<1>2. GamesBut(w, kick, NULL, 0)
  BY GamesSplit DEF WorldInv
<1>3. GamesBut(v, kick, NULL, 0)
  BY <1>2, GamesKept
<1>4. Games(v, kick)
  BY <1>3, GamesSplit
<1> QED
  BY <1>1, <1>4 DEF WorldInv

-----------------------------------------------------------------------------
(* The steps of bnetd                                                      *)

LEMMA InvFacts ==
  ASSUME Inv
  PROVE  /\ kick_old_login \in BOOLEAN /\ WorldInv(World, kick_old_login)
         /\ Owned(World, acctconn) /\ Kept(World, NULL) /\ Bans(World, acctconn, {})
         /\ World.conn = conn /\ World.chan = chan /\ World.game = game /\ World \in Worlds
         /\ \A c \in Conn : conn[c].state = "loggedin" => conn[c].account # NULL
         /\ \A a \in Account : acctconn[a] # NULL =>
              acctconn[a] \in Conn /\ conn[acctconn[a]].account = a /\ a # NULL
<1>1. World.conn = conn /\ World.chan = chan /\ World.game = game
  BY DEF World
<1>2. /\ kick_old_login \in BOOLEAN /\ WorldInv(World, kick_old_login) /\ World \in Worlds
      /\ Kept(World, NULL) /\ Bans(World, acctconn, {}) /\ AccountLinked
  BY DEF Inv, TypeOK, WorldInv, AccountInv
<1>3. \A a \in Account : acctconn[a] # NULL =>
        acctconn[a] \in Conn /\ conn[acctconn[a]].account = a /\ a # NULL
  <2>1. acctconn \in [Account -> Maybe(Conn)]
    BY DEF Inv, TypeOK
  <2> QED
    BY <1>2, <2>1, BnetdGamesAssumption DEF AccountLinked, Maybe
<1>4. \A c \in Conn : conn[c].state = "loggedin" => conn[c].account # NULL
  BY <1>1, <1>2 DEF WorldInv, Stages
<1>5. Owned(World, acctconn)
  BY <1>1, <1>3, BnetdGamesAssumption DEF Owned
<1> QED
  BY <1>1, <1>2, <1>3, <1>4, <1>5

\* A step to another world; offices may change.
Turns(v) ==
  /\ conn' = v.conn /\ chan' = v.chan /\ game' = v.game
  /\ UNCHANGED <<kick_old_login, use, acctconn>>

\* A step to a world in which nobody has logged in or out.
LEMMA TurnsInv ==
  ASSUME Inv, NEW v, WorldInv(v, kick_old_login), SameLogins(World, v), Kept(v, NULL), Bans(v, acctconn, {}),
         Turns(v), channellist_old' \in Seq(Channels), OldInv'
  PROVE  Inv'
<1>1. /\ conn' = v.conn /\ chan' = v.chan /\ game' = v.game
      /\ kick_old_login' = kick_old_login /\ use' = use /\ acctconn' = acctconn
  BY DEF Turns
<1>2. v \in Worlds /\ IsWorld(v)
  BY WorldFacts DEF WorldInv
<1>3. World' = v
  BY <1>1, <1>2 DEF World, IsWorld
<1>4. TypeOK'
  BY <1>1, <1>2, WorldFacts DEF Inv, TypeOK
<1>5. \A d \in Conn : conn'[d].state = conn[d].state /\ conn'[d].account = conn[d].account
  BY <1>1 DEF SameLogins, World
<1>6. AccountInv'
  <2>1. acctconn \in [Account -> Maybe(Conn)]
    BY DEF Inv, TypeOK
  <2>2. AccountLinked'
    <3>1. \A a \in Account : acctconn[a] # NULL => acctconn[a] \in Conn
      BY <2>1 DEF Maybe
    <3> QED
      BY <1>1, <1>5, <3>1 DEF Inv, AccountInv, AccountLinked, LoggedIn
  <2>3. kick_old_login' \/ \A c \in Conn : conn'[c].account # NULL => acctconn'[conn'[c].account] = c
    BY <1>1, <1>5 DEF Inv, AccountInv
  <2> QED
    BY <2>2, <2>3 DEF AccountInv
<1>7. WorldInv(World', kick_old_login') /\ Kept(World', NULL) /\ Bans(World', acctconn', {})
  BY <1>1, <1>3
<1> QED
  BY <1>4, <1>6, <1>7 DEF Inv

\* While no reload runs there is nobody to return.
LEMMA NobodyToReturn ==
  ASSUME Inv, channellist_old = <<>>, UNCHANGED channellist_old
  PROVE  channellist_old' \in Seq(Channels) /\ OldInv'
<1>1. channellist_old' = <<>> /\ DOMAIN channellist_old' = {}
  OBVIOUS
<1>2. channellist_old' \in Seq(Channels)
  BY DEF Inv, TypeOK
<1>3. OldInv'
  BY <1>1 DEF OldInv
<1> QED
  BY <1>2, <1>3

\* Nobody comes to a channel, or only one who may.
LEMMA StayRoom ==
  ASSUME NEW v, Stays(World, v), conn' = v.conn
  PROVE  RoomStep
<1>1. \A d \in Conn : conn'[d].channel \in {NULL, conn[d].channel}
  BY DEF Stays, World
<1> QED
  BY <1>1 DEF RoomStep

LEMMA EnterRoom ==
  ASSUME NEW v, Distinct(v), SameLogins(World, v), NEW c \in Conn, Enters(auth, World, v, c), Turns(v)
  PROVE  RoomStep
<1>1. conn' = v.conn /\ chan' = v.chan /\ World.conn = conn
  BY DEF Turns, World
<1> SUFFICES ASSUME NEW d \in Conn, conn'[d].channel \notin {NULL, conn[d].channel},
                    NEW ch, ch = chan'[Place(chan', conn'[d].channel)]
             PROVE  \/ ch.max = -1 \/ Len(ch.members) <= ch.max
                    \/ \E name \in AskedAs(chan', ch) : account_is_operator_or_admin(auth, conn[d].account, name)
  BY DEF RoomStep
<1>2. d = c /\ Entered(auth, v, c)
  BY <1>1 DEF Enters
<1>3. PICK i \in DOMAIN v.chan :
        /\ v.chan[i].id = v.conn[c].channel
        /\ \/ v.chan[i].max = -1 \/ Len(v.chan[i].members) <= v.chan[i].max
           \/ \E name \in AskedAs(v.chan, v.chan[i]) : account_is_operator_or_admin(auth, v.conn[c].account, name)
  BY <1>2 DEF Entered
<1>4. Place(v.chan, v.conn[c].channel) = i
  BY <1>3 DEF Distinct, Place
<1>5. ch = v.chan[i] /\ chan' = v.chan /\ conn[d].account = v.conn[c].account
  BY <1>1, <1>2, <1>4 DEF SameLogins
<1> QED
  BY <1>3, <1>5

\* A handler that keeps the invariant of the world.
LEMMA HandlerTurns ==
  ASSUME Inv, channellist_old = <<>>, UNCHANGED channellist_old,
         NEW v, WorldInv(v, kick_old_login), Keeps(World, v), Turns(v)
  PROVE  Inv' /\ RoomStep
<1>1. SameLogins(World, v) /\ Kept(v, NULL) /\ Bans(v, acctconn, {})
  BY InvFacts DEF Keeps, Carries
<1>2. Inv'
  BY <1>1, TurnsInv, NobodyToReturn
<1>3. RoomStep
  BY StayRoom DEF Keeps, Turns
<1> QED
  BY <1>2, <1>3

LEMMA HandlerInv ==
  ASSUME Inv, channellist_old = <<>>, UNCHANGED channellist_old,
         NEW v, WorldInv(v, kick_old_login), Keeps(World, v), Becomes(v)
  PROVE  Inv' /\ RoomStep
<1>1. Turns(v)
  BY DEF Becomes, Turns
<1> QED
  BY <1>1, HandlerTurns

\* A handler that lets a connection come to a channel.
LEMMA MoverInv ==
  ASSUME Inv, channellist_old = <<>>, UNCHANGED channellist_old,
         NEW v, WorldInv(v, kick_old_login), SameLogins(World, v), Kept(v, NULL), Bans(v, acctconn, {}),
         NEW c \in Conn, Enters(auth, World, v, c), Becomes(v)
  PROVE  Inv' /\ RoomStep
<1>1. Turns(v) /\ Distinct(v)
  BY DEF Becomes, Turns, WorldInv, ChanLinks
<1>2. Inv'
  BY <1>1, TurnsInv, NobodyToReturn
<1>3. RoomStep
  BY <1>1, EnterRoom
<1> QED
  BY <1>2, <1>3

\* What follows for a mover that carries on.
LEMMA CarriesFacts ==
  ASSUME Inv, NEW v, Carries(World, v)
  PROVE  SameLogins(World, v) /\ Kept(v, NULL) /\ Bans(v, acctconn, {})
BY InvFacts DEF Carries

\* The channel a connection is in.
LEMMA ChannelPlace ==
  ASSUME NEW w, NEW kick, WorldInv(w, kick), NEW c \in Conn, NEW n, n = w.conn[c].channel, n # NULL
  PROVE  \E i \in DOMAIN w.chan : w.chan[i].id = n /\ Place(w.chan, n) = i
<1>1. PICK i \in DOMAIN w.chan : w.chan[i].id = n
  BY DEF WorldInv, ChanLinks, Listed
<1>2. Place(w.chan, n) = i
  BY <1>1 DEF WorldInv, ChanLinks, Distinct, Place
<1> QED
  BY <1>1, <1>2

\* ... and its name.
LEMMA NamePlace ==
  ASSUME Inv, NEW c \in Conn, conn[c].channel # NULL
  PROVE  /\ NameOf(c) \in ChannelName
         /\ \E i \in DOMAIN chan : chan[i].id = conn[c].channel /\ chan[i].name = NameOf(c)
<1>1. WorldInv(World, kick_old_login) /\ World.conn = conn /\ World.chan = chan /\ World \in Worlds
  BY InvFacts
<1>2. PICK i \in DOMAIN chan : chan[i].id = conn[c].channel /\ Place(chan, conn[c].channel) = i
  BY <1>1, ChannelPlace
<1>3. chan[i] \in Channels
  BY <1>1, WorldFacts
<1>4. NameOf(c) = chan[i].name
  BY <1>2 DEF NameOf, ChannelOf
<1> QED
  BY <1>2, <1>3, <1>4 DEF Channels

\* Channels
LEMMA ChannelSteps ==
  ASSUME Inv, channellist_old = <<>>, UNCHANGED channellist_old, NEW c \in Conn,
         \/ channel_rejoin(c) \/ _client_leavechannel(c)
         \/ \E name \in use.names : _client_joinchannel(c, name)
  PROVE  Inv' /\ RoomStep
<1>1. PICK w, k, A : w = World /\ k = kick_old_login /\ A = auth
  OBVIOUS
<1>2. /\ k \in BOOLEAN /\ WorldInv(w, k) /\ w.conn = conn
      /\ conn[c].state = "loggedin" => w.conn[c].account # NULL
  BY <1>1, InvFacts
<1>3. CASE channel_rejoin(c)
  <2>1. PICK n : n = NameOf(c) /\ n \in ChannelName /\ w.conn[c].account # NULL
    BY <1>2, <1>3, NamePlace DEF channel_rejoin, InChannel, LoggedIn
  <2>2. PICK x : x = conn_part_channel(w, c)
    OBVIOUS
  <2>3. WorldInv(x, k) /\ Carries(w, x) /\ Stays(w, x) /\ x.conn[c].channel = NULL
    BY <1>2, <2>2, PartInv DEF Keeps
  <2>4. PICK v : v = JoinOrVoid(A, x, c, n)
    OBVIOUS
  <2>5. x.conn[c].account # NULL
    BY <2>1, <2>3 DEF Carries, SameLogins
  <2>6. WorldInv(v, k) /\ Carries(x, v) /\ Enters(A, x, v, c)
    BY <1>2, <2>1, <2>3, <2>4, <2>5, JoinInv
  <2>7. Carries(w, v)
    BY <2>3, <2>6, CarriesTrans
  <2>8. Becomes(v)
    BY <1>1, <1>3, <2>1, <2>2, <2>4 DEF channel_rejoin
  <2>9. Enters(A, w, v, c)
    <3>1. \A d \in Conn : d # c => x.conn[d].channel = w.conn[d].channel
      BY <1>2, <2>2, PartChannel DEF WorldInv, Moves
    <3> QED
      BY <2>3, <2>6, <3>1 DEF Enters
  <2>10. SameLogins(w, v) /\ Kept(v, NULL) /\ Bans(v, acctconn, {})
    BY <1>1, <2>7, CarriesFacts
  <2> QED
    BY <1>1, <2>6, <2>8, <2>9, <2>10, MoverInv
<1>4. CASE _client_leavechannel(c)
  <2>1. PICK v : v = conn_part_channel(w, c)
    OBVIOUS
  <2>2. WorldInv(v, k) /\ Keeps(w, v)
    BY <1>2, <2>1, PartInv
  <2>3. Becomes(v)
    BY <1>1, <1>4, <2>1 DEF _client_leavechannel
  <2> QED
    BY <1>1, <2>2, <2>3, HandlerInv
<1>5. ASSUME NEW name \in use.names, _client_joinchannel(c, name) PROVE Inv' /\ RoomStep
  <2>1. PICK n : n = name /\ n \in ChannelName /\ w.conn[c].account # NULL
    BY <1>2, <1>5, BnetdAssumption DEF _client_joinchannel, LoggedIn, Inv, TypeOK
  <2>2. PICK v : v = JoinOrVoid(A, w, c, n)
    OBVIOUS
  <2>3. WorldInv(v, k) /\ Carries(w, v) /\ Enters(A, w, v, c)
    BY <1>2, <2>1, <2>2, JoinInv
  <2>4. Becomes(v)
    BY <1>1, <1>5, <2>1, <2>2 DEF _client_joinchannel
  <2>5. SameLogins(w, v) /\ Kept(v, NULL) /\ Bans(v, acctconn, {})
    BY <1>1, <2>3, CarriesFacts
  <2> QED
    BY <1>1, <2>3, <2>4, <2>5, MoverInv
<1> QED
  BY <1>3, <1>4, <1>5

\* The connection of an account is one that has logged in.
LEMMA TargetFacts ==
  ASSUME Inv, NEW a \in Account, acctconn[a] # NULL
  PROVE  acctconn[a] \in Conn /\ conn[acctconn[a]].account # NULL
BY InvFacts

\* Commands
LEMMA KickStep ==
  ASSUME Inv, channellist_old = <<>>, UNCHANGED channellist_old, NEW c \in Conn, NEW a \in Account,
         _handle_kick_command(c, a)
  PROVE  Inv' /\ RoomStep
<1>1. PICK w, k, t, A : w = World /\ k = kick_old_login /\ t = acctconn[a] /\ A = auth
  OBVIOUS
<1>2. k \in BOOLEAN /\ WorldInv(w, k) /\ w.conn = conn
  BY <1>1, InvFacts
<1>3. t \in Conn /\ w.conn[t].account # NULL
  BY <1>1, <1>2, TargetFacts DEF _handle_kick_command, InSameChannel
<1>4. PICK x : x = conn_part_channel(w, t)
  OBVIOUS
<1>5. WorldInv(x, k) /\ Carries(w, x) /\ x.conn[t].channel = NULL
  BY <1>2, <1>3, <1>4, PartInv DEF Keeps
<1>6. x.conn[t].account # NULL
  BY <1>3, <1>5 DEF Carries, SameLogins
<1>7. PICK r : r = conn_set_channel(A, x, t, Void)
  OBVIOUS
<1>8. PICK v : v = r.w
  OBVIOUS
<1>9. WorldInv(v, k) /\ Carries(x, v) /\ Enters(A, x, v, t)
  BY <1>2, <1>3, <1>5, <1>6, <1>7, <1>8, SetChannelInv, VoidName
<1>10. Carries(w, v)
  BY <1>5, <1>9, CarriesTrans
<1>11. Enters(A, w, v, t)
  <2>1. \A d \in Conn : d # t => x.conn[d].channel = w.conn[d].channel
    <3>1. w \in Worlds /\ ChanLinks(w)
      BY <1>2 DEF WorldInv
    <3>2. Moves(w, x, t)
      BY <1>3, <1>4, <3>1, PartChannel
    <3> QED
      BY <3>2 DEF Moves
  <2> QED
    BY <1>5, <1>9, <2>1 DEF Enters
<1>12. Becomes(v)
  BY <1>1, <1>4, <1>7, <1>8 DEF _handle_kick_command
<1>13. SameLogins(w, v) /\ Kept(v, NULL) /\ Bans(v, acctconn, {})
  BY <1>1, <1>10, CarriesFacts
<1> QED
  BY <1>1, <1>3, <1>9, <1>11, <1>12, <1>13, MoverInv

LEMMA BanStep ==
  ASSUME Inv, channellist_old = <<>>, UNCHANGED channellist_old, NEW c \in Conn, NEW a \in Account,
         _handle_ban_command(c, a)
  PROVE  Inv' /\ RoomStep
<1>1. PICK w, k, t, n, ac, A :
        /\ w = World /\ k = kick_old_login /\ t = acctconn[a] /\ n = conn[c].channel /\ ac = acctconn
        /\ A = auth
  OBVIOUS
<1>2. /\ k \in BOOLEAN /\ WorldInv(w, k) /\ w.conn = conn /\ w \in Worlds
      /\ Owned(w, ac) /\ Kept(w, NULL) /\ Bans(w, ac, {})
  BY <1>1, InvFacts
<1>3. t # NULL => t \in Conn /\ w.conn[t].account # NULL
  BY <1>1, <1>2, TargetFacts
<1>4. PICK x : x = channel_ban_user(w, n, a)
  OBVIOUS
<1>5. /\ n # NULL
      /\ IF t # NULL /\ w.conn[t].channel = n THEN Becomes(conn_set_channel(A, x, t, Void).w) ELSE Becomes(x)
  BY <1>1, <1>2, <1>4 DEF _handle_ban_command, InChannel, InSameChannel
<1>i. PICK i \in DOMAIN w.chan : w.chan[i].id = n /\ Place(w.chan, n) = i
  BY <1>1, <1>2, <1>5, ChannelPlace
<1>6. /\ WorldInv(x, k) /\ SameLogins(w, x) /\ x.conn = w.conn /\ Kept(x, NULL) /\ Owned(x, ac)
      /\ w.chan[i].name = Void => Bans(x, ac, {})
      /\ ~(t # NULL /\ w.conn[t].channel = n) => Bans(x, ac, {})
      /\ Bans(x, ac, {t})
      /\ DOMAIN x.chan = DOMAIN w.chan
      /\ \A j \in DOMAIN w.chan : x.chan[j].id = w.chan[j].id /\ x.chan[j].name = w.chan[j].name
  <2>1. CASE w.chan[i].name = Void
    <3>1. x = w
      BY <1>4, <1>i, <2>1 DEF channel_ban_user
    <3>2. SameLogins(w, w) /\ Bans(w, ac, {t})
      BY <1>2 DEF SameLogins, Bans
    <3> QED
      BY <1>2, <3>1, <3>2
  <2>2. CASE w.chan[i].name # Void
    <3>2. PICK b : b = w.chan[i].banned \cup {a}
      OBVIOUS
    <3>3. x = Banning(w, i, b)
      BY <1>2, <1>4, <1>i, <2>2, <3>2, WorldFacts DEF channel_ban_user, Banning, IsWorld
    <3>4. b \in SUBSET Account
      BY <1>2, <3>2, WorldFacts
    <3>5. Rebanned(w, x, i, b)
      BY <1>2, <3>3, <3>4, BanSteps
    <3>6. /\ WorldInv(x, k) /\ SameLogins(w, x) /\ x.conn = w.conn
          /\ Kept(w, NULL) => Kept(x, NULL)
          /\ \A z, D : /\ Bans(w, z, {})
                       /\ \A e \in b \ w.chan[i].banned : z[e] \in Conn \ D => w.conn[z[e]].channel # w.chan[i].id
                       => Bans(x, z, D)
      BY <1>2, <3>5, BanInv
    <3>7. \A e \in b \ w.chan[i].banned : e = a
      BY <3>2
    <3>8. Bans(x, ac, {t})
      BY <1>1, <1>2, <3>6, <3>7
    <3>9. ASSUME ~(t # NULL /\ w.conn[t].channel = n) PROVE Bans(x, ac, {})
      <4>1. \A e \in b \ w.chan[i].banned : ac[e] \in Conn \ {} => w.conn[ac[e]].channel # w.chan[i].id
        BY <1>1, <1>i, <3>7, <3>9, BnetdGamesAssumption
      <4> QED
        BY <1>2, <3>6, <4>1
    <3>10. Owned(x, ac)
      BY <1>2, <3>6 DEF Owned
    <3>11. /\ DOMAIN x.chan = DOMAIN w.chan
           /\ \A j \in DOMAIN w.chan : x.chan[j].id = w.chan[j].id /\ x.chan[j].name = w.chan[j].name
      BY <3>5 DEF Rebanned
    <3> QED
      BY <1>2, <2>2, <3>6, <3>8, <3>9, <3>10, <3>11
  <2> QED
    BY <2>1, <2>2
<1>7. CASE t # NULL /\ w.conn[t].channel = n
  <2>0. PICK r : r = conn_set_channel(A, x, t, Void)
    OBVIOUS
  <2>1. PICK v : v = r.w
    OBVIOUS
  <2>2. x.conn[t].account # NULL /\ t \in Conn
    BY <1>3, <1>6, <1>7
  <2>3. /\ WorldInv(v, k) /\ Carries(x, v) /\ Enters(A, x, v, t)
        /\ (\A j \in DOMAIN x.chan : x.chan[j].id = x.conn[t].channel => x.chan[j].name # Void) =>
             \A z : Owned(x, z) /\ Bans(x, z, {t}) => Bans(v, z, {})
    BY <1>2, <1>6, <2>0, <2>1, <2>2, SetChannelInv, VoidName
  <2>4. Bans(v, ac, {})
    <3>1. CASE w.chan[i].name = Void
      BY <1>6, <2>3, <3>1 DEF Carries
    <3>2. CASE w.chan[i].name # Void
      <4>1. \A j \in DOMAIN x.chan : x.chan[j].id = x.conn[t].channel => j = i
        BY <1>2, <1>6, <1>7, <1>i DEF WorldInv, ChanLinks, Distinct
      <4>2. \A j \in DOMAIN x.chan : x.chan[j].id = x.conn[t].channel => x.chan[j].name # Void
        BY <1>6, <3>2, <4>1
      <4> QED
        BY <1>6, <2>3, <4>2
    <3> QED
      BY <3>1, <3>2
  <2>5. SameLogins(w, v) /\ Kept(v, NULL)
    BY <1>6, <2>3 DEF Carries, SameLogins
  <2>6. Becomes(v)
    BY <1>5, <1>7, <2>0, <2>1
  <2>7. Enters(A, w, v, t)
    BY <1>6, <2>3 DEF Enters
  <2> QED
    BY <1>1, <2>2, <2>3, <2>4, <2>5, <2>6, <2>7, MoverInv
<1>8. CASE ~(t # NULL /\ w.conn[t].channel = n)
  <2>1. Turns(x)
    BY <1>5, <1>8 DEF Becomes, Turns
  <2>2. Inv'
    BY <1>1, <1>6, <1>8, <2>1, TurnsInv, NobodyToReturn
  <2>3. Stays(w, x) /\ conn' = x.conn
    BY <1>6, <2>1 DEF Stays, Turns
  <2> QED
    BY <1>1, <2>2, <2>3, StayRoom
<1> QED
  BY <1>7, <1>8

\* Other bans and flags in the channel of a connection.
LEMMA ChangeInv ==
  ASSUME Inv, NEW i \in DOMAIN World.chan, NEW b, NEW v, Rebanned(World, v, i, b), b \subseteq World.chan[i].banned
  PROVE  WorldInv(v, kick_old_login) /\ Keeps(World, v)
<1>1. PICK w, k : w = World /\ k = kick_old_login
  OBVIOUS
<1>2. k \in BOOLEAN /\ WorldInv(w, k)
  BY <1>1, InvFacts
<1>3. /\ WorldInv(v, k) /\ SameLogins(w, v) /\ v.conn = w.conn
      /\ Kept(w, NULL) => Kept(v, NULL)
      /\ \A z, D : /\ Bans(w, z, {})
                   /\ \A e \in b \ w.chan[i].banned : z[e] \in Conn \ D => w.conn[z[e]].channel # w.chan[i].id
                   => Bans(v, z, D)
  BY <1>1, <1>2, BanInv
<1>4. b \ w.chan[i].banned = {}
  BY <1>1
<1>5. Carries(w, v)
  BY <1>3, <1>4 DEF Carries
<1>6. Stays(w, v)
  BY <1>3 DEF Stays
<1> QED
  BY <1>1, <1>3, <1>5, <1>6 DEF Keeps

LEMMA UnbanStep ==
  ASSUME Inv, channellist_old = <<>>, UNCHANGED channellist_old, NEW c \in Conn, NEW a \in Account,
         _handle_unban_command(c, a)
  PROVE  Inv' /\ RoomStep
<1>1. PICK w, n : w = World /\ n = conn[c].channel
  OBVIOUS
<1>2. WorldInv(w, kick_old_login) /\ w.conn = conn /\ w \in Worlds
  BY <1>1, InvFacts
<1>3. n # NULL
  BY <1>1 DEF _handle_unban_command, InChannel
<1>4. PICK i \in DOMAIN w.chan : w.chan[i].id = n /\ Place(w.chan, n) = i
  BY <1>1, <1>2, <1>3, ChannelPlace
<1>5. PICK b : b = w.chan[i].banned \ {a}
  OBVIOUS
<1>6. PICK v : v = Banning(w, i, b)
  OBVIOUS
<1>7. channel_unban_user(w, n, a) = v
  BY <1>2, <1>4, <1>5, <1>6, WorldFacts DEF channel_unban_user, Banning, IsWorld
<1>8. b \in SUBSET Account
  BY <1>2, <1>5, WorldFacts
<1>9. Rebanned(w, v, i, b)
  BY <1>2, <1>6, <1>8, BanSteps
<1>10. WorldInv(v, kick_old_login) /\ Keeps(w, v)
  BY <1>1, <1>5, <1>9, ChangeInv
<1>11. Becomes(v)
  BY <1>1, <1>7 DEF _handle_unban_command
<1> QED
  BY <1>1, <1>10, <1>11, HandlerInv

LEMMA ModerateStep ==
  ASSUME Inv, channellist_old = <<>>, UNCHANGED channellist_old, NEW c \in Conn,
         _handle_moderate_command(c)
  PROVE  Inv' /\ RoomStep
<1>1. PICK w, n : w = World /\ n = conn[c].channel
  OBVIOUS
<1>2. WorldInv(w, kick_old_login) /\ w.conn = conn /\ w \in Worlds
  BY <1>1, InvFacts
<1>3. n # NULL
  BY <1>1 DEF _handle_moderate_command, InChannel
<1>4. PICK i \in DOMAIN w.chan : w.chan[i].id = n /\ Place(w.chan, n) = i
  BY <1>1, <1>2, <1>3, ChannelPlace
<1>5. PICK f : f = (w.chan[i].flags \ {"moderated"}) \union ({"moderated"} \ w.chan[i].flags)
  OBVIOUS
<1>6. PICK v : v = Flagging(w, i, f)
  OBVIOUS
<1>7. channel_set_flags(w, n) = v
  BY <1>2, <1>4, <1>5, <1>6, WorldFacts DEF channel_set_flags, Flagging, IsWorld
<1>8. f \in SUBSET ChannelFlags
  <2>1. w.chan[i] \in Channels
    BY <1>2, WorldFacts
  <2>2. w.chan[i].flags \subseteq ChannelFlags
    BY <2>1 DEF Channels
  <2> QED
    BY <1>5, <2>2 DEF ChannelFlags
<1>9. Rebanned(w, v, i, w.chan[i].banned)
  BY <1>2, <1>6, <1>8, FlagSteps
<1>10. WorldInv(v, kick_old_login) /\ Keeps(w, v)
  BY <1>1, <1>9, ChangeInv
<1>11. Becomes(v)
  BY <1>1, <1>7 DEF _handle_moderate_command
<1> QED
  BY <1>1, <1>10, <1>11, HandlerInv

\* Offices
LEMMA TmpOPStep ==
  ASSUME Inv, channellist_old = <<>>, UNCHANGED channellist_old, NEW c \in Conn, NEW a \in Account,
         InChannel(c), TmpOP(c, a)
  PROVE  Inv' /\ RoomStep
<1>1. PICK w, k, t, op : w = World /\ k = kick_old_login /\ t = acctconn[a] /\ op = NameOf(c)
  OBVIOUS
<1>2. k \in BOOLEAN /\ WorldInv(w, k) /\ w.conn = conn /\ w.chan = chan
  BY <1>1, InvFacts
<1>3. t \in Conn /\ conn[t].channel = conn[c].channel
  BY <1>1, TargetFacts DEF TmpOP, InSameChannel
<1>4. PICK v : v = Crowned(w, t, op)
  OBVIOUS
<1>5. \E i \in DOMAIN w.chan : w.chan[i].id = w.conn[t].channel /\ op = w.chan[i].name
  BY <1>1, <1>2, <1>3, NamePlace DEF InChannel
<1>6. WorldInv(v, k) /\ Keeps(w, v)
  BY <1>2, <1>3, <1>4, <1>5, OperatorInv
<1>7. Becomes(v)
  BY <1>1, <1>4 DEF TmpOP, Crowned
<1> QED
  BY <1>1, <1>6, <1>7, HandlerInv

LEMMA HoldsStep ==
  ASSUME Inv, channellist_old = <<>>, UNCHANGED channellist_old, NEW A, Holds(A)
  PROVE  Inv' /\ RoomStep
<1>1. WorldInv(World, kick_old_login) /\ World.conn = conn /\ World.chan = chan /\ World.game = game
  BY InvFacts
<1>2. Turns(World)
  BY <1>1 DEF Holds, Turns
<1>3. Keeps(World, World)
  BY DEF Keeps, Carries, SameLogins, Stays
<1> QED
  BY <1>1, <1>2, <1>3, HandlerTurns

LEMMA DeopStep ==
  ASSUME Inv, channellist_old = <<>>, UNCHANGED channellist_old, NEW c \in Conn, NEW a \in Account,
         _handle_deop_command(c, a)
  PROVE  Inv' /\ RoomStep
<1>1. PICK w, k, t : w = World /\ k = kick_old_login /\ t = acctconn[a]
  OBVIOUS
<1>2. k \in BOOLEAN /\ WorldInv(w, k) /\ w.conn = conn /\ w.chan = chan /\ w.game = game
  BY <1>1, InvFacts
<1>3. /\ conn' = IF channel_conn_is_tmpOP(c, t) THEN [conn EXCEPT ![t].tmpOP = NULL] ELSE conn
      /\ chan' = chan /\ game' = game /\ UNCHANGED <<kick_old_login, use, acctconn>>
  BY <1>1 DEF _handle_deop_command
<1>4. CASE channel_conn_is_tmpOP(c, t)
  <2>1. t \in Conn
    BY <1>1, <1>4, TargetFacts DEF channel_conn_is_tmpOP
  <2>2. PICK v : v = Crowned(w, t, NULL)
    OBVIOUS
  <2>3. WorldInv(v, k) /\ Keeps(w, v)
    BY <1>2, <2>1, <2>2, OperatorInv
  <2>4. v.conn = [conn EXCEPT ![t].tmpOP = NULL] /\ v.chan = chan /\ v.game = game
    BY <1>1, <2>2 DEF Crowned, World
  <2>5. Turns(v)
    BY <1>3, <1>4, <2>4 DEF Turns
  <2> QED
    BY <1>1, <2>3, <2>5, HandlerTurns
<1>5. CASE ~channel_conn_is_tmpOP(c, t)
  <2>1. Turns(w)
    BY <1>2, <1>3, <1>5 DEF Turns
  <2>2. Keeps(w, w)
    BY DEF Keeps, Carries, SameLogins, Stays
  <2> QED
    BY <1>1, <1>2, <2>1, <2>2, HandlerTurns
<1> QED
  BY <1>4, <1>5

LEMMA OfficeSteps ==
  ASSUME Inv, channellist_old = <<>>, UNCHANGED channellist_old, NEW c \in Conn, NEW a \in Account,
         \/ _handle_tmpop_command(c, a) \/ _handle_op_command(c, a) \/ _handle_aop_command(c, a)
         \/ _handle_admin_command(c, a) \/ _handle_operator_command(c, a)
  PROVE  Inv' /\ RoomStep
<1>1. CASE _handle_tmpop_command(c, a)
  BY <1>1, TmpOPStep DEF _handle_tmpop_command
<1>2. CASE _handle_op_command(c, a)
  BY <1>2, TmpOPStep, HoldsStep DEF _handle_op_command
<1>3. CASE _handle_aop_command(c, a)
  BY <1>3, HoldsStep DEF _handle_aop_command
<1>4. CASE _handle_admin_command(c, a)
  BY <1>4, HoldsStep DEF _handle_admin_command
<1>5. CASE _handle_operator_command(c, a)
  BY <1>5, HoldsStep DEF _handle_operator_command
<1> QED
  BY <1>1, <1>2, <1>3, <1>4, <1>5

\* conn_set_game and game_set_status keep the invariant of the world.
LEMMA SetGameInv ==
  ASSUME NEW w, NEW kick \in BOOLEAN, WorldInv(w, kick), NEW c \in Conn, w.conn[c].account # NULL,
         NEW name \in GameName, NEW type \in {"normal", "ladder"}, NEW pass \in BOOLEAN,
         Available(w, name) # {} \/ (pass /\ Unused(w) # {} /\ w.conn[c].game = NULL),
         NEW v, v = conn_set_game(w, c, name, type, pass)
  PROVE  WorldInv(v, kick) /\ Keeps(w, v)
<1>1. Games(v, kick) /\ \E to \in Maybe(GameId) : Plays(w, v, c, to)
  BY SetGameFacts DEF WorldInv
<1>2. PICK to : Plays(w, v, c, to)
  BY <1>1
<1>3. ChatInv(w, kick)
  BY DEF WorldInv, ChatInv
<1> QED
  BY <1>1, <1>2, <1>3, PlaysInv

LEMMA StatusInv ==
  ASSUME NEW w, NEW kick \in BOOLEAN, WorldInv(w, kick), NEW c \in Conn, NEW id, id = w.conn[c].game, id # NULL,
         NEW status \in {"open", "full", "loaded", "started", "done"}, NEW v, v = game_set_status(w, id, status)
  PROVE  WorldInv(v, kick) /\ Keeps(w, v)
<1>1. id \in GameId /\ w.game[id] # NULL
  BY WorldFacts DEF WorldInv, Games, GameRefs, Maybe
<1>2. v \in Worlds /\ v.conn = w.conn /\ v.chan = w.chan /\ Games(v, kick)
  BY <1>1, StatusFacts DEF WorldInv
<1>3. PICK to : to = w.conn[c].game
  OBVIOUS
<1>4. Plays(w, v, c, to) /\ (to # NULL => w.conn[c].account # NULL)
  BY <1>2, <1>3 DEF Plays, WorldInv, Stages
<1>5. ChatInv(w, kick)
  BY DEF WorldInv, ChatInv
<1> QED
  BY <1>2, <1>4, <1>5, PlaysInv

\* The bound on games leaves room for the game that is created.
LEMMA CreateRoom ==
  ASSUME Inv, NEW name, MayCreate(name)
  PROVE  Available(World, name) # {} \/ Unused(World) # {}
<1>1. use.live \in 0..Cardinality(GameId)
  BY BnetdAssumption DEF Inv, TypeOK
<1>2. Cardinality(GameId) \in Nat
  BY BnetdGamesAssumption, FS_CardinalityType
<1>3. ASSUME Unused(World) = {} PROVE Available(World, name) # {}
  <2>1. GameId \ Unused(World) = GameId
    BY <1>3
  <2>2. ~(Cardinality(GameId) < use.live)
    BY <1>1, <1>2
  <2> QED
    BY <2>1, <2>2 DEF MayCreate
<1> QED
  BY <1>3

\* Games
LEMMA JoinGameStep ==
  ASSUME Inv, channellist_old = <<>>, UNCHANGED channellist_old, NEW c \in Conn,
         NEW name \in use.games, NEW pass \in BOOLEAN, _client_joingame(c, name, pass)
  PROVE  Inv' /\ RoomStep
<1>1. PICK w, k, n : w = World /\ k = kick_old_login /\ n = name
  OBVIOUS
<1>2. /\ k \in BOOLEAN /\ WorldInv(w, k) /\ w.conn = conn /\ w.game = game
      /\ n \in GameName /\ w.conn[c].account # NULL
  BY <1>1, InvFacts, BnetdAssumption DEF _client_joingame, LoggedIn, Inv, TypeOK
<1>3. PICK x : x = conn_part_channel(w, c)
  OBVIOUS
<1>4. WorldInv(x, k) /\ Keeps(w, x) /\ SameGames(w, x) /\ x.conn[c].account # NULL /\ x \in Worlds
  <2>1. WorldInv(x, k) /\ Keeps(w, x) /\ SameGames(w, x)
    BY <1>2, <1>3, PartInv
  <2> QED
    BY <1>2, <2>1 DEF Keeps, Carries, SameLogins, WorldInv
<1>5. PICK open : open = Available(x, n)
  OBVIOUS
<1>6. CASE open = {}
  <2>1. Becomes(x)
    BY <1>1, <1>3, <1>5, <1>6 DEF _client_joingame
  <2> QED
    BY <1>1, <1>4, <2>1, HandlerInv
<1>7. CASE open # {}
  <2>1. PICK g : g = (CHOOSE y \in open : TRUE) /\ g \in open
    BY <1>7
  <2>2. PICK type : type = w.game[g].type
    OBVIOUS
  <2>3. type \in {"normal", "ladder"}
    <3>1. g \in GameId /\ x.game[g] # NULL
      BY <1>5, <2>1 DEF Available
    <3>2. x.game[g] \in Game
      BY <1>4, <3>1, WorldFacts DEF Maybe
    <3> QED
      BY <1>4, <2>2, <3>2 DEF SameGames, Game
  <2>4. PICK v : v = conn_set_game(x, c, n, type, pass)
    OBVIOUS
  <2>5. WorldInv(v, k) /\ Keeps(x, v)
    BY <1>2, <1>4, <1>5, <1>7, <2>3, <2>4, SetGameInv
  <2>6. Keeps(w, v)
    BY <1>4, <2>5, KeepsTrans
  <2>7. Becomes(v)
    BY <1>1, <1>2, <1>3, <1>5, <1>7, <2>1, <2>2, <2>4 DEF _client_joingame
  <2> QED
    BY <1>1, <2>5, <2>6, <2>7, HandlerInv
<1> QED
  BY <1>6, <1>7

LEMMA StartGame1Step ==
  ASSUME Inv, channellist_old = <<>>, UNCHANGED channellist_old, NEW c \in Conn,
         NEW name \in use.games, NEW type \in {"normal", "ladder"}, NEW status \in Status,
         _client_startgame1(c, name, type, status)
  PROVE  Inv' /\ RoomStep
<1>1. PICK w, k, n, id : w = World /\ k = kick_old_login /\ n = name /\ id = conn[c].game
  OBVIOUS
<1>2. /\ k \in BOOLEAN /\ WorldInv(w, k) /\ w.conn = conn
      /\ n \in GameName /\ w.conn[c].account # NULL
      /\ status \in {"open", "full", "loaded", "started", "done"}
  BY <1>1, InvFacts, BnetdAssumption DEF _client_startgame1, LoggedIn, Inv, TypeOK
<1>3. CASE id # NULL
  <2>1. PICK v : v = game_set_status(w, id, status)
    OBVIOUS
  <2>2. WorldInv(v, k) /\ Keeps(w, v)
    BY <1>1, <1>2, <1>3, <2>1, StatusInv
  <2>3. Becomes(v)
    BY <1>1, <1>3, <2>1 DEF _client_startgame1
  <2> QED
    BY <1>1, <2>2, <2>3, HandlerInv
<1>4. CASE id = NULL
  <2>1. PICK v : v = conn_set_game(w, c, n, type, TRUE)
    OBVIOUS
  <2>2. Becomes(v) /\ MayCreate(n)
    BY <1>1, <1>4, <2>1 DEF _client_startgame1
  <2>3. Available(w, n) # {} \/ (TRUE /\ Unused(w) # {} /\ w.conn[c].game = NULL)
    BY <1>1, <1>2, <1>4, <2>2, CreateRoom
  <2>4. WorldInv(v, k) /\ Keeps(w, v)
    BY <1>2, <2>1, <2>3, SetGameInv
  <2> QED
    BY <1>1, <2>2, <2>4, HandlerInv
<1> QED
  BY <1>3, <1>4

LEMMA StartGame4Step ==
  ASSUME Inv, channellist_old = <<>>, UNCHANGED channellist_old, NEW c \in Conn,
         NEW name \in use.games, NEW type \in {"normal", "ladder"}, NEW status \in Status,
         _client_startgame4(c, name, type, status)
  PROVE  Inv' /\ RoomStep
<1>1. PICK w, k, n, id : w = World /\ k = kick_old_login /\ n = name /\ id = conn[c].game
  OBVIOUS
<1>2. /\ k \in BOOLEAN /\ WorldInv(w, k) /\ w.conn = conn /\ w.game = game
      /\ n \in GameName /\ w.conn[c].account # NULL
      /\ status \in {"open", "full", "loaded", "started", "done"}
  BY <1>1, InvFacts, BnetdAssumption DEF _client_startgame4, LoggedIn, Inv, TypeOK
<1>3. PICK x : x = conn_part_channel(w, c)
  OBVIOUS
<1>4. WorldInv(x, k) /\ Keeps(w, x) /\ SameGames(w, x) /\ x.conn[c].account # NULL /\ x.conn[c].game = id
  <2>1. WorldInv(x, k) /\ Keeps(w, x) /\ SameGames(w, x)
    BY <1>2, <1>3, PartInv
  <2> QED
    BY <1>1, <1>2, <2>1 DEF Keeps, Carries, SameLogins, SameGames
<1>5. PICK v1 : v1 = conn_set_game(x, c, n, type, TRUE)
  OBVIOUS
<1>6. PICK to : to = v1.conn[c].game
  OBVIOUS
<1>7. IF id # NULL THEN Becomes(game_set_status(x, id, status))
      ELSE IF Available(x, n) # {} THEN Becomes(x)
      ELSE /\ MayCreate(n)
           /\ IF to # NULL /\ status \in {"full", "loaded"}
              THEN Becomes(game_set_status(v1, to, status)) ELSE Becomes(v1)
  BY <1>1, <1>3, <1>5, <1>6 DEF _client_startgame4
<1>8. CASE id # NULL
  <2>1. PICK v : v = game_set_status(x, id, status)
    OBVIOUS
  <2>2. WorldInv(v, k) /\ Keeps(x, v)
    BY <1>2, <1>4, <1>8, <2>1, StatusInv
  <2>3. Keeps(w, v)
    BY <1>4, <2>2, KeepsTrans
  <2>4. Becomes(v)
    BY <1>7, <1>8, <2>1
  <2> QED
    BY <1>1, <2>2, <2>3, <2>4, HandlerInv
<1>9. CASE id = NULL /\ Available(x, n) # {}
  <2>1. Becomes(x)
    BY <1>7, <1>9
  <2> QED
    BY <1>1, <1>4, <2>1, HandlerInv
<1>10. CASE id = NULL /\ Available(x, n) = {}
  <2>1. /\ MayCreate(n)
        /\ IF to # NULL /\ status \in {"full", "loaded"}
           THEN Becomes(game_set_status(v1, to, status)) ELSE Becomes(v1)
    BY <1>7, <1>10
  <2>2. Available(w, n) = Available(x, n) /\ Unused(w) = Unused(x)
    BY <1>4 DEF Available, Unused, SameGames
  <2>3. Available(x, n) # {} \/ (TRUE /\ Unused(x) # {} /\ x.conn[c].game = NULL)
    BY <1>1, <1>4, <1>10, <2>1, <2>2, CreateRoom
  <2>4. WorldInv(v1, k) /\ Keeps(x, v1)
    BY <1>2, <1>4, <1>5, <2>3, SetGameInv
  <2>5. Keeps(w, v1)
    BY <1>4, <2>4, KeepsTrans
  <2>6. CASE to # NULL /\ status \in {"full", "loaded"}
    <3>1. PICK v : v = game_set_status(v1, to, status)
      OBVIOUS
    <3>2. WorldInv(v, k) /\ Keeps(v1, v)
      BY <1>2, <1>6, <2>4, <2>6, <3>1, StatusInv
    <3>3. Keeps(w, v)
      BY <2>5, <3>2, KeepsTrans
    <3>4. Becomes(v)
      BY <2>1, <2>6, <3>1
    <3> QED
      BY <1>1, <3>2, <3>3, <3>4, HandlerInv
  <2>7. CASE ~(to # NULL /\ status \in {"full", "loaded"})
    <3>1. Becomes(v1)
      BY <2>1, <2>7
    <3> QED
      BY <1>1, <2>4, <2>5, <3>1, HandlerInv
  <2> QED
    BY <2>6, <2>7
<1> QED
  BY <1>8, <1>9, <1>10

LEMMA EndGameSteps ==
  ASSUME Inv, channellist_old = <<>>, UNCHANGED channellist_old, NEW c \in Conn,
         _client_closegame(c) \/ _client_gamereport(c)
  PROVE  Inv' /\ RoomStep
<1>1. PICK w, k, id : w = World /\ k = kick_old_login /\ id = conn[c].game
  OBVIOUS
<1>2. k \in BOOLEAN /\ WorldInv(w, k) /\ w.conn = conn /\ id # NULL
  BY <1>1, InvFacts DEF _client_closegame, _client_gamereport
<1>3. PICK x, y, z : /\ x = LeaveGame(w, c) /\ y = game_set_status(w, id, "started")
                     /\ z = LeaveGame(game_set_reported_results(w, id, c), c)
  OBVIOUS
<1>4. WorldInv(x, k) /\ Keeps(w, x)
  BY <1>2, <1>3, LeaveInv
<1>5. WorldInv(y, k) /\ Keeps(w, y)
  BY <1>1, <1>2, <1>3, StatusInv
<1>6. WorldInv(z, k) /\ Keeps(w, z)
  BY <1>1, <1>2, <1>3, ReportInv
<1>7. Becomes(x) \/ Becomes(y) \/ Becomes(z)
  <2>1. CASE _client_closegame(c)
    BY <1>1, <1>3, <2>1 DEF _client_closegame
  <2>2. CASE _client_gamereport(c)
    <3>1. PICK q \in {World, game_set_reported_results(World, conn[c].game, c)} : Becomes(LeaveGame(q, c))
      BY <2>2 DEF _client_gamereport
    <3>2. CASE q = World
      BY <1>1, <1>3, <3>1, <3>2
    <3>3. CASE q = game_set_reported_results(World, conn[c].game, c)
      BY <1>1, <1>3, <3>1, <3>3
    <3> QED
      BY <3>1, <3>2, <3>3
  <2> QED
    BY <2>1, <2>2
<1> QED
  BY <1>1, <1>4, <1>5, <1>6, <1>7, HandlerInv

-----------------------------------------------------------------------------
(* Logins and the end of connections                                       *)

\* AccountInv in a world v, when ac is what the accounts have for their
\* connections.
Linked(v, ac, kick) ==
  /\ \A c \in Conn : v.conn[c].state = "loggedin" => ac[v.conn[c].account] = c
  /\ \A a \in Account : ac[a] # NULL =>
       v.conn[ac[a]].account = a /\ v.conn[ac[a]].state \in {"loggedin", "destroy"}
  /\ kick \/ \A c \in Conn : v.conn[c].account # NULL => ac[v.conn[c].account] = c

LEMMA LinkedSole ==
  ASSUME NEW v, NEW ac, NEW kick \in BOOLEAN, Linked(v, ac, kick)
  PROVE  kick \/ Sole(v)
BY DEF Linked, Sole

LEMMA LinkedFacts ==
  ASSUME Inv
  PROVE  Linked(World, acctconn, kick_old_login) /\ acctconn \in [Account -> Maybe(Conn)]
BY DEF Inv, TypeOK, AccountInv, AccountLinked, LoggedIn, Linked, World

\* A step in which the accounts have new connections.
LEMMA AccountStep ==
  ASSUME Inv, channellist_old = <<>>, UNCHANGED channellist_old,
         NEW v, WorldInv(v, kick_old_login), Kept(v, NULL),
         NEW ac \in [Account -> Maybe(Conn)], Bans(v, ac, {}), Linked(v, ac, kick_old_login),
         conn' = v.conn, chan' = v.chan, game' = v.game, acctconn' = ac,
         UNCHANGED <<kick_old_login, use>>, Stays(World, v)
  PROVE  Inv' /\ RoomStep
<1>1. v \in Worlds /\ IsWorld(v)
  BY WorldFacts DEF WorldInv
<1>2. World' = v
  BY <1>1 DEF World, IsWorld
<1>3. channellist_old' \in Seq(Channels) /\ OldInv'
  BY NobodyToReturn
<1>4. TypeOK'
  BY <1>1, <1>3, WorldFacts DEF Inv, TypeOK
<1>5. AccountInv'
  BY DEF AccountInv, AccountLinked, LoggedIn, Linked
<1>6. WorldInv(World', kick_old_login') /\ Kept(World', NULL) /\ Bans(World', acctconn', {})
  BY <1>2
<1>7. RoomStep
  BY StayRoom
<1> QED
  BY <1>3, <1>4, <1>5, <1>6, <1>7 DEF Inv

\* w with c in another state.
InState(w, c, state) == [w EXCEPT !.conn[c].state = state]
OnlyState(w, v, c, state) ==
  /\ v \in Worlds /\ v.chan = w.chan /\ v.game = w.game
  /\ \A d \in Conn :
       /\ v.conn[d].state = IF d = c THEN state ELSE w.conn[d].state
       /\ v.conn[d].account = w.conn[d].account
       /\ v.conn[d].channel = w.conn[d].channel /\ v.conn[d].game = w.conn[d].game
       /\ v.conn[d].tmpOP = w.conn[d].tmpOP

LEMMA InStateFacts ==
  ASSUME NEW w \in Worlds, NEW c \in Conn, NEW state \in {"free", "connected", "loggedin", "destroy"},
         NEW v, v = InState(w, c, state)
  PROVE  OnlyState(w, v, c, state)
<1>1. /\ w.conn \in [Conn -> ConnRec] /\ w.chan \in Seq(Channels) /\ w.game \in [GameId -> Maybe(Game)]
      /\ IsWorld(w) /\ w.conn[c] \in ConnRec
  BY WorldFacts
<1>2. PICK r : r = [w.conn[c] EXCEPT !.state = state]
  OBVIOUS
<1>3. /\ r \in ConnRec /\ r.state = state /\ r.account = w.conn[c].account
      /\ r.channel = w.conn[c].channel /\ r.game = w.conn[c].game /\ r.tmpOP = w.conn[c].tmpOP
  BY <1>1, <1>2 DEF ConnRec
<1>4. PICK u : u = [w.conn EXCEPT ![c] = r]
  OBVIOUS
<1>5. v.conn = u /\ v.chan = w.chan /\ v.game = w.game /\ IsWorld(v)
  BY <1>1, <1>2, <1>4 DEF InState, IsWorld
<1>6. u \in [Conn -> ConnRec] /\ \A d \in Conn : u[d] = IF d = c THEN r ELSE w.conn[d]
  BY <1>1, <1>3, <1>4
<1>7. v \in Worlds
  BY <1>1, <1>5, <1>6 DEF Worlds, IsWorld
<1> QED
  BY <1>3, <1>5, <1>6, <1>7 DEF OnlyState

\* A connection that begins or is to end
LEMMA StateSteps ==
  ASSUME Inv, channellist_old = <<>>, UNCHANGED channellist_old, NEW c \in Conn,
         sd_accept(c) \/ conn_close_read(c)
  PROVE  Inv' /\ RoomStep
<1>1. PICK w, k : w = World /\ k = kick_old_login
  OBVIOUS
<1>2. /\ k \in BOOLEAN /\ WorldInv(w, k) /\ w \in Worlds /\ Kept(w, NULL) /\ Bans(w, acctconn, {})
      /\ w.conn = conn /\ Linked(w, acctconn, k) /\ acctconn \in [Account -> Maybe(Conn)]
  BY <1>1, InvFacts, LinkedFacts
<1>3. PICK state \in {"connected", "destroy"} :
        /\ Becomes(InState(w, c, state))
        /\ state = "connected" => w.conn[c].state = "free"
  BY <1>1, <1>2 DEF sd_accept, conn_close_read, InState
<1>4. PICK v : v = InState(w, c, state)
  OBVIOUS
<1>5. OnlyState(w, v, c, state)
  BY <1>2, <1>3, <1>4, InStateFacts
<1>6. SameChat(w, v) /\ SameGames(w, v)
  BY <1>5 DEF OnlyState, SameChat, SameGames
<1>7. Stages(v)
  BY <1>2, <1>3, <1>5 DEF OnlyState, WorldInv, Stages
<1>8. Linked(v, acctconn, k)
  <2>1. \A a \in Account : acctconn[a] # NULL => acctconn[a] \in Conn
    BY <1>2 DEF Maybe
  <2>2. \A d \in Conn : v.conn[d].state = "loggedin" => acctconn[v.conn[d].account] = d
    BY <1>2, <1>3, <1>5 DEF OnlyState, Linked
  <2>3. \A a \in Account : acctconn[a] # NULL =>
          v.conn[acctconn[a]].account = a /\ v.conn[acctconn[a]].state \in {"loggedin", "destroy"}
    BY <1>2, <1>3, <1>5, <2>1 DEF OnlyState, Linked
  <2>4. k \/ \A d \in Conn : v.conn[d].account # NULL => acctconn[v.conn[d].account] = d
    BY <1>2, <1>5 DEF OnlyState, Linked
  <2> QED
    BY <2>2, <2>3, <2>4 DEF Linked
<1>9. WorldInv(v, k) /\ Kept(v, NULL) /\ Bans(v, acctconn, {})
  <2>1. k \/ Sole(v)
    BY <1>2, <1>8, LinkedSole
  <2> QED
    BY <1>2, <1>6, <1>7, <2>1, LoginInv
<1>10. /\ conn' = v.conn /\ chan' = v.chan /\ game' = v.game /\ acctconn' = acctconn
       /\ UNCHANGED <<kick_old_login, use>>
  BY <1>3, <1>4 DEF Becomes
<1>11. Stays(w, v)
  BY <1>5 DEF OnlyState, Stays
<1> QED
  BY <1>1, <1>2, <1>8, <1>9, <1>10, <1>11, AccountStep

\* The connections after the login of c to a, which d had before.
LoggedInAs(w, c, a, d) ==
  [e \in Conn |->
     IF e = c THEN [w.conn[c] EXCEPT !.state = "loggedin", !.account = a]
     ELSE IF e = d THEN [w.conn[e] EXCEPT !.state = "destroy"]
     ELSE w.conn[e]]

LEMMA LoggedInAsFacts ==
  ASSUME NEW w \in Worlds, NEW c \in Conn, NEW a \in Account, NEW d, NEW u, u = LoggedInAs(w, c, a, d)
  PROVE  /\ u \in [Conn -> ConnRec]
         /\ \A e \in Conn :
              /\ u[e].state = IF e = c THEN "loggedin" ELSE IF e = d THEN "destroy" ELSE w.conn[e].state
              /\ u[e].account = IF e = c THEN a ELSE w.conn[e].account
              /\ u[e].channel = w.conn[e].channel /\ u[e].game = w.conn[e].game
              /\ u[e].tmpOP = w.conn[e].tmpOP
<1>1. ASSUME NEW e \in Conn
      PROVE  /\ u[e] \in ConnRec
             /\ u[e].state = IF e = c THEN "loggedin" ELSE IF e = d THEN "destroy" ELSE w.conn[e].state
             /\ u[e].account = IF e = c THEN a ELSE w.conn[e].account
             /\ u[e].channel = w.conn[e].channel /\ u[e].game = w.conn[e].game
             /\ u[e].tmpOP = w.conn[e].tmpOP
  <2>1. PICK r : r = w.conn[e]
    OBVIOUS
  <2>2. r \in ConnRec
    BY <2>1, WorldFacts
  <2>3. u[e] = IF e = c THEN [r EXCEPT !.state = "loggedin", !.account = a]
               ELSE IF e = d THEN [r EXCEPT !.state = "destroy"] ELSE r
    BY <2>1 DEF LoggedInAs
  <2>4. CASE e = c
    <3>1. u[e] = [r EXCEPT !.state = "loggedin", !.account = a]
      BY <2>3, <2>4
    <3> QED
      BY <2>1, <2>2, <2>4, <3>1 DEF ConnRec, Maybe
  <2>5. CASE e # c /\ e = d
    <3>1. u[e] = [r EXCEPT !.state = "destroy"]
      BY <2>3, <2>5
    <3> QED
      BY <2>1, <2>2, <2>5, <3>1 DEF ConnRec, Maybe
  <2>6. CASE e # c /\ e # d
    BY <2>1, <2>2, <2>3, <2>6
  <2> QED
    BY <2>4, <2>5, <2>6
<1>2. u \in [Conn -> ConnRec]
  BY <1>1 DEF LoggedInAs
<1> QED
  BY <1>1, <1>2

\* A login
LEMMA LoginStep ==
  ASSUME Inv, channellist_old = <<>>, UNCHANGED channellist_old, NEW c \in Conn, NEW a \in Account,
         _client_loginreq1(c, a)
  PROVE  Inv' /\ RoomStep
<1>1. PICK w, k, old : w = World /\ k = kick_old_login /\ old = acctconn[a]
  OBVIOUS
<1>2. /\ k \in BOOLEAN /\ WorldInv(w, k) /\ w \in Worlds /\ Kept(w, NULL) /\ Bans(w, acctconn, {})
      /\ w.conn = conn /\ w.chan = chan /\ w.game = game
      /\ Linked(w, acctconn, k) /\ acctconn \in [Account -> Maybe(Conn)]
  BY <1>1, InvFacts, LinkedFacts
<1>3. /\ w.conn[c].state = "connected" /\ (old = NULL \/ k)
      /\ conn' = LoggedInAs(w, c, a, old) /\ acctconn' = [acctconn EXCEPT ![a] = c]
      /\ chan' = w.chan /\ game' = w.game /\ UNCHANGED <<kick_old_login, use>>
  BY <1>1, <1>2 DEF _client_loginreq1, conn_set_account, LoggedInAs
<1>4. w.conn[c].account = NULL /\ w.conn[c].channel = NULL /\ w.conn[c].game = NULL
  BY <1>2, <1>3 DEF WorldInv, Stages
<1>5. PICK u, ac : u = LoggedInAs(w, c, a, old) /\ ac = [acctconn EXCEPT ![a] = c]
  OBVIOUS
<1>6. PICK v : v = [conn |-> u, chan |-> w.chan, game |-> w.game]
  OBVIOUS
<1>7. v.conn = u /\ v.chan = w.chan /\ v.game = w.game
  BY <1>6
<1>8. /\ u \in [Conn -> ConnRec]
      /\ \A e \in Conn :
           /\ u[e].state = IF e = c THEN "loggedin" ELSE IF e = old THEN "destroy" ELSE w.conn[e].state
           /\ u[e].account = IF e = c THEN a ELSE w.conn[e].account
           /\ u[e].channel = w.conn[e].channel /\ u[e].game = w.conn[e].game
           /\ u[e].tmpOP = w.conn[e].tmpOP
  BY <1>2, <1>5, LoggedInAsFacts
<1>9. v \in Worlds
  BY <1>2, <1>6, <1>8, WorldFacts DEF Worlds
<1>10. SameChat(w, v) /\ SameGames(w, v)
  BY <1>4, <1>7, <1>8, <1>9 DEF SameChat, SameGames
<1>11. a # NULL
  BY BnetdGamesAssumption
<1>12. old \in Conn => w.conn[old].account = a /\ old # c
  BY <1>1, <1>2, <1>4, <1>11, BnetdGamesAssumption DEF Linked
<1>13. Stages(v)
  BY <1>2, <1>4, <1>7, <1>8, <1>11, <1>12 DEF WorldInv, Stages
<1>14. ac \in [Account -> Maybe(Conn)] /\ ac[a] = c /\ \A b \in Account : b # a => ac[b] = acctconn[b]
  BY <1>2, <1>5 DEF Maybe
<1>15. Linked(v, ac, k)
  <2>1. \A e \in Conn : w.conn[e].account # NULL => w.conn[e].account \in Account
    BY <1>2, WorldFacts DEF Maybe
  <2>2. ASSUME NEW e \in Conn, v.conn[e].state = "loggedin" PROVE ac[v.conn[e].account] = e
    <3>1. CASE e = c
      BY <1>7, <1>8, <1>14, <3>1
    <3>2. CASE e # c
      <4>1. e # old /\ w.conn[e].state = "loggedin" /\ v.conn[e].account = w.conn[e].account
        BY <1>7, <1>8, <2>2, <3>2
      <4>2. acctconn[w.conn[e].account] = e /\ w.conn[e].account \in Account
        BY <1>2, <2>1, <4>1 DEF Linked, WorldInv, Stages
      <4> QED
        BY <1>1, <1>14, <4>1, <4>2
    <3> QED
      BY <3>1, <3>2
  <2>3. ASSUME NEW b \in Account, ac[b] # NULL
        PROVE  v.conn[ac[b]].account = b /\ v.conn[ac[b]].state \in {"loggedin", "destroy"}
    <3>1. CASE b = a
      BY <1>7, <1>8, <1>14, <3>1
    <3>2. CASE b # a
      <4>1. PICK e \in Conn : e = ac[b] /\ e = acctconn[b]
        BY <1>14, <2>3, <3>2 DEF Maybe
      <4>2. w.conn[e].account = b /\ w.conn[e].state \in {"loggedin", "destroy"}
        BY <1>2, <2>3, <4>1 DEF Linked
      <4>3. e # c
        BY <1>4, <4>2, BnetdGamesAssumption
      <4> QED
        BY <1>7, <1>8, <4>1, <4>2, <4>3
    <3> QED
      BY <3>1, <3>2
  <2>4. ASSUME ~k, NEW e \in Conn, v.conn[e].account # NULL PROVE ac[v.conn[e].account] = e
    <3>1. CASE e = c
      BY <1>7, <1>8, <1>14, <3>1
    <3>2. CASE e # c
      <4>1. v.conn[e].account = w.conn[e].account /\ w.conn[e].account \in Account
        BY <1>7, <1>8, <2>1, <2>4, <3>2
      <4>2. acctconn[w.conn[e].account] = e
        BY <1>2, <2>4, <4>1 DEF Linked
      <4>3. w.conn[e].account # a
        BY <1>1, <1>3, <2>4, <4>2, BnetdGamesAssumption
      <4> QED
        BY <1>14, <4>1, <4>2, <4>3
    <3> QED
      BY <3>1, <3>2
  <2> QED
    BY <1>2, <2>2, <2>3, <2>4 DEF Linked
<1>16. /\ WorldInv(v, k) /\ Kept(v, NULL)
       /\ \A x, D : Bans(w, x, D) => Bans(v, x, D)
  <2>1. k \/ Sole(v)
    BY <1>2, <1>15, LinkedSole
  <2> QED
    BY <1>2, <1>10, <1>13, <2>1, LoginInv
<1>17. Bans(v, ac, {})
  <2>1. Bans(v, acctconn, {})
    BY <1>2, <1>16
  <2>2. \A i \in DOMAIN v.chan : v.chan[i].id # NULL /\ v.chan[i].banned \in SUBSET Account
    BY <1>9, WorldFacts
  <2>3. v.conn[c].channel = NULL
    BY <1>4, <1>7, <1>8
  <2> QED
    BY <1>14, <2>1, <2>2, <2>3 DEF Bans
<1>18. conn' = v.conn /\ chan' = v.chan /\ game' = v.game /\ acctconn' = ac
  BY <1>3, <1>5, <1>7
<1>19. Stays(w, v)
  BY <1>7, <1>8 DEF Stays
<1> QED
  BY <1>1, <1>3, <1>14, <1>15, <1>16, <1>17, <1>18, <1>19, AccountStep

\* The end of a connection: what it leaves behind in its channel and its game.
LeftAll(w, x, c, kick) ==
  WorldInv(x, kick) /\ Keeps(w, x) /\ x.conn[c].channel = NULL /\ x.conn[c].game = NULL

LEMMA LeaveAll ==
  ASSUME NEW w, NEW kick \in BOOLEAN, NEW c \in Conn, WorldInv(w, kick), NEW w1, w1 = conn_part_channel(w, c),
         NEW x, \/ x = LeaveGame(w1, c)
                \/ w.conn[c].game # NULL /\ x = LeaveGame(game_set_reported_results(w1, w.conn[c].game, c), c)
  PROVE  LeftAll(w, x, c, kick)
<1>1. WorldInv(w1, kick) /\ Keeps(w, w1) /\ SameGames(w, w1) /\ w1.conn[c].channel = NULL
  BY PartInv
<1>2. PICK id : id = w1.conn[c].game /\ id = w.conn[c].game
  BY <1>1 DEF SameGames
<1>3. WorldInv(x, kick) /\ Keeps(w1, x) /\ Plays(w1, x, c, NULL)
  <2>1. CASE x = LeaveGame(w1, c)
    BY <1>1, <2>1, LeaveInv
  <2>2. CASE id # NULL /\ x = LeaveGame(game_set_reported_results(w1, id, c), c)
    BY <1>1, <1>2, <2>2, ReportInv
  <2> QED
    BY <1>2, <2>1, <2>2
<1>4. Keeps(w, x)
  BY <1>1, <1>3, KeepsTrans
<1>5. x.conn[c].channel = NULL /\ x.conn[c].game = NULL
  BY <1>1, <1>3 DEF Plays
<1> QED
  BY <1>3, <1>4, <1>5 DEF LeftAll

\* conn_destroy
LEMMA DestroyStep ==
  ASSUME Inv, channellist_old = <<>>, UNCHANGED channellist_old, NEW c \in Conn, conn_destroy(c)
  PROVE  Inv' /\ RoomStep
<1>1. PICK w, k, id, w1 : /\ w = World /\ k = kick_old_login /\ id = conn[c].game
                          /\ w1 = conn_part_channel(w, c)
  OBVIOUS
<1>2. /\ k \in BOOLEAN /\ WorldInv(w, k) /\ w \in Worlds /\ Kept(w, NULL) /\ Bans(w, acctconn, {})
      /\ Owned(w, acctconn) /\ w.conn = conn
      /\ Linked(w, acctconn, k) /\ acctconn \in [Account -> Maybe(Conn)]
  BY <1>1, InvFacts, LinkedFacts
<1>3. PICK w2 : w2 = IF id # NULL /\ game[id].status = "started"
                     THEN game_set_reported_results(w1, id, c) ELSE w1
  OBVIOUS
<1>4. PICK x : x = LeaveGame(w2, c)
  OBVIOUS
<1>5. /\ conn' = [x.conn EXCEPT ![c] = Free] /\ chan' = x.chan /\ game' = x.game
      /\ acctconn' = LogoutAccount(c) /\ UNCHANGED <<kick_old_login, use>>
  BY <1>1, <1>3, <1>4 DEF conn_destroy, game_set_self_report
<1>6. LeftAll(w, x, c, k)
  <2>1. \/ x = LeaveGame(w1, c)
        \/ w.conn[c].game # NULL /\ x = LeaveGame(game_set_reported_results(w1, w.conn[c].game, c), c)
    BY <1>1, <1>2, <1>3, <1>4
  <2> QED
    BY <1>1, <1>2, <2>1, LeaveAll
<1>7. WorldInv(x, k) /\ Keeps(w, x) /\ x.conn[c].channel = NULL /\ x.conn[c].game = NULL /\ x \in Worlds
  BY <1>6 DEF LeftAll, WorldInv
<1>8. SameLogins(w, x) /\ Kept(x, NULL) /\ Bans(x, acctconn, {}) /\ Stays(w, x)
  BY <1>2, <1>7 DEF Keeps, Carries
<1>9. x.conn[c].tmpOP = NULL
  BY <1>7 DEF WorldInv, ChanLinks, Operators
<1>10. PICK u, ac : u = [x.conn EXCEPT ![c] = Free] /\ ac = LogoutAccount(c)
  OBVIOUS
<1>11. PICK v : v = [conn |-> u, chan |-> x.chan, game |-> x.game]
  OBVIOUS
<1>12. v.conn = u /\ v.chan = x.chan /\ v.game = x.game
  BY <1>11
<1>13. Free \in ConnRec
  BY DEF Free, ConnRec, Maybe
<1>14. u \in [Conn -> ConnRec] /\ u[c] = Free /\ \A e \in Conn : e # c => u[e] = x.conn[e]
  BY <1>7, <1>10, <1>13, WorldFacts
<1>15. v \in Worlds
  BY <1>7, <1>11, <1>14, WorldFacts DEF Worlds
<1>16. u[c].state = "free" /\ u[c].account = NULL /\ u[c].channel = NULL /\ u[c].game = NULL /\ u[c].tmpOP = NULL
  BY <1>14 DEF Free
<1>17. SameChat(x, v) /\ SameGames(x, v)
  BY <1>7, <1>9, <1>12, <1>14, <1>15, <1>16 DEF SameChat, SameGames
<1>18. Stages(v)
  BY <1>7, <1>12, <1>14, <1>16 DEF WorldInv, Stages
<1>19. /\ ac \in [Account -> Maybe(Conn)]
       /\ \A a \in Account : ac[a] = IF acctconn[a] = c THEN NULL ELSE acctconn[a]
  BY <1>2, <1>10 DEF LogoutAccount, Maybe
<1>20. \A e \in Conn : e # c => v.conn[e].state = w.conn[e].state /\ v.conn[e].account = w.conn[e].account
  BY <1>8, <1>12, <1>14 DEF SameLogins
<1>21. Linked(v, ac, k)
  <2>1. \A e \in Conn : w.conn[e].account # NULL => w.conn[e].account \in Account
    BY <1>2, WorldFacts DEF Maybe
  <2>2. ASSUME NEW e \in Conn, v.conn[e].state = "loggedin" PROVE ac[v.conn[e].account] = e
    <3>1. e # c
      BY <1>12, <1>16, <2>2
    <3>2. acctconn[w.conn[e].account] = e /\ w.conn[e].account \in Account
      BY <1>2, <1>20, <2>1, <2>2, <3>1 DEF Linked, WorldInv, Stages
    <3> QED
      BY <1>19, <1>20, <3>1, <3>2
  <2>3. ASSUME NEW a \in Account, ac[a] # NULL
        PROVE  v.conn[ac[a]].account = a /\ v.conn[ac[a]].state \in {"loggedin", "destroy"}
    <3>1. PICK e \in Conn : e = ac[a] /\ e = acctconn[a] /\ e # c
      BY <1>19, <2>3 DEF Maybe
    <3>2. w.conn[e].account = a /\ w.conn[e].state \in {"loggedin", "destroy"}
      BY <1>2, <2>3, <3>1 DEF Linked
    <3> QED
      BY <1>20, <3>1, <3>2
  <2>4. ASSUME ~k, NEW e \in Conn, v.conn[e].account # NULL PROVE ac[v.conn[e].account] = e
    <3>1. e # c
      BY <1>12, <1>16, <2>4
    <3>2. acctconn[w.conn[e].account] = e /\ w.conn[e].account \in Account
      BY <1>2, <1>20, <2>1, <2>4, <3>1 DEF Linked
    <3> QED
      BY <1>19, <1>20, <3>1, <3>2
  <2> QED
    BY <1>2, <2>2, <2>3, <2>4 DEF Linked
<1>22. WorldInv(v, k) /\ Kept(v, NULL) /\ Bans(v, acctconn, {})
  <2>1. k \/ Sole(v)
    BY <1>2, <1>21, LinkedSole
  <2> QED
    BY <1>2, <1>7, <1>8, <1>17, <1>18, <2>1, LoginInv
<1>23. Bans(v, ac, {})
  <2>1. \A i \in DOMAIN v.chan : v.chan[i].banned \in SUBSET Account
    BY <1>15, WorldFacts
  <2>2. \A a \in Account : ac[a] \in Conn => ac[a] = acctconn[a]
    BY <1>19, BnetdGamesAssumption
  <2> QED
    BY <1>22, <2>1, <2>2 DEF Bans
<1>24. conn' = v.conn /\ chan' = v.chan /\ game' = v.game /\ acctconn' = ac
  BY <1>5, <1>10, <1>12
<1>25. Stays(w, v)
  BY <1>8, <1>12, <1>14, <1>16 DEF Stays
<1> QED
  BY <1>1, <1>5, <1>19, <1>21, <1>22, <1>23, <1>24, <1>25, AccountStep

-----------------------------------------------------------------------------
(* The reload                                                              *)

\* A sequence without its last element, place by place.
LEMMA FrontFacts ==
  ASSUME NEW S, NEW s \in Seq(S), s # <<>>
  PROVE  /\ Front(s) \in Seq(S) /\ Last(s) \in S /\ Len(s) \in 1..Len(s) /\ DOMAIN s = 1..Len(s)
         /\ Last(s) = s[Len(s)]
         /\ \A i \in DOMAIN Front(s) : i \in DOMAIN s /\ Front(s)[i] = s[i]
<1>1. DOMAIN s = 1..Len(s) /\ Len(s) \in Nat /\ \A j \in 1..Len(s) : s[j] \in S
  BY LenProperties, ElementOfSeq
<1>2. Len(s) # 0
  BY EmptySeq
<1>3. PICK n : n = Len(s) /\ n \in Nat /\ n >= 1
  <2>1. PICK n : n = Len(s)
    OBVIOUS
  <2>2. n \in Nat /\ n # 0
    BY <1>1, <1>2, <2>1
  <2>3. n >= 1
    BY <2>2
  <2> QED
    BY <2>1, <2>2, <2>3
<1>4. PICK t : t = SubSeq(s, 1, n - 1)
  OBVIOUS
<1>5. /\ t \in Seq(S) /\ Len(t) = IF 1 <= n - 1 THEN (n - 1) - 1 + 1 ELSE 0
      /\ \A j \in 1..((n - 1) - 1 + 1) : t[j] = s[1 + j - 1]
  <2>1. \A j \in 1..(n - 1) : s[j] \in S
    BY <1>1, <1>3
  <2>2. n - 1 \in Int /\ 1 \in Int
    BY <1>3
  <2> QED
    BY <1>4, <2>1, <2>2, SubSeqProperties
<1>6. Len(t) = n - 1 /\ DOMAIN t = 1..(n - 1)
  BY <1>3, <1>5, LenProperties
<1>7. \A j \in 1..(n - 1) : j \in 1..n /\ t[j] = s[j]
  <2>1. \A j \in 1..(n - 1) : 1 + j - 1 = j /\ j \in 1..n /\ j \in 1..((n - 1) - 1 + 1)
    BY <1>3
  <2> QED
    BY <1>5, <2>1
<1>8. Front(s) = t /\ Last(s) = s[n]
  BY <1>3, <1>4 DEF Front, Last
<1>9. n \in 1..n /\ s[n] \in S
  BY <1>1, <1>3
<1>10. \A i \in DOMAIN t : i \in DOMAIN s /\ t[i] = s[i]
  BY <1>1, <1>3, <1>6, <1>7
<1> QED
  BY <1>1, <1>3, <1>5, <1>8, <1>9, <1>10

LEMMA ReloadStep ==
  ASSUME Inv, Reload
  PROVE  Inv' /\ RoomStep
<1>1. PICK w, k : w = World /\ k = kick_old_login
  OBVIOUS
<1>2. k \in BOOLEAN /\ WorldInv(w, k) /\ w \in Worlds /\ w.conn = conn /\ w.chan = chan
  BY <1>1, InvFacts
<1>3. PICK v : v = channellist_reload(w)
  OBVIOUS
<1>4. WorldInv(v, k) /\ SameLogins(w, v) /\ Kept(v, NULL) /\ Bans(v, acctconn, {}) /\ Stays(w, v)
  BY <1>2, <1>3, ReloadInv
<1>5. Becomes(v) /\ channellist_old' = chan
  BY <1>1, <1>3 DEF Reload
<1>6. OldInv'
  <2> SUFFICES ASSUME NEW i \in DOMAIN chan, NEW j \in DOMAIN chan[i].members
               PROVE  conn'[chan[i].members[j]].account # NULL
    BY <1>5 DEF OldInv
  <2>1. w.chan[i].id # NULL /\ w.chan[i].members \in Seq(Conn)
    BY <1>2, WorldFacts
  <2>2. PICK c \in Conn : c = w.chan[i].members[j]
    BY <1>2, <2>1, ElementOfSeq, LenProperties
  <2>3. w.conn[c].channel # NULL
    BY <1>2, <2>1, <2>2 DEF WorldInv, ChanLinks, Members, On
  <2>4. w.conn[c].account # NULL
    BY <1>2, <2>3 DEF WorldInv, Stages
  <2>5. conn'[c].account = w.conn[c].account
    BY <1>4, <1>5 DEF Becomes, SameLogins
  <2> QED
    BY <1>2, <2>2, <2>4, <2>5
<1>7. channellist_old' \in Seq(Channels)
  BY <1>2, <1>5, WorldFacts
<1>8. Turns(v)
  BY <1>5 DEF Becomes, Turns
<1>9. Inv'
  BY <1>1, <1>4, <1>6, <1>7, <1>8, TurnsInv
<1>10. RoomStep
  BY <1>1, <1>4, <1>8, StayRoom DEF Turns
<1> QED
  BY <1>9, <1>10

\* s with the members of its last channel but one.
FewerMembers(s, n) == [s EXCEPT ![n].members = Front(@)]

LEMMA FewerFacts ==
  ASSUME NEW s \in Seq(Channels), NEW n \in DOMAIN s, s[n].members # <<>>, NEW t, t = FewerMembers(s, n)
  PROVE  /\ t \in Seq(Channels) /\ DOMAIN t = DOMAIN s
         /\ \A i \in DOMAIN s : \A j \in DOMAIN t[i].members :
              j \in DOMAIN s[i].members /\ t[i].members[j] = s[i].members[j]
<1>1. PICK ch : ch = s[n] /\ ch \in Channels
  BY ElementOfSeq, LenProperties
<1>2. PICK m : m = ch.members /\ m \in Seq(Conn) /\ m # <<>>
  BY <1>1 DEF Channels
<1>3. PICK f : f = Front(m)
  OBVIOUS
<1>4. f \in Seq(Conn) /\ \A i \in DOMAIN f : i \in DOMAIN m /\ f[i] = m[i]
  BY <1>2, <1>3, FrontFacts
<1>5. PICK x : x = [ch EXCEPT !.members = f]
  OBVIOUS
<1>6. x \in Channels /\ x.members = f
  BY <1>1, <1>4, <1>5 DEF Channels
<1>7. t = [s EXCEPT ![n] = x]
  BY <1>1, <1>2, <1>3, <1>5 DEF FewerMembers
<1>8. t \in Seq(Channels) /\ DOMAIN t = DOMAIN s
  BY <1>6, <1>7, ExceptSeq
<1>9. t[n] = x /\ \A i \in DOMAIN s : i # n => t[i] = s[i]
  BY <1>7
<1> QED
  BY <1>1, <1>2, <1>4, <1>6, <1>8, <1>9

LEMMA RejoinStep ==
  ASSUME Inv, Rejoin
  PROVE  Inv' /\ RoomStep
<1>1. PICK w, k, s, A : w = World /\ k = kick_old_login /\ s = channellist_old /\ A = auth
  OBVIOUS
<1>2. /\ k \in BOOLEAN /\ WorldInv(w, k) /\ w.conn = conn
      /\ Owned(w, acctconn) /\ Kept(w, NULL) /\ Bans(w, acctconn, {})
  BY <1>1, InvFacts
<1>3. s \in Seq(Channels) /\ s # <<>>
  BY <1>1 DEF Inv, TypeOK, Rejoin
<1>4. PICK n \in DOMAIN s : n = Len(s)
  BY <1>3, FrontFacts
<1>5. PICK ch : ch = s[n] /\ ch \in Channels
  BY <1>3, ElementOfSeq, LenProperties
<1>6. ch.short \in ChannelName /\ ch.members \in Seq(Conn)
  BY <1>5 DEF Channels
<1>7. CASE ch.members = <<>>
  <2>1. Becomes(w) /\ channellist_old' = Front(s)
    BY <1>1, <1>4, <1>5, <1>7 DEF Rejoin
  <2>2. /\ Front(s) \in Seq(Channels)
        /\ \A i \in DOMAIN Front(s) : i \in DOMAIN s /\ Front(s)[i] = s[i]
    BY <1>3, FrontFacts
  <2>3. conn' = conn
    BY <1>2, <2>1 DEF Becomes
  <2>4. OldInv'
    BY <1>1, <2>1, <2>2, <2>3 DEF Inv, OldInv
  <2>5. SameLogins(World, w) /\ Stays(World, w)
    BY <1>1 DEF SameLogins, Stays
  <2>6. Turns(w) /\ conn' = w.conn
    BY <2>1 DEF Becomes, Turns
  <2>7. Inv'
    BY <1>1, <1>2, <2>1, <2>2, <2>4, <2>5, <2>6, TurnsInv
  <2>8. RoomStep
    BY <2>5, <2>6, StayRoom
  <2> QED
    BY <2>7, <2>8
<1>8. CASE ch.members # <<>>
  <2>1. PICK c : c = Last(ch.members)
    OBVIOUS
  <2>2. c \in Conn /\ w.conn[c].account # NULL
    <3>1. PICK m : m = ch.members
      OBVIOUS
    <3>2. c \in Conn /\ c = m[Len(m)] /\ Len(m) \in DOMAIN m
      BY <1>6, <1>8, <2>1, <3>1, FrontFacts
    <3>3. c = s[n].members[Len(m)] /\ Len(m) \in DOMAIN s[n].members
      BY <1>5, <3>1, <3>2
    <3>4. conn[s[n].members[Len(m)]].account # NULL
      BY <1>1, <3>3 DEF Inv, OldInv
    <3> QED
      BY <1>2, <3>2, <3>3, <3>4
  <2>r. PICK r : r = conn_set_channel(A, w, c, ch.short)
    OBVIOUS
  <2>3. PICK v : v = r.w
    OBVIOUS
  <2>4. WorldInv(v, k) /\ Carries(w, v) /\ Enters(A, w, v, c)
    BY <1>2, <1>6, <2>r, <2>2, <2>3, SetChannelInv
  <2>5. SameLogins(w, v) /\ Kept(v, NULL) /\ Bans(v, acctconn, {})
    BY <1>2, <2>4 DEF Carries
  <2>6. PICK t : t = FewerMembers(s, n)
    OBVIOUS
  <2>7. Becomes(v) /\ channellist_old' = t
    BY <1>1, <1>4, <1>5, <1>8, <2>1, <2>r, <2>3, <2>6 DEF Rejoin, FewerMembers
  <2>8. /\ t \in Seq(Channels) /\ DOMAIN t = DOMAIN s
        /\ \A i \in DOMAIN s : \A j \in DOMAIN t[i].members :
             j \in DOMAIN s[i].members /\ t[i].members[j] = s[i].members[j]
    BY <1>3, <1>5, <1>8, <2>6, FewerFacts
  <2>9. OldInv'
    <3> SUFFICES ASSUME NEW i \in DOMAIN s, NEW j \in DOMAIN t[i].members
                 PROVE  conn'[t[i].members[j]].account # NULL
      BY <2>7, <2>8 DEF OldInv
    <3>1. j \in DOMAIN s[i].members /\ t[i].members[j] = s[i].members[j]
      BY <2>8
    <3>2. PICK d : d = s[i].members[j]
      OBVIOUS
    <3>3. conn[d].account # NULL
      BY <1>1, <3>1, <3>2 DEF Inv, OldInv
    <3>4. s[i].members \in Seq(Conn)
      <4>1. PICK old : old = s[i] /\ old \in Channels
        BY <1>3, ElementOfSeq, LenProperties
      <4> QED
        BY <4>1 DEF Channels
    <3>5. d \in Conn
      BY <3>1, <3>2, <3>4, ElementOfSeq, LenProperties
    <3>6. conn'[d].account = conn[d].account
      BY <1>2, <2>5, <2>7, <3>5 DEF SameLogins, Becomes
    <3> QED
      BY <3>1, <3>2, <3>3, <3>6
  <2>10. Turns(v) /\ Distinct(v)
    BY <2>4, <2>7 DEF Becomes, Turns, WorldInv, ChanLinks
  <2>11. Inv'
    BY <1>1, <2>4, <2>5, <2>7, <2>8, <2>9, <2>10, TurnsInv
  <2>12. RoomStep
    BY <1>1, <2>2, <2>4, <2>5, <2>10, EnterRoom
  <2> QED
    BY <2>11, <2>12
<1> QED
  BY <1>7, <1>8

-----------------------------------------------------------------------------
(* The invariant and what follows from it                                  *)

\* bnetd starts with the channel file and without connections and games, as
\* after a reload.
LEMMA InitInv == Init => Inv
<1> SUFFICES ASSUME Init PROVE Inv
  OBVIOUS
<1>1. PICK w, k : w = World /\ k = kick_old_login
  OBVIOUS
<1>2. /\ k \in BOOLEAN /\ use \in Use /\ conn = [c \in Conn |-> Free] /\ acctconn = [a \in Account |-> NULL]
      /\ chan = ChannelFile /\ channellist_old = <<>> /\ game = [g \in GameId |-> NULL]
  BY <1>1 DEF Init
<1>3. w = [conn |-> conn, chan |-> chan, game |-> game] /\ w.conn = conn /\ w.chan = chan /\ w.game = game
  BY <1>1 DEF World
<1>4. Free \in ConnRec
  BY DEF Free, ConnRec, Maybe
<1>5. conn \in [Conn -> ConnRec] /\ chan \in Seq(Channels) /\ game \in [GameId -> Maybe(Game)]
  BY <1>2, <1>4, BnetdChannelsAssumption DEF Maybe
<1>6. TypeOK
  BY <1>1, <1>2, <1>5 DEF TypeOK, Maybe
<1>7. OldInv
  BY <1>2 DEF OldInv
<1>8. \A c \in Conn :
        /\ w.conn[c].state = "free" /\ w.conn[c].account = NULL /\ w.conn[c].channel = NULL
        /\ w.conn[c].game = NULL /\ w.conn[c].tmpOP = NULL
  BY <1>2, <1>3 DEF Free
<1>9. AccountInv
  BY <1>2, <1>3, <1>8 DEF AccountInv, AccountLinked, LoggedIn
<1>10. w \in Worlds
  BY <1>3, <1>5 DEF Worlds
<1>11. \A i \in DOMAIN w.chan :
         /\ w.chan[i].members = <<>> /\ w.chan[i].banned = {} /\ w.chan[i].perm
         /\ w.chan[i].id = i /\ (w.chan[i].short = Void <=> w.chan[i].name = Void)
  BY <1>2, <1>3, FileFacts
<1>12. \A i \in DOMAIN w.chan : w.chan[i].id # NULL
  BY <1>10, WorldFacts
<1>13. \A i \in DOMAIN w.chan : DOMAIN w.chan[i].members = {}
  BY <1>11
<1>14. \A i \in DOMAIN w.chan : \A c : ~On(w.chan[i], c)
  BY <1>13 DEF On
<1>15. ChanLinks(w)
  <2>1. Members(w)
    BY <1>8, <1>12, <1>13, <1>14 DEF Members
  <2>2. Listed(w) /\ Operators(w)
    BY <1>8 DEF Listed, Operators
  <2>3. Distinct(w) /\ Shorts(w)
    BY <1>11 DEF Distinct, Shorts
  <2> QED
    BY <2>1, <2>2, <2>3 DEF ChanLinks
<1>17. Games(w, k)
  <2>1. \A g \in GameId : w.game[g] = NULL
    BY <1>2, <1>3
  <2> QED
    BY <1>8, <2>1 DEF Games, GameRefs, Unique, Open
<1>18. Stages(w) /\ Sole(w)
  BY <1>8 DEF Stages, Sole
<1>19. Kept(w, NULL) /\ Bans(w, acctconn, {})
  BY <1>11 DEF Kept, Bans
<1>20. WorldInv(w, k)
  BY <1>10, <1>15, <1>17, <1>18 DEF WorldInv
<1> QED
  BY <1>1, <1>6, <1>7, <1>9, <1>19, <1>20 DEF Inv

LEMMA HandleInv ==
  ASSUME Inv, channellist_old = <<>>, UNCHANGED channellist_old, NEW c \in Conn, Handle(c)
  PROVE  Inv' /\ RoomStep
<1>1. CASE sd_accept(c) \/ conn_close_read(c)
  BY <1>1, StateSteps
<1>2. CASE conn_destroy(c)
  BY <1>2, DestroyStep
<1>3. CASE \/ channel_rejoin(c) \/ _client_leavechannel(c)
           \/ \E name \in use.names : _client_joinchannel(c, name)
  BY <1>3, ChannelSteps
<1>4. CASE _client_closegame(c) \/ _client_gamereport(c)
  BY <1>4, EndGameSteps
<1>5. ASSUME NEW a \in Account, _client_loginreq1(c, a) PROVE Inv' /\ RoomStep
  BY <1>5, LoginStep
<1>6. ASSUME NEW a \in Account, _handle_kick_command(c, a) PROVE Inv' /\ RoomStep
  BY <1>6, KickStep
<1>7. ASSUME NEW a \in Account, _handle_ban_command(c, a) PROVE Inv' /\ RoomStep
  BY <1>7, BanStep
<1>8. ASSUME NEW a \in Account, _handle_unban_command(c, a) PROVE Inv' /\ RoomStep
  BY <1>8, UnbanStep
<1>m. CASE _handle_moderate_command(c)
  BY <1>m, ModerateStep
<1>d. ASSUME NEW a \in Account, _handle_deop_command(c, a) PROVE Inv' /\ RoomStep
  BY <1>d, DeopStep
<1>o. ASSUME NEW a \in Account,
             \/ _handle_tmpop_command(c, a) \/ _handle_op_command(c, a) \/ _handle_aop_command(c, a)
             \/ _handle_admin_command(c, a) \/ _handle_operator_command(c, a)
      PROVE  Inv' /\ RoomStep
  BY <1>o, OfficeSteps
<1>9. ASSUME NEW name \in use.games, NEW pass \in BOOLEAN, _client_joingame(c, name, pass) PROVE Inv' /\ RoomStep
  BY <1>9, JoinGameStep
<1>10. ASSUME NEW name \in use.games, NEW type \in {"normal", "ladder"}, NEW status \in Status,
              _client_startgame1(c, name, type, status)
       PROVE  Inv' /\ RoomStep
  BY <1>10, StartGame1Step
<1>11. ASSUME NEW name \in use.games, NEW type \in {"normal", "ladder"}, NEW status \in Status,
              _client_startgame4(c, name, type, status)
       PROVE  Inv' /\ RoomStep
  BY <1>11, StartGame4Step
<1> QED
  BY <1>1, <1>2, <1>3, <1>4, <1>5, <1>6, <1>7, <1>8, <1>m, <1>d, <1>o, <1>9, <1>10, <1>11 DEF Handle

LEMMA StutterInv ==
  ASSUME Inv, UNCHANGED vars
  PROVE  Inv'
<1>1. PICK w : w = World
  OBVIOUS
<1>2. /\ conn' = conn /\ chan' = chan /\ game' = game /\ acctconn' = acctconn
      /\ channellist_old' = channellist_old /\ kick_old_login' = kick_old_login /\ use' = use
  BY DEF vars
<1>3. World' = w
  BY <1>1, <1>2 DEF World
<1>4. WorldInv(World', kick_old_login') /\ Kept(World', NULL) /\ Bans(World', acctconn', {})
  BY <1>1, <1>2, <1>3 DEF Inv
<1>5. TypeOK' /\ AccountInv' /\ OldInv'
  BY <1>2 DEF Inv, TypeOK, AccountInv, AccountLinked, LoggedIn, OldInv
<1> QED
  BY <1>4, <1>5 DEF Inv

LEMMA NextInv ==
  ASSUME Inv, Next
  PROVE  Inv' /\ RoomStep
<1>1. CASE Reload
  BY <1>1, ReloadStep
<1>2. CASE Rejoin
  BY <1>2, RejoinStep
<1>3. ASSUME NEW c \in Conn, channellist_old = <<>>, Handle(c), UNCHANGED channellist_old
      PROVE  Inv' /\ RoomStep
  BY <1>3, HandleInv
<1> QED
  BY <1>1, <1>2, <1>3 DEF Next

\* The invariant holds in every state bnetd reaches: the types, who has logged
\* in, and the links between connections, accounts, channels and games.
THEOREM Invariance == Spec => []Inv
<1>1. Inv /\ [Next]_vars => Inv'
  BY NextInv, StutterInv
<1> QED
  BY InitInv, <1>1, PTL DEF Spec

\* An account and the connection that logged it in know each other, whatever
\* the order in which old connections end (conn_set_account, conn_destroy).
THEOREM AccountLinkedHolds == Spec => []AccountLinked
<1>1. Inv => AccountLinked
  BY DEF Inv, AccountInv
<1> QED
  BY Invariance, <1>1, PTL

\* A channel lists exactly the connections that are in it, each once, a channel
\* of users is not empty and a temporary operator is in its channel, whoever
\* moves, is kicked, is destroyed or returns after a reload, and however many
\* channels have one name (channel_create, channel_add_connection,
\* channel_del_connection, channellist_reload).
THEOREM ChannelsLinkedHolds == Spec => []ChannelsLinked
<1>1. ASSUME Inv PROVE ChannelsLinked
  <2>1. PICK w, k : w = World /\ k = kick_old_login
    OBVIOUS
  <2>2. WorldInv(w, k) /\ w \in Worlds /\ Kept(w, NULL) /\ w.conn = conn /\ w.chan = chan
    BY <1>1, <2>1, InvFacts
  <2>3. ASSUME NEW i \in DOMAIN chan
        PROVE  /\ IsInjective(chan[i].members)
               /\ \A c \in Conn : (c \in ToSet(chan[i].members)) <=> (conn[c].channel = chan[i].id)
               /\ chan[i].perm \/ chan[i].members # <<>>
    <3>1. PICK ch : ch = w.chan[i] /\ ch.id # NULL /\ (ch.perm \/ ch.members # <<>>)
      BY <2>2, <2>3, WorldFacts DEF Kept
    <3>2. /\ \A p, q \in DOMAIN ch.members : ch.members[p] = ch.members[q] => p = q
          /\ \A c \in Conn : On(ch, c) <=> w.conn[c].channel = ch.id
      BY <2>2, <2>3, <3>1 DEF WorldInv, ChanLinks, Members
    <3>3. IsInjective(ch.members)
      BY <3>2 DEF IsInjective
    <3>4. \A c : c \in ToSet(ch.members) <=> On(ch, c)
      BY DEF ToSet, On
    <3> QED
      BY <2>2, <3>1, <3>2, <3>3, <3>4
  <2>4. ASSUME NEW c \in Conn
        PROVE  /\ conn[c].channel # NULL => Live(c) /\ conn[c].channel \in Ids(chan)
               /\ conn[c].tmpOP # NULL => conn[c].channel # NULL /\ conn[c].tmpOP = NameOf(c)
    <3>1. conn[c].channel # NULL => Live(c)
      BY <2>2 DEF WorldInv, Stages, Live
    <3>2. conn[c].channel # NULL => conn[c].channel \in Ids(chan)
      BY <2>2 DEF WorldInv, ChanLinks, Listed, Ids
    <3>3. ASSUME conn[c].tmpOP # NULL PROVE conn[c].channel # NULL /\ conn[c].tmpOP = NameOf(c)
      <4>1. /\ conn[c].channel # NULL
            /\ \A i \in DOMAIN chan : chan[i].id = conn[c].channel => chan[i].name = conn[c].tmpOP
        BY <2>2, <3>3 DEF WorldInv, ChanLinks, Operators
      <4>2. PICK i \in DOMAIN chan : chan[i].id = conn[c].channel /\ chan[i].name = NameOf(c)
        BY <1>1, <4>1, NamePlace
      <4> QED
        BY <4>1, <4>2
    <3> QED
      BY <3>1, <3>2, <3>3
  <2> QED
    BY <2>3, <2>4 DEF ChannelsLinked
<1> QED
  BY Invariance, <1>1, PTL

\* Nobody is in a channel from which his account is banned, whatever offices he
\* holds and wherever commands, full channels and reloads send him, unless
\* through an old connection that waits to be destroyed (conn_set_channel,
\* _handle_ban_command).
THEOREM BansHoldAlways == Spec => []BansHold
<1>1. ASSUME Inv PROVE BansHold
  <2>1. PICK w, k : w = World /\ k = kick_old_login
    OBVIOUS
  <2>2. /\ WorldInv(w, k) /\ w \in Worlds /\ Bans(w, acctconn, {}) /\ w.conn = conn /\ w.chan = chan
        /\ acctconn \in [Account -> Maybe(Conn)]
    BY <1>1, <2>1, InvFacts DEF Inv, TypeOK
  <2>3. ASSUME NEW i \in DOMAIN chan, NEW a \in chan[i].banned
        PROVE  acctconn[a] = NULL \/ conn[acctconn[a]].channel # chan[i].id
    <3>1. a \in Account
      BY <2>2, <2>3, WorldFacts
    <3>2. acctconn[a] \in Conn \/ acctconn[a] = NULL
      BY <2>2, <3>1 DEF Maybe
    <3> QED
      BY <2>2, <2>3, <3>2 DEF Bans
  <2> QED
    BY <2>3 DEF BansHold
<1> QED
  BY Invariance, <1>1, PTL

\* Nobody but an officer enters a full channel, be it one of the file, a copy or
\* one of users, and on whichever way (conn_set_channel,
\* channellist_find_channel_by_name).
THEOREM RoomOnEntryHolds == Spec => RoomOnEntry
<1>1. Inv /\ [Next]_vars => [RoomStep]_vars
  BY NextInv
<1> QED
  BY Invariance, <1>1, PTL DEF Spec, RoomOnEntry

\* A game counts the connections that are in it, in all and for each account,
\* none points to a game that was destroyed, and places and host are exact
\* unless an old login may linger beside the new one (conn_set_game,
\* game_add_player, game_del_player).
THEOREM GamesLinkedHolds == Spec => []GamesLinked
<1>1. ASSUME Inv PROVE GamesLinked
  <2>1. PICK w, k : w = World /\ k = kick_old_login
    OBVIOUS
  <2>2. WorldInv(w, k) /\ w.conn = conn /\ w.game = game
    BY <1>1, <2>1, InvFacts
  <2>3. ASSUME NEW c \in Conn, conn[c].game # NULL PROVE Live(c) /\ game[conn[c].game] # NULL
    <3>1. Live(c)
      BY <2>2, <2>3 DEF WorldInv, Stages, Live
    <3> QED
      BY <2>2, <2>3, <3>1 DEF WorldInv, Games, GameRefs
  <2>4. ASSUME NEW id \in GameId, game[id] # NULL, NEW g, g = game[id]
        PROVE  /\ g.ref = Cardinality(InGame(id))
               /\ \A a \in Account : Cardinality({i \in Here(g) : g.slots[i].account = a})
                                     = Cardinality({c \in InGame(id) : conn[c].account = a})
               /\ g.ref = 0 => g.slots = <<>> /\ g.type = "ladder"
               /\ kick_old_login \/ PlacesExact(id)
    <3>1. Counts(w, id) /\ Fresh(g) /\ (k \/ Places(w, id))
      BY <2>2, <2>4 DEF WorldInv, Games
    <3>2. InGame(id) = In(w, id)
      BY <2>2 DEF InGame, In
    <3>3. \A a : {i \in Here(g) : g.slots[i].account = a} = HereAs(g, a)
      BY DEF HereAs
    <3>4. \A a : {c \in InGame(id) : conn[c].account = a} = InAs(w, id, a)
      BY <2>2, <3>2 DEF InAs
    <3>5. g.ref = Cardinality(InGame(id))
      BY <2>2, <2>4, <3>1, <3>2 DEF Counts
    <3>6. \A a \in Account : Cardinality({i \in Here(g) : g.slots[i].account = a})
                             = Cardinality({c \in InGame(id) : conn[c].account = a})
      <4>1. \A a \in Account : Cardinality(HereAs(g, a)) = Cardinality(InAs(w, id, a))
        BY <2>2, <2>4, <3>1 DEF Counts
      <4> QED
        BY <3>3, <3>4, <4>1
    <3>7. g.ref = 0 => g.slots = <<>> /\ g.type = "ladder"
      BY <3>1 DEF Fresh
    <3>8. kick_old_login \/ PlacesExact(id)
      BY <2>1, <2>2, <3>1, <3>2 DEF Places, PlacesExact
    <3> QED
      BY <3>5, <3>6, <3>7, <3>8
  <2> QED
    BY <2>3, <2>4 DEF GamesLinked
<1> QED
  BY Invariance, <1>1, PTL

\* At most one game of a name can be joined, though finished and started games
\* keep their name (game_create, conn_set_game, game_set_status).
THEOREM AvailableUniqueHolds == Spec => []AvailableUnique
<1>1. ASSUME Inv PROVE AvailableUnique
  <2>1. PICK w, k : w = World /\ k = kick_old_login
    OBVIOUS
  <2>2. WorldInv(w, k)
    BY <1>1, <2>1, InvFacts
  <2>3. ASSUME NEW name \in GameName PROVE Cardinality(Available(World, name)) <= 1
    <3>1. PICK S : S = Available(w, name)
      OBVIOUS
    <3>2. \A g, h \in S : g = h
      BY <2>2, <3>1 DEF WorldInv, Games, Unique, Open, Available
    <3>3. Cardinality(S) <= 1
      <4>1. CASE S = {}
        BY <4>1, FS_EmptySet
      <4>2. CASE S # {}
        <5>1. PICK g : S = {g}
          BY <3>2, <4>2
        <5> QED
          BY <5>1, FS_Singleton
      <4> QED
        BY <4>1, <4>2
    <3> QED
      BY <2>1, <3>1, <3>3
  <2> QED
    BY <2>3 DEF AvailableUnique
<1> QED
  BY Invariance, <1>1, PTL

\* The results a player reported have an entry for every place of the game,
\* though places are taken after a report (game_set_reported_results,
\* game_add_player).
THEOREM ReportsFitHolds == Spec => []ReportsFit
<1>1. ASSUME Inv PROVE ReportsFit
  <2>1. PICK w, k : w = World /\ k = kick_old_login
    OBVIOUS
  <2>2. WorldInv(w, k) /\ w.game = game
    BY <1>1, <2>1, InvFacts
  <2> QED
    BY <2>2 DEF ReportsFit, WorldInv, Games, Reports
<1> QED
  BY Invariance, <1>1, PTL


-----------------------------------------------------------------------------
(* Started games                                                           *)

\* What is asked of the worlds here: the connections and the games, whatever
\* the channels are.
Plain(w) ==
  /\ IsWorld(w) /\ w.conn \in [Conn -> ConnRec] /\ w.game \in [GameId -> Maybe(Game)]
  /\ GameRefs(w)

\* Each game of v goes on from w.
Lasts(w, v) ==
  \A j \in GameId : v.game[j] # NULL =>
    w.game[j] # NULL /\ v.game[j].name = w.game[j].name /\ Sealed(w.game[j], v.game[j])

\* Each game of v goes on from w or has come in place of one of another name.
Onward(w, v) ==
  \A j \in GameId :
    (w.game[j] # NULL /\ v.game[j] # NULL /\ v.game[j].name = w.game[j].name)
    => Sealed(w.game[j], v.game[j])

\* A started game stays sealed over several calls.
LEMMA SealedTrans ==
  ASSUME NEW g, NEW h, NEW k, Sealed(g, h), Sealed(h, k)
  PROVE  Sealed(g, k)
<1> SUFFICES ASSUME g.status \in {"started", "done"}
             PROVE  /\ k.status \in {g.status, "done"} /\ DOMAIN k.slots = DOMAIN g.slots
                    /\ \A i \in DOMAIN g.slots :
                         /\ k.slots[i].account = g.slots[i].account
                         /\ k.slots[i].conn \in {g.slots[i].conn, NULL}
                         /\ g.slots[i].report # 0 => k.slots[i].report = g.slots[i].report
  BY DEF Sealed
<1>1. /\ h.status \in {g.status, "done"} /\ DOMAIN h.slots = DOMAIN g.slots
      /\ \A i \in DOMAIN g.slots :
           /\ h.slots[i].account = g.slots[i].account
           /\ h.slots[i].conn \in {g.slots[i].conn, NULL}
           /\ g.slots[i].report # 0 => h.slots[i].report = g.slots[i].report
  BY DEF Sealed
<1>2. /\ k.status \in {h.status, "done"} /\ DOMAIN k.slots = DOMAIN h.slots
      /\ \A i \in DOMAIN h.slots :
           /\ k.slots[i].account = h.slots[i].account
           /\ k.slots[i].conn \in {h.slots[i].conn, NULL}
           /\ h.slots[i].report # 0 => k.slots[i].report = h.slots[i].report
  BY <1>1 DEF Sealed
<1>3. k.status \in {g.status, "done"} /\ DOMAIN k.slots = DOMAIN g.slots
  BY <1>1, <1>2
<1>4. ASSUME NEW i \in DOMAIN g.slots
      PROVE  /\ k.slots[i].account = g.slots[i].account
             /\ k.slots[i].conn \in {g.slots[i].conn, NULL}
             /\ g.slots[i].report # 0 => k.slots[i].report = g.slots[i].report
  BY <1>1, <1>2, <1>4
<1> QED
  BY <1>3, <1>4

\* The same games go on, and games that go on do so over several calls.
LEMMA LastsFacts ==
  ASSUME NEW w, NEW x, NEW v
  PROVE  /\ v.game = w.game => Lasts(w, v)
         /\ Lasts(w, v) => Onward(w, v)
         /\ Lasts(w, x) /\ Lasts(x, v) => Lasts(w, v)
         /\ Onward(w, x) /\ Lasts(x, v) => Onward(w, v)
<1>1. \A g : Sealed(g, g)
  BY DEF Sealed
<1>2. v.game = w.game => Lasts(w, v)
  BY <1>1 DEF Lasts
<1>3. Lasts(w, v) => Onward(w, v)
  BY DEF Lasts, Onward
<1>4. ASSUME Lasts(w, x), Lasts(x, v) PROVE Lasts(w, v)
  BY <1>4, SealedTrans DEF Lasts
<1>5. ASSUME Onward(w, x), Lasts(x, v) PROVE Onward(w, v)
  BY <1>5, SealedTrans DEF Lasts, Onward
<1> QED
  BY <1>2, <1>3, <1>4, <1>5

\* The game of id alone has ended or goes on.
Elsewhere(w, v, id) == \A j \in GameId : j # id => v.game[j] = w.game[j]

LEMMA LastsAt ==
  ASSUME NEW w, NEW v, NEW id \in GameId, Elsewhere(w, v, id),
         w.game[id] # NULL, v.game[id] # NULL => v.game[id].name = w.game[id].name /\ Sealed(w.game[id], v.game[id])
  PROVE  Lasts(w, v)
<1>1. \A g : Sealed(g, g)
  BY DEF Sealed
<1> QED
  BY <1>1 DEF Lasts, Elsewhere

\* A world is plain when only a field of c has changed that is not its game.
LEMMA PlainConn ==
  ASSUME NEW w, Plain(w), NEW c \in Conn, NEW u, NEW r \in ConnRec, u = [w.conn EXCEPT ![c] = r],
         r.game = w.conn[c].game, NEW v, IsWorld(v), v.conn = u, v.game = w.game
  PROVE  Plain(v) /\ \A d \in Conn : v.conn[d].game = w.conn[d].game
<1>1. u \in [Conn -> ConnRec] /\ \A d \in Conn : u[d].game = w.conn[d].game
  BY DEF Plain
<1> QED
  BY <1>1 DEF Plain, GameRefs

\* conn_part_channel
LEMMA PartPlain ==
  ASSUME NEW w, Plain(w), NEW c \in Conn, NEW v, v = conn_part_channel(w, c)
  PROVE  Plain(v) /\ v.game = w.game /\ \A d \in Conn : v.conn[d].game = w.conn[d].game
<1>1. CASE w.conn[c].channel = NULL
  BY <1>1 DEF conn_part_channel
<1>2. CASE w.conn[c].channel # NULL
  <2>1. PICK n, i, name : n = w.conn[c].channel /\ i = Place(w.chan, n) /\ name = w.chan[i].name
    OBVIOUS
  <2>2. PICK w1 : w1 = [w EXCEPT !.chan[i].members = Without(@, c),
                                 !.conn[c].tmpOP = IF @ = name THEN NULL ELSE @]
    OBVIOUS
  <2>3. PICK w2 : w2 = channel_del_connection(w, n, c)
    OBVIOUS
  <2>4. w2 \in {channel_destroy(w1, i), w1}
    BY <2>1, <2>2, <2>3, Zenon DEF channel_del_connection
  <2>5. PICK t, r : /\ t = IF w.conn[c].tmpOP = name THEN NULL ELSE w.conn[c].tmpOP
                    /\ r = [w.conn[c] EXCEPT !.tmpOP = t]
    OBVIOUS
  <2>6. PICK u : u = [w.conn EXCEPT ![c] = r]
    OBVIOUS
  <2>7. w1.conn = u /\ w1.game = w.game /\ IsWorld(w1)
    BY <2>2, <2>5, <2>6 DEF Plain, IsWorld
  <2>8. w.conn[c] \in ConnRec /\ t \in Maybe(ChannelName)
    BY <2>5 DEF Plain, ConnRec, Maybe
  <2>9. r \in ConnRec /\ r.game = w.conn[c].game
    BY <2>5, <2>8 DEF ConnRec
  <2>10. w2.conn = u /\ w2.game = w.game /\ IsWorld(w2)
    BY <2>4, <2>7 DEF IsWorld, channel_destroy
  <2>11. Plain(w2) /\ \A d \in Conn : w2.conn[d].game = w.conn[d].game
    BY <2>6, <2>9, <2>10, PlainConn
  <2>12. v = [w2 EXCEPT !.conn[c].channel = NULL]
    BY <1>2, <2>1, <2>3 DEF conn_part_channel
  <2>13. PICK q : q = [w2.conn[c] EXCEPT !.channel = NULL]
    OBVIOUS
  <2>14. PICK z : z = [w2.conn EXCEPT ![c] = q]
    OBVIOUS
  <2>15. q \in ConnRec /\ q.game = w2.conn[c].game
    BY <2>11, <2>13 DEF Plain, ConnRec, Maybe
  <2>16. v.conn = z /\ v.game = w2.game /\ IsWorld(v)
    BY <2>10, <2>12, <2>13, <2>14 DEF IsWorld
  <2>17. Plain(v) /\ \A d \in Conn : v.conn[d].game = w2.conn[d].game
    BY <2>11, <2>14, <2>15, <2>16, PlainConn
  <2> QED
    BY <2>10, <2>11, <2>16, <2>17
<1> QED
  BY <1>1, <1>2

\* channel_create and channellist_find_channel_by_name
LEMMA CreatePlain ==
  ASSUME NEW w, Plain(w), NEW name, NEW short, NEW perm, NEW tag, NEW flags, NEW max, NEW v,
         v = channel_create(w, name, short, perm, tag, flags, max).w
  PROVE  Plain(v) /\ v.conn = w.conn /\ v.game = w.game
<1>1. \E s : v \in {w, [w EXCEPT !.chan = s]}
  <2> DEFINE s == Append(w.chan, Channel(NewId(w.chan), name, short, perm, tag, flags, max))
             P == perm /\ Clash(w.chan, name, tag, flags, max)
  <2>1. channel_create(w, name, short, perm, tag, flags, max) =
          IF P THEN [w |-> w, id |-> NULL] ELSE [w |-> [w EXCEPT !.chan = s], id |-> NewId(w.chan)]
    BY DEF channel_create
  <2> HIDE DEF s, P
  <2> QED
    BY <2>1
<1>2. PICK s : v \in {w, [w EXCEPT !.chan = s]}
  BY <1>1
<1>3. v.conn = w.conn /\ v.game = w.game /\ IsWorld(v)
  BY <1>2 DEF Plain, IsWorld
<1> QED
  BY <1>3 DEF Plain, GameRefs

LEMMA FindPlain ==
  ASSUME NEW w, Plain(w), NEW name, NEW v, v = channellist_find_channel_by_name(w, name).w
  PROVE  Plain(v) /\ v.conn = w.conn /\ v.game = w.game
<1> DEFINE short == {i \in DOMAIN w.chan : w.chan[i].short = name}
           hits == {i \in DOMAIN w.chan :
                      w.chan[i].name = name \/ (i \in short /\ Room(w.chan[Special(w.chan, i)]))}
           last == w.chan[Special(w.chan, Max(short))]
           id == w.chan[Special(w.chan, Min(hits))].id
           copy == channel_format_name(last.short, Cardinality(short) + 1)
           new == channel_create(w, copy, last.short, TRUE, last.tag, last.flags, last.max)
<1>1. channellist_find_channel_by_name(w, name) =
        IF hits # {} THEN [w |-> w, id |-> id] ELSE IF short = {} THEN [w |-> w, id |-> NULL] ELSE new
  BY DEF channellist_find_channel_by_name
<1>2. PICK x : x = new.w
  OBVIOUS
<1>3. Plain(x) /\ x.conn = w.conn /\ x.game = w.game
  <2>1. PICK sh, perm, tag, flags, max : /\ sh = last.short /\ perm = TRUE /\ tag = last.tag
                                         /\ flags = last.flags /\ max = last.max
    OBVIOUS
  <2>2. x = channel_create(w, copy, sh, perm, tag, flags, max).w
    BY <1>2, <2>1
  <2> HIDE DEF short, hits, last, id, copy, new
  <2> QED
    BY <2>2, CreatePlain
<1> HIDE DEF short, hits, last, id, copy, new
<1>4. v = w \/ v = x
  BY <1>1, <1>2
<1> QED
  BY <1>3, <1>4

\* LeaveGame: the game ends or goes on with a place freed.
LEMMA LeaveLasts ==
  ASSUME NEW w, Plain(w), NEW c \in Conn, NEW v, v = LeaveGame(w, c)
  PROVE  /\ Lasts(w, v) /\ IsWorld(v) /\ v.game \in [GameId -> Maybe(Game)]
         /\ \A j \in GameId : j # w.conn[c].game => v.game[j] = w.game[j]
<1>1. PICK id : id = w.conn[c].game
  OBVIOUS
<1>2. CASE id = NULL
  BY <1>1, <1>2, LastsFacts DEF LeaveGame, Plain
<1>3. CASE id # NULL
  <2>1. id \in GameId /\ w.game[id] # NULL
    BY <1>1, <1>3 DEF Plain, ConnRec, Maybe, GameRefs
  <2>2. PICK g \in Game : g = w.game[id]
    BY <2>1 DEF Plain, Maybe
  <2>3. PICK P : P = {i \in Here(g) : g.slots[i].account = w.conn[c].account}
    OBVIOUS
  <2>4. PICK h : h = game_choose_host([g EXCEPT !.slots[Min(P)].conn = NULL, !.ref = @ - 1])
    OBVIOUS
  <2>5. PICK x : x = game_del_player(w, id, c)
    OBVIOUS
  <2>6. x = IF P = {} THEN w ELSE [w EXCEPT !.game[id] = IF g.ref < 2 THEN NULL ELSE h]
    BY <2>2, <2>3, <2>4, <2>5 DEF game_del_player, game_destroy
  <2>7. v = [x EXCEPT !.conn[c].game = NULL]
    BY <1>1, <1>3, <2>5 DEF LeaveGame
  <2>8. IsWorld(x)
    BY <2>6 DEF Plain, IsWorld
  <2>9. IsWorld(v) /\ v.game = x.game
    BY <2>7, <2>8 DEF IsWorld
  <2>10. CASE P = {}
    <3>1. v.game = w.game
      BY <2>6, <2>9, <2>10
    <3> QED
      BY <2>9, <3>1, LastsFacts DEF Plain
  <2>11. CASE P # {}
    <3>1. Min(P) \in DOMAIN g.slots /\ g.ref \in Nat
      <4>1. P \in SUBSET Nat /\ P \subseteq DOMAIN g.slots
        BY <2>3, GameFacts
      <4> QED
        BY <2>11, <4>1, MinFacts, GameFacts
    <3>2. g.ref >= 2 => Freed(g, h, Min(P))
      <4>1. g.ref >= 2 => g.ref >= 1
        BY <3>1
      <4> QED
        BY <2>4, <3>1, <4>1, FreeFacts
    <3>3. PICK y : y = IF g.ref < 2 THEN NULL ELSE h
      OBVIOUS
    <3>4. y = NULL \/ (y \in Game /\ y.name = g.name /\ Sealed(g, y))
      <4>1. CASE g.ref < 2
        BY <3>3, <4>1
      <4>2. CASE g.ref >= 2
        <5>1. y = h /\ Freed(g, h, Min(P))
          BY <3>1, <3>2, <3>3, <4>2
        <5> QED
          BY <5>1 DEF Freed, Sealed
      <4> QED
        BY <3>1, <4>1, <4>2
    <3>5. v.game = [w.game EXCEPT ![id] = y]
      BY <2>6, <2>9, <2>11, <3>3 DEF Plain, IsWorld
    <3>6. /\ v.game[id] = y /\ \A j \in GameId : j # id => v.game[j] = w.game[j]
          /\ v.game \in [GameId -> Maybe(Game)]
      BY <2>1, <3>4, <3>5 DEF Plain, Maybe
    <3>7. Lasts(w, v)
      <4>1. Elsewhere(w, v, id) /\ (v.game[id] # NULL => v.game[id].name = w.game[id].name /\ Sealed(w.game[id], v.game[id]))
        BY <2>2, <3>4, <3>6 DEF Elsewhere
      <4> QED
        BY <2>1, <4>1, LastsAt
    <3> QED
      BY <1>1, <2>9, <3>6, <3>7
  <2> QED
    BY <2>10, <2>11
<1> QED
  BY <1>2, <1>3

\* channel_add_connection leaves the games alone.
LEMMA AddLasts ==
  ASSUME NEW A, NEW w, IsWorld(w), NEW id, NEW c
  PROVE  channel_add_connection(A, w, id, c).game = w.game
BY DEF channel_add_connection, IsWorld

\* conn_set_channel: a game is left; nothing but the channel if it is refused.
LEMMA SetChannelLasts ==
  ASSUME NEW A, NEW w, Plain(w), NEW c \in Conn, NEW name, NEW r, r = conn_set_channel(A, w, c, name)
  PROVE  Lasts(w, r.w) /\ (~r.ok => Plain(r.w) /\ r.w.game = w.game)
<1>1. PICK f : f = channellist_find_channel_by_name(w, name)
  OBVIOUS
<1>2. Plain(f.w) /\ f.w.game = w.game
  BY <1>1, FindPlain
<1>3. PICK w1 : w1 = conn_part_channel(f.w, c)
  OBVIOUS
<1>4. Plain(w1) /\ w1.game = w.game
  BY <1>2, <1>3, PartPlain
<1>5. PICK w2 : w2 = LeaveGame(w1, c)
  OBVIOUS
<1>6. Lasts(w1, w2) /\ IsWorld(w2)
  BY <1>4, <1>5, LeaveLasts
<1>7. PICK new : new = channel_create(w2, name, name, FALSE, NULL, UserFlags, UserMax)
  OBVIOUS
<1>8. PICK x : x = new.w
  OBVIOUS
<1>9. x.game = w2.game /\ IsWorld(x)
  <2>1. PICK id, s : new = [w |-> [w2 EXCEPT !.chan = s], id |-> id]
    BY <1>7 DEF channel_create
  <2>2. x = [w2 EXCEPT !.chan = s]
    BY <1>8, <2>1
  <2> QED
    BY <1>6, <2>2 DEF IsWorld
<1>10. PICK w3 : w3 \in {x, w2} /\ IF f.id = NULL THEN w3 = x ELSE w3 = w2
  OBVIOUS
<1>n. PICK n : IF f.id = NULL THEN n = new.id ELSE n = f.id
  OBVIOUS
<1>c. PICK ch : ch = w1.chan[Place(w1.chan, f.id)]
  OBVIOUS
<1>11. PICK w4 : w4 = channel_add_connection(A, w3, n, c)
  OBVIOUS
<1>12. w4.game = w2.game
  BY <1>6, <1>9, <1>10, <1>11, AddLasts
<1>13. r = IF f.id # NULL /\ f.id = w.conn[c].channel THEN [w |-> f.w, ok |-> TRUE]
           ELSE IF f.id # NULL /\ Refused(A, w1, ch, c, name) THEN [w |-> w1, ok |-> FALSE]
           ELSE [w |-> w4, ok |-> TRUE]
  <2>1. r = IF f.id # NULL /\ f.id = w.conn[c].channel THEN [w |-> f.w, ok |-> TRUE]
            ELSE IF f.id = NULL THEN [w |-> channel_add_connection(A, new.w, new.id, c), ok |-> TRUE]
            ELSE IF Refused(A, w1, ch, c, name) THEN [w |-> w1, ok |-> FALSE]
            ELSE [w |-> channel_add_connection(A, w2, f.id, c), ok |-> TRUE]
    BY <1>1, <1>3, <1>5, <1>7, <1>c DEF conn_set_channel
  <2>2. f.id = NULL => w4 = channel_add_connection(A, new.w, new.id, c)
    BY <1>8, <1>10, <1>n, <1>11
  <2>3. f.id # NULL => w4 = channel_add_connection(A, w2, f.id, c)
    BY <1>10, <1>n, <1>11
  <2> QED
    BY <2>1, <2>2, <2>3
<1>14. (r.w = f.w /\ r.ok) \/ r.w = w1 \/ (r.w = w4 /\ r.ok)
  BY <1>13
<1>15. Lasts(w, f.w) /\ Lasts(w, w1)
  BY <1>2, <1>4, LastsFacts
<1>16. Lasts(w, w4)
  <2>1. Lasts(w2, w4) /\ Lasts(w, w2)
    BY <1>6, <1>12, <1>15, LastsFacts
  <2> QED
    BY <2>1, LastsFacts
<1> QED
  BY <1>4, <1>14, <1>15, <1>16

\* JoinOrVoid
LEMMA JoinLasts ==
  ASSUME NEW A, NEW w, Plain(w), NEW c \in Conn, NEW name, NEW v, v = JoinOrVoid(A, w, c, name)
  PROVE  Lasts(w, v)
<1>1. PICK r : r = conn_set_channel(A, w, c, name)
  OBVIOUS
<1>2. Lasts(w, r.w) /\ (~r.ok => Plain(r.w))
  BY <1>1, SetChannelLasts
<1>3. CASE r.ok
  BY <1>1, <1>2, <1>3 DEF JoinOrVoid
<1>4. CASE ~r.ok
  <2>1. v = conn_set_channel(A, r.w, c, Void).w
    BY <1>1, <1>4 DEF JoinOrVoid
  <2>2. Lasts(r.w, v)
    BY <1>2, <1>4, <2>1, SetChannelLasts
  <2> QED
    BY <1>2, <2>2, LastsFacts
<1> QED
  BY <1>3, <1>4

\* game_set_status: a started game is not opened again.
LEMMA StatusLasts ==
  ASSUME NEW w, Plain(w), NEW c \in Conn, NEW id, id = w.conn[c].game, id # NULL,
         NEW status \in {"open", "full", "loaded", "started", "done"}, NEW v, v = game_set_status(w, id, status)
  PROVE  Lasts(w, v)
<1>1. id \in GameId /\ w.game[id] # NULL
  BY DEF Plain, ConnRec, Maybe, GameRefs
<1>2. PICK g \in Game : g = w.game[id]
  BY <1>1 DEF Plain, Maybe
<1>3. CASE v = w
  BY <1>3, LastsFacts
<1>4. CASE v # w
  <2>1. /\ v = [w EXCEPT !.game[id].status = status]
        /\ g.status # "done" /\ (g.status = "started" => status \in {"started", "done"})
    BY <1>2, <1>4 DEF game_set_status
  <2>2. PICK h : h = [g EXCEPT !.status = status]
    OBVIOUS
  <2>3. h.status = status /\ h.slots = g.slots /\ h.name = g.name
    BY <2>2 DEF Game
  <2>4. v.game = [w.game EXCEPT ![id] = h]
    BY <1>2, <2>1, <2>2 DEF Plain, IsWorld
  <2>5. v.game[id] = h /\ \A j \in GameId : j # id => v.game[j] = w.game[j]
    BY <1>1, <2>4 DEF Plain
  <2>6. Sealed(g, h)
    BY <2>1, <2>3 DEF Sealed
  <2>7. Elsewhere(w, v, id) /\ v.game[id].name = w.game[id].name /\ Sealed(w.game[id], v.game[id])
    BY <1>2, <2>3, <2>5, <2>6 DEF Elsewhere
  <2> QED
    BY <1>1, <2>7, LastsAt
<1> QED
  BY <1>3, <1>4

\* game_set_reported_results: a report is not made twice.
LEMMA ReportLasts ==
  ASSUME NEW w, Plain(w), NEW c \in Conn, NEW id, id = w.conn[c].game, id # NULL,
         NEW v, v = game_set_reported_results(w, id, c)
  PROVE  Lasts(w, v) /\ Plain(v) /\ v.conn = w.conn
<1>1. id \in GameId /\ w.game[id] # NULL
  BY DEF Plain, ConnRec, Maybe, GameRefs
<1>2. PICK g \in Game : g = w.game[id]
  BY <1>1 DEF Plain, Maybe
<1>3. PICK P : P = {i \in DOMAIN g.slots : g.slots[i].account = w.conn[c].account}
  OBVIOUS
<1>4. v = IF P = {} \/ g.slots[Min(P)].report # 0 THEN w
          ELSE [w EXCEPT !.game[id].slots[Min(P)].report = Len(g.slots)]
  BY <1>2, <1>3 DEF game_set_reported_results
<1>5. CASE v = w
  BY <1>5, LastsFacts
<1>6. CASE v # w
  <2>1. P # {} /\ g.slots[Min(P)].report = 0 /\ v = [w EXCEPT !.game[id].slots[Min(P)].report = Len(g.slots)]
    BY <1>4, <1>6
  <2>2. /\ g.slots \in Seq(Slots) /\ DOMAIN g.slots = 1..Len(g.slots) /\ Len(g.slots) \in Nat
        /\ \A i \in DOMAIN g.slots : g.slots[i] \in Slots
    BY GameFacts
  <2>3. PICK q : q = Min(P) /\ q \in DOMAIN g.slots
    <3>1. P \in SUBSET Nat /\ P \subseteq DOMAIN g.slots
      BY <1>3, <2>2
    <3> QED
      BY <2>1, <3>1, MinFacts
  <2>4. PICK x : x = [g.slots[q] EXCEPT !.report = Len(g.slots)]
    OBVIOUS
  <2>5. x \in Slots /\ x.conn = g.slots[q].conn /\ x.account = g.slots[q].account
    BY <2>2, <2>3, <2>4 DEF Slots
  <2>6. PICK s : s = [g.slots EXCEPT ![q] = x]
    OBVIOUS
  <2>7. s \in Seq(Slots) /\ DOMAIN s = DOMAIN g.slots
    BY <2>2, <2>3, <2>5, <2>6, ExceptSeq
  <2>8. s[q] = x /\ \A i \in DOMAIN g.slots : i # q => s[i] = g.slots[i]
    BY <2>3, <2>6
  <2>9. PICK h : h = [g EXCEPT !.slots = s]
    OBVIOUS
  <2>10. h \in Game /\ h.name = g.name /\ h.status = g.status /\ h.slots = s
    BY <2>7, <2>9 DEF Game
  <2>11. [w.game[id] EXCEPT !.slots[q].report = Len(g.slots)] = h
    BY <1>2, <2>4, <2>6, <2>9
  <2>12. v = [w EXCEPT !.game[id] = h]
    BY <2>1, <2>3, <2>11
  <2>13. v.conn = w.conn /\ v.game = [w.game EXCEPT ![id] = h] /\ IsWorld(v)
    BY <2>12 DEF Plain, IsWorld
  <2>14. v.game[id] = h /\ \A j \in GameId : j # id => v.game[j] = w.game[j]
    BY <1>1, <2>13 DEF Plain
  <2>15. Sealed(g, h)
    BY <2>1, <2>3, <2>5, <2>7, <2>8, <2>10 DEF Sealed
  <2>16. Lasts(w, v)
    <3>1. Elsewhere(w, v, id) /\ v.game[id].name = w.game[id].name /\ Sealed(w.game[id], v.game[id])
      BY <1>2, <2>10, <2>14, <2>15 DEF Elsewhere
    <3> QED
      BY <1>1, <3>1, LastsAt
  <2>17. h # NULL /\ v.game \in [GameId -> Maybe(Game)]
    BY <2>10, <2>13, GameFacts DEF Plain, Maybe
  <2>18. GameRefs(v)
    <3>1. \A d \in Conn : w.conn[d].game # NULL => w.conn[d].game \in GameId /\ w.game[w.conn[d].game] # NULL
      BY DEF Plain, ConnRec, Maybe, GameRefs
    <3> QED
      BY <2>13, <2>14, <2>17, <3>1 DEF GameRefs
  <2> QED
    BY <2>13, <2>16, <2>17, <2>18 DEF Plain
<1> QED
  BY <1>5, <1>6

\* EnterGame changes a game that can be joined, or creates one.
LEMMA EnterOpen ==
  ASSUME NEW w, IsWorld(w), w.game \in [GameId -> Maybe(Game)], NEW c, NEW name, NEW type, NEW pass,
         Available(w, name) # {} \/ Unused(w) # {}, NEW v, v = EnterGame(w, c, name, type, pass)
  PROVE  \A j \in GameId : \/ v.game[j] = w.game[j] \/ j \in Available(w, name)
                           \/ w.game[j] = NULL /\ v.game[j].name = name
<1>1. PICK open : open = gamelist_find_game_available(w, name, type)
  OBVIOUS
<1>2. open # NULL => open \in Available(w, name)
  <2>1. PICK G : G = {g \in Available(w, name) : w.game[g].type = type}
    OBVIOUS
  <2>2. open = IF G = {} THEN NULL ELSE CHOOSE g \in G : TRUE
    BY <1>1, <2>1 DEF gamelist_find_game_available
  <2> QED
    BY <2>1, <2>2
<1>3. PICK a, out : a = w.conn[c].account /\ out = (~pass \/ (type = "ladder" /\ a \notin Wins))
  OBVIOUS
<1>4. CASE open # NULL
  <2>1. v = EnterAt(w, w, open, c, a, out)
    BY <1>1, <1>3, <1>4 DEF EnterGame, EnterAt
  <2>2. \E y : v.game \in {w.game, [w.game EXCEPT ![open] = y]}
    BY <2>1 DEF EnterAt, IsWorld
  <2> QED
    BY <1>2, <1>4, <2>2
<1>5. CASE open = NULL /\ Available(w, name) # {}
  <2>1. v = w
    BY <1>1, <1>5 DEF EnterGame
  <2> QED
    BY <2>1
<1>6. CASE open = NULL /\ Available(w, name) = {}
  <2>1. PICK id \in Unused(w) : id = Min(Unused(w))
    <3>1. Unused(w) \in SUBSET Nat /\ Unused(w) # {}
      BY <1>6, BnetdGamesAssumption DEF Unused
    <3> QED
      BY <3>1, MinFacts
  <2>2. id \in GameId /\ id # NULL /\ w.game[id] = NULL
    BY <2>1, BnetdGamesAssumption DEF Unused
  <2>3. PICK x : x = NewGame(name, type)
    OBVIOUS
  <2>4. PICK m : m = Made(w, id, x)
    OBVIOUS
  <2>5. v = EnterAt(w, m, id, c, a, out)
    <3> DEFINE found == gamelist_find_game_available(w, name, type)
               create == found = NULL /\ Available(w, name) = {}
               i == IF create THEN Min(Unused(w)) ELSE found
               n == IF create THEN Made(w, i, NewGame(name, type)) ELSE w
    <3>1. v = EnterAt(w, n, i, c, w.conn[c].account, ~pass \/ (type = "ladder" /\ w.conn[c].account \notin Wins))
      BY DEF EnterGame, EnterAt, Made
    <3>2. i = id /\ n = m
      BY <1>1, <1>6, <2>1, <2>3, <2>4 DEF Made
    <3> HIDE DEF i, n
    <3> QED
      BY <1>3, <3>1, <3>2
  <2>6. m.game = [w.game EXCEPT ![id] = x] /\ IsWorld(m)
    BY <2>4 DEF Made, IsWorld
  <2>7. PICK y : y = game_add_player(x, c, a)
    OBVIOUS
  <2>8. x.name = name /\ y.name = name
    <3>1. \A s : [x EXCEPT !.slots = s, !.ref = @ + 1].name = name
      BY <2>3 DEF NewGame
    <3>2. \A s, r, o : [[x EXCEPT !.slots = s, !.ref = @ + 1] EXCEPT !.owner = o].name = name
      BY <2>3 DEF NewGame
    <3> QED
      BY <2>3, <2>7, <3>1, <3>2 DEF NewGame, game_add_player, game_choose_host
  <2>9. m.game[id] = x /\ \A j \in GameId : j # id => m.game[j] = w.game[j]
    BY <2>2, <2>6
  <2>10. v.game \in {m.game, [m.game EXCEPT ![id] = y]}
    BY <2>2, <2>5, <2>6, <2>7, <2>9 DEF EnterAt, IsWorld
  <2>11. v.game[id].name = name /\ \A j \in GameId : j # id => v.game[j] = w.game[j]
    BY <2>2, <2>6, <2>8, <2>9, <2>10
  <2> QED
    BY <2>2, <2>11
<1> QED
  BY <1>4, <1>5, <1>6

\* conn_set_game: who enters a game enters one that has not started, and a place
\* in memory that c leaves and uses again is that of a game of another name.
LEMMA SetGameOnward ==
  ASSUME NEW w, Plain(w), NEW c \in Conn, NEW name, NEW type, NEW pass,
         Available(w, name) # {} \/ (Unused(w) # {} /\ w.conn[c].game = NULL),
         NEW v, v = conn_set_game(w, c, name, type, pass)
  PROVE  Onward(w, v)
<1>1. PICK id : id = w.conn[c].game
  OBVIOUS
<1>2. CASE id # NULL /\ w.game[id].name = name
  BY <1>1, <1>2, LastsFacts DEF conn_set_game
<1>3. CASE ~(id # NULL /\ w.game[id].name = name)
  <2>1. PICK x : x = LeaveGame(w, c)
    OBVIOUS
  <2>2. v = EnterGame(x, c, name, type, pass)
    BY <1>1, <1>3, <2>1 DEF conn_set_game
  <2>3. /\ Lasts(w, x) /\ IsWorld(x) /\ x.game \in [GameId -> Maybe(Game)]
        /\ \A j \in GameId : j # id => x.game[j] = w.game[j]
    BY <1>1, <2>1, LeaveLasts
  <2>4. Available(x, name) # {} \/ Unused(x) # {}
    <3>1. CASE Available(w, name) # {}
      <4>1. PICK g : g \in Available(w, name)
        BY <3>1
      <4>2. g \in GameId /\ w.game[g].name = name /\ g # NULL
        BY <4>1, BnetdGamesAssumption DEF Available
      <4>3. x.game[g] = w.game[g]
        BY <1>3, <2>3, <4>2
      <4> QED
        BY <4>1, <4>3 DEF Available
    <3>2. CASE Unused(w) # {} /\ w.conn[c].game = NULL
      BY <2>1, <3>2 DEF LeaveGame
    <3> QED
      BY <3>1, <3>2
  <2>5. \A j \in GameId : \/ v.game[j] = x.game[j] \/ j \in Available(x, name)
                          \/ x.game[j] = NULL /\ v.game[j].name = name
    BY <2>2, <2>3, <2>4, EnterOpen
  <2>6. ASSUME NEW j \in GameId, w.game[j] # NULL, v.game[j] # NULL, v.game[j].name = w.game[j].name
        PROVE  Sealed(w.game[j], v.game[j])
    <3>1. CASE v.game[j] = x.game[j]
      BY <2>3, <2>6, <3>1 DEF Lasts
    <3>2. CASE j \in Available(x, name)
      <4>1. x.game[j] # NULL /\ x.game[j].status \notin {"started", "done"}
        BY <3>2 DEF Available
      <4>2. Sealed(w.game[j], x.game[j])
        BY <2>3, <4>1 DEF Lasts
      <4>3. w.game[j].status \notin {"started", "done"}
        BY <4>1, <4>2 DEF Sealed
      <4> QED
        BY <4>3 DEF Sealed
    <3>3. CASE x.game[j] = NULL /\ v.game[j].name = name
      <4>1. j = id /\ w.game[j].name = name /\ j # NULL
        BY <2>3, <2>6, <3>3, BnetdGamesAssumption
      <4> QED
        BY <1>3, <4>1
    <3> QED
      BY <2>5, <3>1, <3>2, <3>3
  <2> QED
    BY <2>6 DEF Onward
<1> QED
  BY <1>2, <1>3

LEMMA WorldPlain ==
  ASSUME NEW w, NEW kick, WorldInv(w, kick)
  PROVE  Plain(w)
BY WorldFacts DEF WorldInv, Games, Plain

\* The world of bnetd, and a step after which its games go on.
LEMMA InvPlain ==
  ASSUME Inv
  PROVE  Plain(World) /\ World.conn = conn /\ World.game = game
BY InvFacts, WorldPlain

LEMMA BecomesSealed ==
  ASSUME Inv, NEW v, Onward(World, v) \/ Lasts(World, v), game' = v.game
  PROVE  SealedStep
<1>1. Onward(World, v)
  BY LastsFacts
<1> QED
  BY <1>1, InvPlain DEF Onward, SealedStep

\* Steps that leave the games alone.
LEMMA QuietSealed ==
  ASSUME Inv, game' = game
  PROVE  SealedStep
<1>1. \A g : Sealed(g, g)
  BY DEF Sealed
<1> QED
  BY <1>1 DEF SealedStep

\* The channel of a connection is set, by itself or by others, at once or after
\* it has left the channel it was in.
LEMMA MoveSealed ==
  ASSUME Inv, NEW d \in Conn, NEW name, NEW w, w = World, NEW x, x = conn_part_channel(w, d), NEW v,
         \/ v = x \/ v = JoinOrVoid(auth, w, d, name) \/ v = JoinOrVoid(auth, x, d, name)
         \/ v = conn_set_channel(auth, w, d, name).w \/ v = conn_set_channel(auth, x, d, name).w,
         game' = v.game
  PROVE  SealedStep
<1>1. Plain(w)
  BY InvPlain
<1>2. Plain(x) /\ x.game = w.game
  BY <1>1, PartPlain
<1>3. Lasts(w, x)
  BY <1>2, LastsFacts
<1>4. CASE v = x
  BY <1>3, <1>4, BecomesSealed
<1>5. CASE v = JoinOrVoid(auth, w, d, name) \/ v = conn_set_channel(auth, w, d, name).w
  <2>1. Lasts(w, v)
    BY <1>1, <1>5, JoinLasts, SetChannelLasts
  <2> QED
    BY <2>1, BecomesSealed
<1>6. CASE v = JoinOrVoid(auth, x, d, name) \/ v = conn_set_channel(auth, x, d, name).w
  <2>1. Lasts(x, v)
    BY <1>2, <1>6, JoinLasts, SetChannelLasts
  <2>2. Lasts(w, v)
    BY <1>3, <2>1, LastsFacts
  <2> QED
    BY <2>2, BecomesSealed
<1> QED
  BY <1>4, <1>5, <1>6

LEMMA ChannelSealed ==
  ASSUME Inv, NEW c \in Conn,
         \/ channel_rejoin(c) \/ _client_leavechannel(c)
         \/ \E name \in use.names : _client_joinchannel(c, name)
         \/ \E a \in Account : _handle_kick_command(c, a)
  PROVE  SealedStep
<1>1. PICK w : w = World
  OBVIOUS
<1>2. CASE channel_rejoin(c)
  <2>1. PICK n, x, v : n = NameOf(c) /\ x = conn_part_channel(w, c) /\ v = JoinOrVoid(auth, x, c, n)
    OBVIOUS
  <2>2. game' = v.game
    BY <1>1, <1>2, <2>1 DEF channel_rejoin, Becomes
  <2> QED
    BY <1>1, <2>1, <2>2, MoveSealed
<1>3. CASE _client_leavechannel(c)
  <2>1. PICK x : x = conn_part_channel(w, c)
    OBVIOUS
  <2>2. game' = x.game
    BY <1>1, <1>3, <2>1 DEF _client_leavechannel, Becomes
  <2> QED
    BY <1>1, <2>1, <2>2, MoveSealed
<1>4. ASSUME NEW name \in use.names, _client_joinchannel(c, name) PROVE SealedStep
  <2>1. PICK x, v : x = conn_part_channel(w, c) /\ v = JoinOrVoid(auth, w, c, name)
    OBVIOUS
  <2>2. game' = v.game
    BY <1>1, <1>4, <2>1 DEF _client_joinchannel, Becomes
  <2> QED
    BY <1>1, <2>1, <2>2, MoveSealed
<1>5. ASSUME NEW a \in Account, _handle_kick_command(c, a) PROVE SealedStep
  <2>1. PICK d : d = acctconn[a] /\ d \in Conn
    BY <1>5, InvFacts DEF _handle_kick_command, InSameChannel
  <2>2. PICK x, v : x = conn_part_channel(w, d) /\ v = conn_set_channel(auth, x, d, Void).w
    OBVIOUS
  <2>3. game' = v.game
    BY <1>1, <1>5, <2>1, <2>2 DEF _handle_kick_command, Becomes
  <2> QED
    BY <1>1, <2>1, <2>2, <2>3, MoveSealed
<1> QED
  BY <1>2, <1>3, <1>4, <1>5

\* _handle_ban_command
LEMMA BanSealed ==
  ASSUME Inv, NEW c \in Conn, NEW a \in Account, _handle_ban_command(c, a)
  PROVE  SealedStep
<1>1. PICK w, n, d, x : w = World /\ n = conn[c].channel /\ d = acctconn[a] /\ x = channel_ban_user(w, n, a)
  OBVIOUS
<1>2. Plain(w) /\ w.conn = conn
  BY <1>1, InvPlain
<1>3. x.conn = w.conn /\ x.game = w.game /\ IsWorld(x)
  BY <1>1, <1>2 DEF channel_ban_user, Plain, IsWorld
<1>4. Plain(x) /\ Lasts(w, x)
  BY <1>2, <1>3, LastsFacts DEF Plain, GameRefs
<1>5. IF d # NULL /\ conn[d].channel = n THEN Becomes(conn_set_channel(auth, x, d, Void).w) ELSE Becomes(x)
  BY <1>1 DEF _handle_ban_command, InSameChannel
<1>6. CASE d # NULL /\ conn[d].channel = n
  <2>1. d \in Conn
    BY <1>1, <1>6, InvFacts
  <2>2. PICK v : v = conn_set_channel(auth, x, d, Void).w
    OBVIOUS
  <2>3. Lasts(x, v)
    BY <1>4, <2>1, <2>2, SetChannelLasts
  <2>4. Lasts(w, v)
    BY <1>4, <2>3, LastsFacts
  <2>5. game' = v.game
    BY <1>5, <1>6, <2>2 DEF Becomes
  <2> QED
    BY <1>1, <2>4, <2>5, BecomesSealed
<1>7. CASE ~(d # NULL /\ conn[d].channel = n)
  <2>1. game' = x.game
    BY <1>5, <1>7 DEF Becomes
  <2> QED
    BY <1>1, <1>4, <2>1, BecomesSealed
<1> QED
  BY <1>6, <1>7

\* Logins and commands that move nobody.
LEMMA OtherSealed ==
  ASSUME Inv, NEW c \in Conn,
         \/ sd_accept(c) \/ conn_close_read(c) \/ _handle_moderate_command(c)
         \/ \E a \in Account :
              \/ _client_loginreq1(c, a) \/ _handle_unban_command(c, a)
              \/ _handle_tmpop_command(c, a) \/ _handle_op_command(c, a) \/ _handle_deop_command(c, a)
              \/ _handle_aop_command(c, a) \/ _handle_admin_command(c, a) \/ _handle_operator_command(c, a)
  PROVE  SealedStep
<1>1. IsWorld(World) /\ World.game = game
  BY DEF World, IsWorld
<1>2. CASE sd_accept(c) \/ conn_close_read(c)
  <2>1. game' = game
    BY <1>1, <1>2 DEF sd_accept, conn_close_read, Becomes, IsWorld
  <2> QED
    BY <2>1, QuietSealed
<1>3. ASSUME NEW a \in Account, _client_loginreq1(c, a) PROVE SealedStep
  <2>1. game' = game
    BY <1>3 DEF _client_loginreq1, conn_set_account
  <2> QED
    BY <2>1, QuietSealed
<1>4. ASSUME NEW a \in Account, _handle_unban_command(c, a) PROVE SealedStep
  <2>1. game' = game
    BY <1>1, <1>4 DEF _handle_unban_command, channel_unban_user, Becomes, IsWorld
  <2> QED
    BY <2>1, QuietSealed
<1>5. CASE _handle_moderate_command(c)
  <2>1. game' = game
    BY <1>1, <1>5 DEF _handle_moderate_command, channel_set_flags, Becomes, IsWorld
  <2> QED
    BY <2>1, QuietSealed
<1>t. \A a \in Account : TmpOP(c, a) => game' = game
  BY <1>1 DEF TmpOP, Becomes, IsWorld
<1>h. \A A : Holds(A) => game' = game
  BY DEF Holds
<1>6. ASSUME NEW a \in Account,
             \/ _handle_tmpop_command(c, a) \/ _handle_op_command(c, a) \/ _handle_deop_command(c, a)
             \/ _handle_aop_command(c, a) \/ _handle_admin_command(c, a) \/ _handle_operator_command(c, a)
      PROVE  SealedStep
  <2>1. game' = game
    <3>1. CASE _handle_tmpop_command(c, a)
      BY <1>t, <3>1 DEF _handle_tmpop_command
    <3>2. CASE _handle_op_command(c, a)
      BY <1>t, <1>h, <3>2 DEF _handle_op_command
    <3>3. CASE _handle_deop_command(c, a)
      BY <3>3 DEF _handle_deop_command
    <3>4. CASE _handle_aop_command(c, a)
      BY <1>h, <3>4 DEF _handle_aop_command
    <3>5. CASE _handle_admin_command(c, a)
      BY <1>h, <3>5 DEF _handle_admin_command
    <3>6. CASE _handle_operator_command(c, a)
      BY <1>h, <3>6 DEF _handle_operator_command
    <3> QED
      BY <1>6, <3>1, <3>2, <3>3, <3>4, <3>5, <3>6
  <2> QED
    BY <2>1, QuietSealed
<1> QED
  BY <1>2, <1>3, <1>4, <1>5, <1>6

\* A member returns after the reload and, if it is let in, leaves its game.
LEMMA RejoinSealed ==
  ASSUME Inv, Rejoin
  PROVE  SealedStep
<1>1. PICK w, s : w = World /\ s = channellist_old
  OBVIOUS
<1>2. s \in Seq(Channels) /\ s # <<>>
  BY <1>1 DEF Inv, TypeOK, Rejoin
<1>3. PICK n \in DOMAIN s : n = Len(s)
  BY <1>2, FrontFacts
<1>4. PICK ch : ch = s[n] /\ ch \in Channels
  BY <1>2, ElementOfSeq, LenProperties
<1>5. CASE ch.members = <<>>
  <2>1. game' = w.game
    BY <1>1, <1>3, <1>4, <1>5 DEF Rejoin, Becomes
  <2> QED
    BY <1>1, <2>1, InvPlain, QuietSealed
<1>6. CASE ch.members # <<>>
  <2>1. ch.members \in Seq(Conn)
    BY <1>4 DEF Channels
  <2>2. PICK c : c = Last(ch.members) /\ c \in Conn
    <3>1. PICK m : m = ch.members
      OBVIOUS
    <3> QED
      BY <1>6, <2>1, <3>1, FrontFacts
  <2>3. PICK v, x : v = conn_set_channel(auth, w, c, ch.short).w /\ x = conn_part_channel(w, c)
    OBVIOUS
  <2>4. game' = v.game
    BY <1>1, <1>3, <1>4, <1>6, <2>2, <2>3 DEF Rejoin, Becomes
  <2> QED
    BY <1>1, <2>2, <2>3, <2>4, MoveSealed
<1> QED
  BY <1>5, <1>6

\* _client_joingame
LEMMA JoinGameSealed ==
  ASSUME Inv, NEW c \in Conn, NEW name, NEW pass, _client_joingame(c, name, pass)
  PROVE  SealedStep
<1>1. PICK w, x : w = World /\ x = conn_part_channel(w, c)
  OBVIOUS
<1>2. Plain(x) /\ x.game = w.game
  BY <1>1, InvPlain, PartPlain
<1>3. CASE Available(x, name) = {}
  <2>1. game' = x.game
    BY <1>1, <1>3 DEF _client_joingame, Becomes
  <2> QED
    BY <1>1, <1>2, <2>1, InvPlain, QuietSealed
<1>4. CASE Available(x, name) # {}
  <2>1. PICK type : type = game[CHOOSE g \in Available(x, name) : TRUE].type
    OBVIOUS
  <2>2. PICK v : v = conn_set_game(x, c, name, type, pass)
    OBVIOUS
  <2>3. game' = v.game
    BY <1>1, <1>4, <2>1, <2>2 DEF _client_joingame, Becomes
  <2>4. Onward(x, v)
    BY <1>2, <1>4, <2>2, SetGameOnward
  <2>5. Onward(w, v)
    BY <1>2, <2>4 DEF Onward
  <2> QED
    BY <1>1, <2>3, <2>5, BecomesSealed
<1> QED
  BY <1>3, <1>4

\* _client_startgame1
LEMMA StartGame1Sealed ==
  ASSUME Inv, NEW c \in Conn, NEW name, NEW type, NEW status \in Status, _client_startgame1(c, name, type, status)
  PROVE  SealedStep
<1>1. PICK w, id : w = World /\ id = conn[c].game
  OBVIOUS
<1>2. Plain(w) /\ w.conn = conn /\ status \in {"open", "full", "loaded", "started", "done"}
  BY <1>1, InvPlain, BnetdAssumption
<1>3. CASE id # NULL
  <2>1. PICK v : v = game_set_status(w, id, status)
    OBVIOUS
  <2>2. Lasts(w, v)
    BY <1>1, <1>2, <1>3, <2>1, StatusLasts
  <2>3. game' = v.game
    BY <1>1, <1>3, <2>1 DEF _client_startgame1, Becomes
  <2> QED
    BY <1>1, <2>2, <2>3, BecomesSealed
<1>4. CASE id = NULL
  <2>1. PICK v : v = conn_set_game(w, c, name, type, TRUE)
    OBVIOUS
  <2>2. game' = v.game /\ MayCreate(name)
    BY <1>1, <1>4, <2>1 DEF _client_startgame1, Becomes
  <2>3. Available(w, name) # {} \/ (Unused(w) # {} /\ w.conn[c].game = NULL)
    BY <1>1, <1>2, <1>4, <2>2, CreateRoom
  <2>4. Onward(w, v)
    BY <1>2, <2>1, <2>3, SetGameOnward
  <2> QED
    BY <1>1, <2>2, <2>4, BecomesSealed
<1> QED
  BY <1>3, <1>4

\* _client_startgame4
LEMMA StartGame4Sealed ==
  ASSUME Inv, NEW c \in Conn, NEW name \in use.games, NEW type \in {"normal", "ladder"}, NEW status \in Status,
         _client_startgame4(c, name, type, status)
  PROVE  SealedStep
<1>1. PICK w, k, id : w = World /\ k = kick_old_login /\ id = conn[c].game
  OBVIOUS
<1>2. /\ k \in BOOLEAN /\ WorldInv(w, k) /\ w.conn = conn /\ Plain(w) /\ name \in GameName
      /\ w.conn[c].account # NULL /\ status \in {"open", "full", "loaded", "started", "done"}
  BY <1>1, InvFacts, InvPlain, BnetdAssumption DEF _client_startgame4, LoggedIn, Inv, TypeOK
<1>3. PICK x : x = conn_part_channel(w, c)
  OBVIOUS
<1>4. WorldInv(x, k) /\ x.conn[c].account # NULL /\ x.conn[c].game = id /\ x.game = w.game /\ Plain(x)
  <2>1. WorldInv(x, k) /\ Keeps(w, x)
    BY <1>2, <1>3, PartInv
  <2>2. Plain(x) /\ x.game = w.game /\ x.conn[c].game = w.conn[c].game
    BY <1>2, <1>3, PartPlain
  <2> QED
    BY <1>1, <1>2, <2>1, <2>2 DEF Keeps, Carries, SameLogins
<1>5. PICK v1 : v1 = conn_set_game(x, c, name, type, TRUE)
  OBVIOUS
<1>6. PICK to : to = v1.conn[c].game
  OBVIOUS
<1>7. IF id # NULL THEN Becomes(game_set_status(x, id, status))
      ELSE IF Available(x, name) # {} THEN Becomes(x)
      ELSE /\ MayCreate(name)
           /\ IF to # NULL /\ status \in {"full", "loaded"}
              THEN Becomes(game_set_status(v1, to, status)) ELSE Becomes(v1)
  BY <1>1, <1>3, <1>5, <1>6 DEF _client_startgame4
<1>8. Lasts(w, x)
  BY <1>4, LastsFacts
<1>9. CASE id # NULL
  <2>1. PICK v : v = game_set_status(x, id, status)
    OBVIOUS
  <2>2. Lasts(x, v)
    BY <1>2, <1>4, <1>9, <2>1, StatusLasts
  <2>3. Lasts(w, v)
    BY <1>8, <2>2, LastsFacts
  <2>4. game' = v.game
    BY <1>7, <1>9, <2>1 DEF Becomes
  <2> QED
    BY <1>1, <2>3, <2>4, BecomesSealed
<1>10. CASE id = NULL /\ Available(x, name) # {}
  <2>1. game' = x.game
    BY <1>7, <1>10 DEF Becomes
  <2> QED
    BY <1>1, <1>8, <2>1, BecomesSealed
<1>11. CASE id = NULL /\ Available(x, name) = {}
  <2>1. /\ MayCreate(name)
        /\ IF to # NULL /\ status \in {"full", "loaded"}
           THEN Becomes(game_set_status(v1, to, status)) ELSE Becomes(v1)
    BY <1>7, <1>11
  <2>2. Available(w, name) = Available(x, name) /\ Unused(w) = Unused(x)
    BY <1>4 DEF Available, Unused
  <2>3. Unused(x) # {} /\ x.conn[c].game = NULL
    BY <1>1, <1>4, <1>11, <2>1, <2>2, CreateRoom
  <2>4. WorldInv(v1, k)
    BY <1>2, <1>4, <1>5, <2>3, SetGameInv
  <2>5. Onward(x, v1)
    BY <1>4, <1>5, <2>3, SetGameOnward
  <2>6. Onward(w, v1)
    BY <1>4, <2>5 DEF Onward
  <2>7. CASE to # NULL /\ status \in {"full", "loaded"}
    <3>1. PICK v : v = game_set_status(v1, to, status)
      OBVIOUS
    <3>2. Plain(v1)
      BY <2>4, WorldPlain
    <3>3. Lasts(v1, v)
      BY <1>2, <1>6, <2>7, <3>1, <3>2, StatusLasts
    <3>4. Onward(w, v)
      BY <2>6, <3>3, LastsFacts
    <3>5. game' = v.game
      BY <2>1, <2>7, <3>1 DEF Becomes
    <3> QED
      BY <1>1, <3>4, <3>5, BecomesSealed
  <2>8. CASE ~(to # NULL /\ status \in {"full", "loaded"})
    <3>1. game' = v1.game
      BY <2>1, <2>8 DEF Becomes
    <3> QED
      BY <1>1, <2>6, <3>1, BecomesSealed
  <2> QED
    BY <2>7, <2>8
<1> QED
  BY <1>9, <1>10, <1>11

\* A report and the game left after it.
LEMMA ReportLeaveLasts ==
  ASSUME NEW w, Plain(w), NEW c \in Conn, NEW id, id = w.conn[c].game, id # NULL,
         NEW x, x = game_set_reported_results(w, id, c), NEW v, v \in {LeaveGame(w, c), LeaveGame(x, c)}
  PROVE  Lasts(w, v)
<1>1. Lasts(w, x) /\ Plain(x)
  BY ReportLasts
<1>2. CASE v = LeaveGame(w, c)
  BY <1>2, LeaveLasts
<1>3. CASE v = LeaveGame(x, c)
  <2>1. Lasts(x, v)
    BY <1>1, <1>3, LeaveLasts
  <2> QED
    BY <1>1, <2>1, LastsFacts
<1> QED
  BY <1>2, <1>3

\* _client_closegame and _client_gamereport
LEMMA EndGameSealed ==
  ASSUME Inv, NEW c \in Conn, _client_closegame(c) \/ _client_gamereport(c)
  PROVE  SealedStep
<1>1. PICK w, id : w = World /\ id = conn[c].game
  OBVIOUS
<1>2. Plain(w) /\ w.conn = conn /\ id # NULL
  BY <1>1, InvPlain DEF _client_closegame, _client_gamereport
<1>3. PICK x, y : x = game_set_reported_results(w, id, c) /\ y = game_set_status(w, id, "started")
  OBVIOUS
<1>4. Lasts(w, LeaveGame(w, c)) /\ Lasts(w, LeaveGame(x, c))
  BY <1>1, <1>2, <1>3, ReportLeaveLasts
<1>5. Lasts(w, y)
  BY <1>1, <1>2, <1>3, StatusLasts
<1>6. \E v \in {LeaveGame(w, c), LeaveGame(x, c), y} : Becomes(v)
  <2>1. CASE _client_closegame(c)
    BY <1>1, <1>3, <2>1 DEF _client_closegame
  <2>2. CASE _client_gamereport(c)
    BY <1>1, <1>3, <2>2 DEF _client_gamereport
  <2> QED
    BY <2>1, <2>2
<1>7. PICK v : Becomes(v) /\ Lasts(w, v)
  BY <1>4, <1>5, <1>6
<1> QED
  BY <1>1, <1>7, BecomesSealed DEF Becomes

\* conn_destroy
LEMMA DestroySealed ==
  ASSUME Inv, NEW c \in Conn, conn_destroy(c)
  PROVE  SealedStep
<1>1. PICK w, id, x : w = World /\ id = conn[c].game /\ x = conn_part_channel(w, c)
  OBVIOUS
<1>2. Plain(w) /\ w.conn = conn
  BY <1>1, InvPlain
<1>3. Plain(x) /\ x.game = w.game /\ x.conn[c].game = id
  BY <1>1, <1>2, PartPlain
<1>4. PICK y : y = IF id # NULL /\ game[id].status = "started" THEN game_set_self_report(x, id, c) ELSE x
  OBVIOUS
<1>5. PICK v : v = LeaveGame(y, c)
  OBVIOUS
<1>6. game' = v.game
  BY <1>1, <1>4, <1>5 DEF conn_destroy
<1>7. Lasts(x, v)
  <2>1. CASE id # NULL /\ game[id].status = "started"
    <3>1. y = game_set_reported_results(x, id, c)
      BY <1>4, <2>1 DEF game_set_self_report
    <3> QED
      BY <1>3, <1>5, <2>1, <3>1, ReportLeaveLasts
  <2>2. CASE ~(id # NULL /\ game[id].status = "started")
    BY <1>3, <1>4, <1>5, <2>2, LeaveLasts
  <2> QED
    BY <2>1, <2>2
<1>8. Lasts(w, v)
  <2>1. Lasts(w, x)
    BY <1>3, LastsFacts
  <2> QED
    BY <1>7, <2>1, LastsFacts
<1> QED
  BY <1>1, <1>6, <1>8, BecomesSealed

LEMMA HandleSealed ==
  ASSUME Inv, NEW c \in Conn, Handle(c)
  PROVE  SealedStep
<1>1. CASE \/ sd_accept(c) \/ conn_close_read(c) \/ _handle_moderate_command(c)
           \/ \E a \in Account :
                \/ _client_loginreq1(c, a) \/ _handle_unban_command(c, a)
                \/ _handle_tmpop_command(c, a) \/ _handle_op_command(c, a) \/ _handle_deop_command(c, a)
                \/ _handle_aop_command(c, a) \/ _handle_admin_command(c, a) \/ _handle_operator_command(c, a)
  BY <1>1, OtherSealed
<1>2. CASE conn_destroy(c)
  BY <1>2, DestroySealed
<1>3. CASE \/ channel_rejoin(c) \/ _client_leavechannel(c)
           \/ \E name \in use.names : _client_joinchannel(c, name)
           \/ \E a \in Account : _handle_kick_command(c, a)
  BY <1>3, ChannelSealed
<1>4. CASE _client_closegame(c) \/ _client_gamereport(c)
  BY <1>4, EndGameSealed
<1>5. ASSUME NEW a \in Account, _handle_ban_command(c, a) PROVE SealedStep
  BY <1>5, BanSealed
<1>6. ASSUME NEW name \in use.games, NEW pass \in BOOLEAN, _client_joingame(c, name, pass) PROVE SealedStep
  BY <1>6, JoinGameSealed
<1>7. ASSUME NEW name \in use.games, NEW type \in {"normal", "ladder"}, NEW status \in Status,
             _client_startgame1(c, name, type, status)
      PROVE  SealedStep
  BY <1>7, StartGame1Sealed
<1>8. ASSUME NEW name \in use.games, NEW type \in {"normal", "ladder"}, NEW status \in Status,
             _client_startgame4(c, name, type, status)
      PROVE  SealedStep
  BY <1>8, StartGame4Sealed
<1> QED
  BY <1>1, <1>2, <1>3, <1>4, <1>5, <1>6, <1>7, <1>8 DEF Handle

\* A game that has started is not opened again, gets no player and keeps the
\* reports made, until it is destroyed, whoever joins by its name, starts it
\* again, reports twice or is destroyed late (gamelist_find_game_available,
\* game_set_status, game_set_reported_results, game_del_player).
THEOREM GamesSealedHolds == Spec => GamesSealed
<1>1. Inv /\ [Next]_vars => [SealedStep]_vars
  <2> SUFFICES ASSUME Inv, Next PROVE SealedStep
    OBVIOUS
  <2>1. CASE Rejoin
    BY <2>1, RejoinSealed
  <2>2. ASSUME NEW c \in Conn, Handle(c) PROVE SealedStep
    BY <2>2, HandleSealed
  <2>3. CASE Reload
    <3>1. game' = game
      BY <2>3 DEF Reload, channellist_reload, Becomes, World
    <3> QED
      BY <3>1, QuietSealed
  <2> QED
    BY <2>1, <2>2, <2>3 DEF Next
<1> QED
  BY Invariance, <1>1, PTL DEF GamesSealed, Spec

=============================================================================
