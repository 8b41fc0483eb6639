------------------------------ MODULE MCBnetd ------------------------------
(* Small instances of Bnetd.                                               *)
EXTENDS Bnetd

CONSTANTS m, n, ann, bob

\* The channel file: a channel with room for one, the same for other clients,
\* The Void, and a line that channel_create refuses.
MCVoid == <<"V", <<>>>>
P == <<"P", <<>>>>
T == <<"T", <<>>>>
P1 == channel_format_name(P, 1)
P3 == channel_format_name(P, 3)
MCUserFlags == {"bots", "opers"}
Line(name, short, tag, flags, max) ==
  [name |-> name, short |-> short, tag |-> tag, flags |-> flags, max |-> max]
MCChannelFile == channellist_load_permanent(
  <<Line(P1, P, "D2DV", MCUserFlags, 1), Line(P1, P, "D2XP", MCUserFlags, 1),
    Line(P1, P, "D2DV", MCUserFlags, 1),
    Line(MCVoid, MCVoid, NULL, {"bots", "moderated"}, -1)>>)

\* Chatting: bob is admin of the server and the channels are the permanent one,
\* its copies and one of a user; or ann's offices there, or bob's office, come
\* and go; or bob is operator of channels that have the name of a copy, one made by
\* a user and one by the server, with or without /moderate in them.
Chat(list, names, auth0, offices, moderate) ==
  [conns |-> 3, live |-> 0, list |-> list, names |-> names, games |-> {}, auth |-> auth0,
   offices |-> offices, moderate |-> moderate]
Admin == {<<bob, "admin", NULL>>}
Operator == {<<bob, "operator", P3>>}

\* Playing, three in one game or two in two; both, with a user's channel.
Play(conns, live, names, games) ==
  [conns |-> conns, live |-> live, list |-> 5, names |-> names, games |-> games, auth |-> {},
   offices |-> {}, moderate |-> {}]

MCUse ==
  {Chat(5, {P}, Admin, {}, {}),
   Chat(5, {T}, Admin, {<<ann, "operator", T>>, <<ann, "admin", T>>, <<ann, "operator", NULL>>}, {}),
   Chat(5, {T}, Admin, {<<ann, "operator", T>>, <<bob, "admin", NULL>>}, {}),
   Chat(5, {P, P3}, Operator, {}, {P3}), Chat(6, {P, P3}, Operator, {}, {}),
   Play(3, 1, {}, {m}), Play(2, 2, {}, {m, n}), Play(2, 1, {T}, {m})}

MCSymmetry == Permutations(Conn)
=============================================================================
