---------------------------- MODULE MCRealmGames ----------------------------
(* Small instances of RealmGames.                                          *)
EXTENDS RealmGames, TLC

Symmetric == Permutations(Client) \cup Permutations(Link) \cup Permutations(Name)

\* Bound: server 1 alone, with room for two games and three requests; or two
\* servers with room for one game each, and two requests.
Small ==
  IF gs[2].list = "new"
  THEN \A s \in GS : gs[s].maxgame # 1
  ELSE /\ sq_seqno + Cardinality(gqlist) < 3 /\ gq_seqno < 3
       /\ \A s \in GS : gs[s].maxgame < 2
=============================================================================
