-------------------------- MODULE RealmLoginProofs --------------------------
(***************************************************************************)
(* Proofs about the link between d2cs and bnetd and about the logins that  *)
(* pass over it, for any number of links, faults, requests, clients,       *)
(* players and characters.                                                 *)
(***************************************************************************)
EXTENDS RealmLogin, SequenceTheorems, TLAPS

-----------------------------------------------------------------------------
(* The inductive invariants                                                *)

\* The connection of an active realm has the realm, so its destruction
\* deactivates the realm.
RealmOwned == realm.active => crealm[realm.conn]

\* What travels on a link: the handshake, and requests and replies.
Handshake == [type : {"AUTHREQ", "AUTHREPLY"}]
RequestPacket ==
  [type : {"ACCOUNTLOGINREQ"}, seqno : Nat, session : Session, arg : Session, client : Client]
    \union
  [type : {"CHARLOGINREQ"}, seqno : Nat, session : Session, arg : Char, client : Client]
ReplyPacket ==
  [type : {"ACCOUNTLOGINREPLY"}, seqno : Nat, ok : BOOLEAN, arg : Session, client : Client]
    \union
  [type : {"CHARLOGINREPLY"}, seqno : Nat, ok : BOOLEAN, arg : Char, client : Client]

DPacket == Handshake \union ReplyPacket
BPacket == Handshake \union RequestPacket
PacketsOK == toD \in [Links -> Seq(DPacket)] /\ toB \in [Links -> Seq(BPacket)]

\* Does a packet belong to a request?
Carries(m) == m.type \notin {"AUTHREQ", "AUTHREPLY"}

\* A link d2cs has not opened yet is untouched.
UnopenedEmpty ==
  \A l \in Links : dstate[l] = "none" =>
    bstate[l] = "none" /\ tcp[l] = "none" /\ toD[l] = <<>> /\ toB[l] = <<>>

\* d2cs has at most one link that is neither unopened nor closed, the one in use.
OneLinkInUse ==
  \A l \in Links : dstate[l] \notin {"none", "closed"} <=> bnetd_connection = l

\* Requests have numbers of their own, given out in order; their argument is
\* of their kind.
SqOK ==
  /\ \A q \in sqlist : /\ q.seqno <= sqlist_seqno
                       /\ q.arg \in IF q.type = "login" THEN Session ELSE Char
                       /\ cl[q.client].state # "none"
                       /\ Exists(q.client) => cl[q.client].session \in Session
  /\ \A p, q \in sqlist : p.seqno = q.seqno => p = q

\* A client that is logged in proved it with a session; one that is gone has
\* no character and no peer.
ClientsOK ==
  \A c \in Client : /\ cl[c].state \in {"authed", "char_authed"} => cl[c].session \in Session
                    /\ ~Exists(c) => cl[c].charname = NULL /\ ~cl[c].peer

\* A packet and a request of the same number are about the same thing.
Fits(m, q) ==
  /\ m.client = q.client /\ m.arg = q.arg
  /\ m.type \in {"ACCOUNTLOGINREQ", "ACCOUNTLOGINREPLY"} <=> q.type = "login"
AllFit(s) ==
  \A i \in DOMAIN s : Carries(s[i]) =>
    /\ s[i].seqno <= sqlist_seqno
    /\ \A q \in sqlist : q.seqno = s[i].seqno => Fits(s[i], q)

\* Replies and, behind them, requests are under way in the order of their numbers.
Sorted(s) ==
  \A i, j \in DOMAIN s : i < j /\ Carries(s[i]) /\ Carries(s[j]) => s[i].seqno < s[j].seqno
Before(s, t) ==
  \A i \in DOMAIN s, j \in DOMAIN t : Carries(s[i]) /\ Carries(t[j]) => s[i].seqno < t[j].seqno

InFlight ==
  \A l \in Links : dstate[l] # "closed" =>
    /\ AllFit(toD[l]) /\ AllFit(toB[l])
    /\ Sorted(toD[l]) /\ Sorted(toB[l]) /\ Before(toD[l], toB[l])

\* While the latest character request of a client can still be answered, the
\* summary is the one of the requested character.
Holds(s, n) == \E i \in DOMAIN s : Carries(s[i]) /\ s[i].seqno = n
UnderWay(q) ==
  \E l \in Links : dstate[l] # "closed" /\ (Holds(toD[l], q.seqno) \/ Holds(toB[l], q.seqno))
Latest(q) == \A p \in sqlist : p.client = q.client /\ p.type = "char" => p.seqno <= q.seqno
SummaryOK ==
  \A q \in sqlist : q.type = "char" /\ UnderWay(q) /\ Exists(q.client) /\ Latest(q)
                      => cl[q.client].charinfo = q.arg

\* The part of the invariant that is about the link alone.
LinkInv == /\ LinkTypeOK /\ RealmLinked /\ RealmOwned
           /\ PacketsOK /\ UnopenedEmpty /\ OneLinkInUse

\* The part that is about the clients.
LoginInv == SqOK /\ ClientsOK /\ InFlight /\ SummaryOK /\ DeadExact

Inv == TypeOK /\ LinkInv /\ LoginInv

-----------------------------------------------------------------------------
(* Queues                                                                  *)

\* The packets of requests in new were in old, in the same order.
Sub(old, new) ==
  /\ \A i \in DOMAIN new : Carries(new[i]) => \E k \in DOMAIN old : old[k] = new[i]
  /\ \A i, j \in DOMAIN new : i < j /\ Carries(new[i]) /\ Carries(new[j]) =>
       \E k, m \in DOMAIN old : k < m /\ old[k] = new[i] /\ old[m] = new[j]

\* A queue that does not change.
LEMMA SubSame == \A s : Sub(s, s)
BY DEF Sub

\* A queue that is emptied.
LEMMA SubEmpty == \A s : Sub(s, <<>>)
BY DEF Sub

\* The rest of a sequence, place by place.
LEMMA TailFacts ==
  ASSUME NEW S, NEW s \in Seq(S), s # <<>>
  PROVE  /\ Tail(s) \in Seq(S)
         /\ \A i \in DOMAIN Tail(s) : i + 1 \in DOMAIN s /\ Tail(s)[i] = s[i + 1]
         /\ DOMAIN Tail(s) \subseteq Nat \ {0}
         /\ 1 \in DOMAIN s /\ Head(s) = s[1] /\ Head(s) \in S
<1>1. Len(s) \in Nat /\ Len(s) > 0 /\ DOMAIN s = 1..Len(s)
  BY EmptySeq, LenProperties
<1>2. Tail(s) \in Seq(S) /\ Len(Tail(s)) = Len(s) - 1 /\ \A i \in 1..Len(Tail(s)) : Tail(s)[i] = s[i + 1]
  BY HeadTailProperties
<1>3. DOMAIN Tail(s) = 1..(Len(s) - 1)
  BY <1>2, LenProperties
<1>4. Head(s) = s[1] /\ Head(s) \in S
  BY HeadTailProperties
<1> QED
  BY <1>1, <1>2, <1>3, <1>4

\* A sequence with one more element, place by place.
LEMMA AppendFacts ==
  ASSUME NEW S, NEW s \in Seq(S), NEW e \in S
  PROVE  /\ Append(s, e) \in Seq(S)
         /\ Len(s) \in Nat /\ DOMAIN s = 1..Len(s)
         /\ DOMAIN Append(s, e) = 1..(Len(s) + 1)
         /\ \A i \in 1..Len(s) : Append(s, e)[i] = s[i]
         /\ Append(s, e)[Len(s) + 1] = e
BY AppendProperties, LenProperties

\* A queue that loses its first packet.
LEMMA PopQueue ==
  ASSUME NEW S, NEW L, NEW q \in [L -> Seq(S)], NEW l \in L, q[l] # <<>>
  PROVE  /\ Pop(q, l) \in [L -> Seq(S)]
         /\ Pop(q, l)[l] = Tail(q[l])
         /\ \A k \in L : k # l => Pop(q, l)[k] = q[k]
         /\ \A k \in L : Sub(q[k], Pop(q, l)[k])
<1>1. q[l] \in Seq(S)
  OBVIOUS
<1>2. /\ Pop(q, l)[l] = Tail(q[l])
      /\ \A k \in L : k # l => Pop(q, l)[k] = q[k]
      /\ Pop(q, l) = [k \in L |-> Pop(q, l)[k]]
  BY DEF Pop
<1>3. Pop(q, l) \in [L -> Seq(S)]
  <2>1. Tail(q[l]) \in Seq(S)
    BY <1>1, TailFacts
  <2>2. \A k \in L : Pop(q, l)[k] \in Seq(S)
    BY <1>2, <2>1
  <2> QED
    BY <1>2, <2>2
<1>4. Sub(q[l], Tail(q[l]))
  <2> DEFINE s == q[l]
             t == Tail(s)
  <2>1. \A i \in DOMAIN t : i + 1 \in DOMAIN s /\ t[i] = s[i + 1] /\ i \in Nat
    BY <1>1, TailFacts
  <2> HIDE DEF s, t
  <2>2. Sub(s, t)
    BY <2>1 DEF Sub
  <2> QED
    BY <2>2 DEF s, t
<1> QED
  BY <1>2, <1>3, <1>4, SubSame

\* A queue that gets another packet.
LEMMA PushQueue ==
  ASSUME NEW S, NEW L, NEW q \in [L -> Seq(S)], NEW l \in L, NEW m \in S
  PROVE  /\ Push(q, l, m) \in [L -> Seq(S)]
         /\ Push(q, l, m)[l] = Append(q[l], m)
         /\ \A k \in L : k # l => Push(q, l, m)[k] = q[k]
         /\ ~Carries(m) => \A k \in L : Sub(q[k], Push(q, l, m)[k])
<1>1. q[l] \in Seq(S)
  OBVIOUS
<1>2. /\ Push(q, l, m)[l] = Append(q[l], m)
      /\ \A k \in L : k # l => Push(q, l, m)[k] = q[k]
      /\ Push(q, l, m) = [k \in L |-> Push(q, l, m)[k]]
  BY DEF Push
<1>3. Push(q, l, m) \in [L -> Seq(S)]
  BY <1>1, <1>2, AppendFacts
<1>4. ASSUME ~Carries(m) PROVE Sub(q[l], Append(q[l], m))
  <2> DEFINE s == q[l]
             t == Append(s, m)
             n == Len(s)
  <2>1. /\ n \in Nat /\ DOMAIN s = 1..n /\ DOMAIN t = 1..(n + 1)
        /\ \A i \in 1..n : t[i] = s[i]
        /\ t[n + 1] = m
    BY <1>1, AppendFacts
  <2> HIDE DEF s, t, n
  <2>2. \A i \in DOMAIN t : Carries(t[i]) => i \in DOMAIN s /\ t[i] = s[i]
    BY <1>4, <2>1
  <2>3. Sub(s, t)
    BY <2>2 DEF Sub
  <2> QED
    BY <2>3 DEF s, t
<1> QED
  BY <1>2, <1>3, <1>4, SubSame

\* Emptying the queue of a link keeps the type of the queues.
LEMMA ClearQueue ==
  ASSUME NEW S, NEW L, NEW q \in [L -> Seq(S)], NEW l \in L
  PROVE  [q EXCEPT ![l] = <<>>] \in [L -> Seq(S)]
<1>1. <<>> \in Seq(S)
  OBVIOUS
<1> QED
  BY <1>1

-----------------------------------------------------------------------------
(* The link                                                                *)

\* What a step of the link means for the requests under way.
NetEffect ==
  \A l \in Links : dstate'[l] # "closed" =>
    dstate[l] # "closed" /\ Sub(toD[l], toD'[l]) /\ Sub(toB[l], toB'[l])

\* No link is open at first.
LEMMA InitLink == Init => LinkInv
<1> SUFFICES ASSUME Init PROVE LinkInv
  OBVIOUS
<1> USE RealmLinkAssumption
<1>1. LinkInit
  BY DEF Init
<1>2. bound \in [links : Nat, faults : Nat, requests : Nat] /\ Links = 1..bound.links
  BY <1>1 DEF LinkInit, Links
<1>3. LinkTypeOK
  BY <1>1, <1>2 DEF LinkInit, LinkTypeOK, LinkState
<1>4. RealmLinked /\ RealmOwned
  BY <1>1, <1>2 DEF LinkInit, RealmLinked, RealmOwned
<1>5. PacketsOK
  <2>1. \A S : <<>> \in Seq(S)
    OBVIOUS
  <2> QED
    BY <1>1, <1>2, <2>1 DEF LinkInit, PacketsOK
<1>6. UnopenedEmpty /\ OneLinkInUse
  BY <1>1, <1>2 DEF LinkInit, UnopenedEmpty, OneLinkInUse
<1> QED
  BY <1>3, <1>4, <1>5, <1>6 DEF LinkInv

\* Faults only count up to their bound.
LEMMA FaultTypes ==
  ASSUME LinkTypeOK, Fault \/ UNCHANGED <<bound, faults>>
  PROVE  bound' = bound /\ bound \in Bound /\ faults' \in 0..bound.faults
<1>1. bound \in Bound /\ faults \in 0..bound.faults /\ bound.faults \in Nat
  BY RealmLinkAssumption DEF LinkTypeOK
<1> QED
  BY <1>1 DEF Fault

\* Steps of d2cs and of the network leave bnetd's side alone.
LEMMA RealmSame ==
  ASSUME LinkInv, UNCHANGED <<bstate, realm, crealm>>, Links' = Links
  PROVE  RealmLinked' /\ RealmOwned'
BY DEF LinkInv, RealmLinked, RealmOwned

\* Packets that do not move.
LEMMA SameQueues ==
  ASSUME UNCHANGED <<toD, toB>>,
         \A l \in Links : dstate'[l] # "closed" => dstate[l] # "closed"
  PROVE  NetEffect
BY SubSame DEF NetEffect

\* The d2cs end of a link is opened, connected, authenticated or given up.
LEMMA D2csEnd ==
  ASSUME LinkInv, NEW l \in Links,
         \/ bnetd_check_create(l) \/ conn_handle_connecting(l) \/ ConnectFails(l)
         \/ d2cs_read_fails(l)
  PROVE  LinkInv' /\ NetEffect
<1>0. LinkTypeOK /\ UnopenedEmpty /\ OneLinkInUse /\ PacketsOK
  BY DEF LinkInv
<1>t. /\ Links = 1..bound.links /\ dstate \in [Links -> LinkState] /\ tcp \in [Links -> {"none", "up", "cut"}]
      /\ NULL \notin Links
  BY <1>0, RealmLinkAssumption DEF LinkTypeOK
<1>1. UNCHANGED <<bstate, realm, crealm, toD, toB>>
  BY DEF bnetd_check_create, conn_handle_connecting, ConnectFails, d2cs_read_fails
<1>2. PICK d \in {"connecting", "connected", "destroy"} : dstate' = [dstate EXCEPT ![l] = d]
  BY DEF bnetd_check_create, conn_handle_connecting, ConnectFails, d2cs_read_fails
<1>3. /\ Links' = Links /\ dstate' \in [Links -> LinkState]
      /\ dstate'[l] = d /\ \A k \in Links : k # l => dstate'[k] = dstate[k]
      /\ dstate[l] # "closed"
  BY <1>t, <1>2
  DEF Links, LinkState, bnetd_check_create, conn_handle_connecting, ConnectFails, d2cs_read_fails
<1>4. tcp' = tcp \/ tcp' = [tcp EXCEPT ![l] = "up"]
  BY DEF bnetd_check_create, conn_handle_connecting, ConnectFails, d2cs_read_fails
<1>5. tcp' \in [Links -> {"none", "up", "cut"}] /\ \A k \in Links : k # l => tcp'[k] = tcp[k]
  BY <1>t, <1>4
<1>6. /\ bnetd_connection' \in Links \union {NULL}
      /\ OneLinkInUse'
  <2>1. CASE bnetd_check_create(l)
    <3>1. bnetd_connection' = l /\ bnetd_connection = NULL
      BY <2>1 DEF bnetd_check_create
    <3> QED
      BY <1>0, <1>t, <1>3, <3>1 DEF OneLinkInUse
  <2>2. CASE bnetd_connection' = bnetd_connection /\ dstate[l] \notin {"none", "closed"}
    BY <1>0, <1>3, <2>2 DEF OneLinkInUse, LinkTypeOK
  <2> QED
    BY <2>1, <2>2 DEF conn_handle_connecting, ConnectFails, d2cs_read_fails
<1>7. bound' = bound /\ bound \in Bound /\ faults' \in 0..bound.faults
  <2>1. Fault \/ UNCHANGED <<bound, faults>>
    BY DEF bnetd_check_create, conn_handle_connecting, ConnectFails, d2cs_read_fails
  <2> QED
    BY <1>0, <2>1, FaultTypes
<1>8. LinkTypeOK'
  BY <1>0, <1>1, <1>3, <1>5, <1>6, <1>7 DEF LinkTypeOK
<1>9. UnopenedEmpty'
  BY <1>0, <1>1, <1>3, <1>5 DEF UnopenedEmpty
<1>10. PacketsOK'
  BY <1>0, <1>1, <1>3 DEF PacketsOK
<1>11. RealmLinked' /\ RealmOwned'
  BY <1>1, <1>3, RealmSame
<1>12. NetEffect
  BY <1>1, <1>3, SameQueues
<1> QED
  BY <1>6, <1>8, <1>9, <1>10, <1>11, <1>12 DEF LinkInv

\* The handshake as d2cs sees it.
LEMMA D2csHandshake ==
  ASSUME LinkInv, NEW l \in Links, on_bnetd_authreq(l) \/ on_bnetd_authreply(l)
  PROVE  LinkInv' /\ NetEffect
<1>0. LinkTypeOK /\ UnopenedEmpty /\ OneLinkInUse /\ PacketsOK
  BY DEF LinkInv
<1>t. Links = 1..bound.links /\ dstate \in [Links -> LinkState]
  BY <1>0 DEF LinkTypeOK
<1>1. /\ UNCHANGED <<bound, faults, bnetd_connection, bstate, tcp, realm, crealm>>
      /\ toD' = Pop(toD, l) /\ toD[l] # <<>>
  BY DEF on_bnetd_authreq, on_bnetd_authreply, Arrived
<1>2. \/ dstate' = dstate
      \/ dstate' = [dstate EXCEPT ![l] = IF @ = "connected" THEN "authed" ELSE @]
  BY DEF on_bnetd_authreq, on_bnetd_authreply
<1>3. /\ Links' = Links /\ dstate' \in [Links -> LinkState]
      /\ \A k \in Links : dstate'[k] # dstate[k] => dstate[k] = "connected" /\ dstate'[k] = "authed"
  BY <1>t, <1>2 DEF Links, LinkState
<1>4. toB' = toB \/ toB' = Push(toB, l, [type |-> "AUTHREPLY"])
  BY DEF on_bnetd_authreq, on_bnetd_authreply
<1>5. dstate[l] # "none"
  BY <1>0, <1>1 DEF UnopenedEmpty
<1>6. /\ toD' \in [Links -> Seq(DPacket)]
      /\ \A k \in Links : Sub(toD[k], toD'[k])
      /\ \A k \in Links : k # l => toD'[k] = toD[k]
  <2>1. toD \in [Links -> Seq(DPacket)]
    BY <1>0 DEF PacketsOK
  <2> QED
    BY <1>1, <2>1, PopQueue
<1>7. /\ toB' \in [Links -> Seq(BPacket)]
      /\ \A k \in Links : Sub(toB[k], toB'[k])
      /\ \A k \in Links : k # l => toB'[k] = toB[k]
  <2>1. toB \in [Links -> Seq(BPacket)]
    BY <1>0 DEF PacketsOK
  <2> DEFINE m == [type |-> "AUTHREPLY"]
  <2>2. m \in BPacket /\ ~Carries(m)
    BY DEF BPacket, Handshake, Carries
  <2>3. CASE toB' = toB
    BY <2>1, <2>3, SubSame
  <2>4. CASE toB' = Push(toB, l, m)
    <3> HIDE DEF m
    <3> QED
      BY <2>1, <2>2, <2>4, PushQueue
  <2> QED
    BY <1>4, <2>3, <2>4
<1>8. LinkTypeOK'
  BY <1>0, <1>1, <1>3, <1>6, <1>7 DEF LinkTypeOK
<1>9. UnopenedEmpty'
  BY <1>0, <1>1, <1>3, <1>5, <1>6, <1>7 DEF UnopenedEmpty
<1>10. PacketsOK' /\ OneLinkInUse'
  BY <1>0, <1>1, <1>3, <1>6, <1>7 DEF PacketsOK, OneLinkInUse
<1>11. RealmLinked' /\ RealmOwned'
  BY <1>1, <1>3, RealmSame
<1>12. NetEffect
  BY <1>3, <1>6, <1>7 DEF NetEffect
<1> QED
  BY <1>8, <1>9, <1>10, <1>11, <1>12 DEF LinkInv

\* d2cs destroys its end, or the link breaks.
LEMMA LinkCut ==
  ASSUME LinkInv, NEW l \in Links, d2cs_connlist_reap(l) \/ LinkLost(l)
  PROVE  LinkInv' /\ NetEffect
<1>0. LinkTypeOK /\ UnopenedEmpty /\ OneLinkInUse /\ PacketsOK
  BY DEF LinkInv
<1>t. /\ Links = 1..bound.links /\ dstate \in [Links -> LinkState] /\ tcp \in [Links -> {"none", "up", "cut"}]
      /\ NULL \notin Links
  BY <1>0, RealmLinkAssumption DEF LinkTypeOK
<1>1. /\ UNCHANGED <<bstate, realm, crealm>>
      /\ toD' = [toD EXCEPT ![l] = <<>>]
      /\ toB' = toB \/ toB' = [toB EXCEPT ![l] = <<>>]
  BY DEF d2cs_connlist_reap, LinkLost
<1>2. /\ dstate' = dstate /\ bnetd_connection' = bnetd_connection /\ dstate[l] # "none"
      \/ /\ dstate' = [dstate EXCEPT ![l] = "closed"] /\ dstate[l] = "destroy"
         /\ bnetd_connection' = IF bnetd_connection = l THEN NULL ELSE bnetd_connection
  BY <1>0 DEF d2cs_connlist_reap, LinkLost, UnopenedEmpty
<1>3. /\ Links' = Links /\ dstate' \in [Links -> LinkState]
      /\ \A k \in Links : dstate'[k] = dstate[k] \/ (k = l /\ dstate'[k] = "closed")
      /\ dstate[l] # "none"
  BY <1>t, <1>2 DEF Links, LinkState
<1>4. tcp' \in [Links -> {"none", "up", "cut"}] /\ \A k \in Links : k # l => tcp'[k] = tcp[k]
  BY <1>t DEF d2cs_connlist_reap, LinkLost
<1>6. PacketsOK' /\ \A k \in Links : k # l => toD'[k] = toD[k] /\ toB'[k] = toB[k]
  <2>1. toD \in [Links -> Seq(DPacket)] /\ toB \in [Links -> Seq(BPacket)]
    BY <1>0 DEF PacketsOK
  <2>2. toD' \in [Links -> Seq(DPacket)] /\ toB' \in [Links -> Seq(BPacket)]
    <3>1. /\ [toD EXCEPT ![l] = <<>>] \in [Links -> Seq(DPacket)]
          /\ [toB EXCEPT ![l] = <<>>] \in [Links -> Seq(BPacket)]
      BY <2>1, ClearQueue
    <3> QED
      BY <1>1, <2>1, <3>1
  <2>3. \A k \in Links : k # l => toD'[k] = toD[k] /\ toB'[k] = toB[k]
    BY <1>1, <2>1
  <2> QED
    BY <1>3, <2>2, <2>3 DEF PacketsOK
<1>7. bnetd_connection' \in Links \union {NULL} /\ OneLinkInUse'
  <2>1. CASE dstate' = dstate /\ bnetd_connection' = bnetd_connection
    BY <1>0, <1>3, <2>1 DEF OneLinkInUse, LinkTypeOK
  <2>2. CASE /\ dstate' = [dstate EXCEPT ![l] = "closed"] /\ dstate[l] = "destroy"
             /\ bnetd_connection' = IF bnetd_connection = l THEN NULL ELSE bnetd_connection
    BY <1>0, <1>t, <1>3, <2>2 DEF OneLinkInUse
  <2> QED
    BY <1>2, <2>1, <2>2
<1>8. bound' = bound /\ bound \in Bound /\ faults' \in 0..bound.faults
  <2>1. Fault \/ UNCHANGED <<bound, faults>>
    BY DEF d2cs_connlist_reap, LinkLost
  <2> QED
    BY <1>0, <2>1, FaultTypes
<1>9. LinkTypeOK'
  BY <1>0, <1>1, <1>3, <1>4, <1>6, <1>7, <1>8 DEF LinkTypeOK, PacketsOK
<1>10. UnopenedEmpty'
  BY <1>0, <1>1, <1>3, <1>4, <1>6 DEF UnopenedEmpty
<1>11. RealmLinked' /\ RealmOwned'
  BY <1>1, <1>3, RealmSame
<1>12. NetEffect
  <2>1. \A k \in Links : /\ toD'[k] = toD[k] \/ toD'[k] = <<>>
                         /\ toB'[k] = toB[k] \/ toB'[k] = <<>>
    BY <1>0, <1>1 DEF PacketsOK
  <2> QED
    BY <1>3, <2>1, SubSame, SubEmpty DEF NetEffect
<1> QED
  BY <1>6, <1>7, <1>9, <1>10, <1>11, <1>12 DEF LinkInv

\* realm_deactive marks the connection of an active realm for destruction.
LEMMA DeactiveFacts ==
  ASSUME LinkInv, NEW states \in [Links -> LinkState]
  PROVE  /\ realm_deactive(realm, states).bstate \in [Links -> LinkState]
         /\ realm_deactive(realm, states).realm \in [active : BOOLEAN, conn : Links \union {NULL}]
         /\ ~realm_deactive(realm, states).realm.active
         /\ ~realm.active => realm_deactive(realm, states).bstate = states
         /\ realm.active => realm_deactive(realm, states).bstate = [states EXCEPT ![realm.conn] = "destroy"]
<1>1. realm \in [active : BOOLEAN, conn : Links \union {NULL}]
  BY DEF LinkInv, LinkTypeOK
<1>2. realm.active => realm.conn \in Links /\ realm.conn # NULL
  BY <1>1 DEF LinkInv, RealmLinked
<1>3. CASE realm.active
  <2>1. realm_deactive(realm, states) =
          [realm |-> [realm EXCEPT !.active = FALSE], bstate |-> [states EXCEPT ![realm.conn] = "destroy"]]
    BY <1>2, <1>3 DEF realm_deactive
  <2>2. [realm EXCEPT !.active = FALSE] \in [active : BOOLEAN, conn : Links \union {NULL}]
        /\ ~[realm EXCEPT !.active = FALSE].active
    BY <1>1
  <2>3. [states EXCEPT ![realm.conn] = "destroy"] \in [Links -> LinkState]
    BY DEF LinkState
  <2> QED
    BY <1>3, <2>1, <2>2, <2>3
<1>4. CASE ~realm.active
  BY <1>1, <1>4 DEF realm_deactive
<1> QED
  BY <1>3, <1>4

\* Steps of bnetd leave the d2cs end of every link alone.
LEMMA BnetdEnd ==
  ASSUME LinkInv, UNCHANGED <<dstate, bnetd_connection>>,
         Fault \/ UNCHANGED <<bound, faults>>,
         bstate' \in [Links -> LinkState], tcp' \in [Links -> {"none", "up", "cut"}],
         realm' \in [active : BOOLEAN, conn : Links \union {NULL}],
         crealm' \in [Links -> BOOLEAN],
         PacketsOK', RealmLinked', RealmOwned',
         \A k \in Links : dstate[k] = "none" =>
           bstate'[k] = bstate[k] /\ tcp'[k] = tcp[k] /\ toD'[k] = toD[k] /\ toB'[k] = toB[k]
  PROVE  LinkInv'
<1>0. LinkTypeOK /\ UnopenedEmpty /\ OneLinkInUse
  BY DEF LinkInv
<1>1. Links' = Links
  BY DEF Links
<1>2. bound' = bound /\ bound \in Bound /\ faults' \in 0..bound.faults
  BY <1>0, FaultTypes
<1>3. LinkTypeOK'
  BY <1>0, <1>1, <1>2 DEF LinkTypeOK, PacketsOK
<1>4. UnopenedEmpty' /\ OneLinkInUse'
  BY <1>0, <1>1 DEF UnopenedEmpty, OneLinkInUse
<1> QED
  BY <1>3, <1>4 DEF LinkInv

\* bnetd accepts a link and asks d2cs to authenticate, or finds it broken.
LEMMA BnetdAccepts ==
  ASSUME LinkInv, NEW l \in Links, handle_d2cs_init(l) \/ bnetd_read_fails(l)
  PROVE  LinkInv' /\ NetEffect
<1>0. LinkTypeOK /\ UnopenedEmpty /\ PacketsOK /\ RealmLinked /\ RealmOwned
  BY DEF LinkInv
<1>1. /\ UNCHANGED <<bound, faults, bnetd_connection, dstate, tcp, toB, realm, crealm>>
      /\ tcp[l] # "none"
      /\ Links' = Links
  BY DEF handle_d2cs_init, bnetd_read_fails, Links
<1>2. /\ toD' \in [Links -> Seq(DPacket)]
      /\ \A k \in Links : Sub(toD[k], toD'[k])
      /\ \A k \in Links : k # l => toD'[k] = toD[k]
  <2>1. toD \in [Links -> Seq(DPacket)]
    BY <1>0 DEF PacketsOK
  <2> DEFINE m == [type |-> "AUTHREQ"]
  <2>2. m \in DPacket /\ ~Carries(m)
    BY DEF DPacket, Handshake, Carries
  <2>3. toD' = toD \/ toD' = Push(toD, l, m)
    BY DEF handle_d2cs_init, bnetd_read_fails
  <2> HIDE DEF m
  <2> QED
    BY <2>1, <2>2, <2>3, PushQueue, SubSame
<1>3. PacketsOK' /\ NetEffect
  BY <1>0, <1>1, <1>2, SubSame DEF PacketsOK, NetEffect
<1>4. \/ bstate[l] = "none" /\ bstate' = [bstate EXCEPT ![l] = "connected"]
      \/ bstate[l] \in {"connected", "loggedin"} /\ bstate' = [bstate EXCEPT ![l] = "destroy"]
  BY DEF handle_d2cs_init, bnetd_read_fails
<1>5. bstate' \in [Links -> LinkState] /\ \A k \in Links : k # l => bstate'[k] = bstate[k]
  BY <1>0, <1>4 DEF LinkTypeOK, LinkState
<1>6. RealmLinked' /\ RealmOwned'
  <2>1. bstate \in [Links -> LinkState] /\ realm.conn \in Links \union {NULL}
    BY <1>0 DEF LinkTypeOK
  <2>2. \A k \in Links : bstate'[k] = "loggedin" => bstate[k] = "loggedin"
    BY <1>4, <2>1
  <2>3. \A k \in Links : bstate[k] \in {"loggedin", "destroy"} => bstate'[k] \in {"loggedin", "destroy"}
    BY <1>4, <2>1
  <2> QED
    BY <1>0, <1>1, <2>1, <2>2, <2>3 DEF RealmLinked, RealmOwned
<1>7. LinkInv'
  <2>1. /\ tcp' \in [Links -> {"none", "up", "cut"}]
        /\ realm' \in [active : BOOLEAN, conn : Links \union {NULL}]
        /\ crealm' \in [Links -> BOOLEAN]
    BY <1>0, <1>1 DEF LinkTypeOK
  <2>2. dstate[l] # "none"
    BY <1>0, <1>1 DEF UnopenedEmpty
  <2> QED
    BY <1>1, <1>2, <1>3, <1>5, <1>6, <2>1, <2>2, BnetdEnd
<1> QED
  BY <1>3, <1>7

\* on_d2cs_authreply: the connection that logs in replaces the one the realm had.
LEMMA BnetdLogsIn ==
  ASSUME LinkInv, NEW l \in Links, on_d2cs_authreply(l)
  PROVE  LinkInv' /\ NetEffect
<1>0. LinkTypeOK /\ UnopenedEmpty /\ PacketsOK /\ RealmLinked /\ RealmOwned
  BY DEF LinkInv
<1>t. /\ bstate \in [Links -> LinkState] /\ realm \in [active : BOOLEAN, conn : Links \union {NULL}]
      /\ crealm \in [Links -> BOOLEAN] /\ NULL \notin Links
  BY <1>0, RealmLinkAssumption DEF LinkTypeOK
<1>1. /\ UNCHANGED <<bound, faults, bnetd_connection, dstate, tcp>>
      /\ toB' = Pop(toB, l) /\ toB[l] # <<>>
      /\ Links' = Links
  BY DEF on_d2cs_authreply, Arrived, Links
<1>2. /\ toD' \in [Links -> Seq(DPacket)]
      /\ \A k \in Links : Sub(toD[k], toD'[k])
      /\ \A k \in Links : k # l => toD'[k] = toD[k]
  <2>1. toD \in [Links -> Seq(DPacket)]
    BY <1>0 DEF PacketsOK
  <2> DEFINE m == [type |-> "AUTHREPLY"]
  <2>2. m \in DPacket /\ ~Carries(m)
    BY DEF DPacket, Handshake, Carries
  <2>3. toD' = toD \/ toD' = Push(toD, l, m)
    BY DEF on_d2cs_authreply
  <2> HIDE DEF m
  <2> QED
    BY <2>1, <2>2, <2>3, PushQueue, SubSame
<1>3. /\ toB' \in [Links -> Seq(BPacket)]
      /\ \A k \in Links : Sub(toB[k], toB'[k])
      /\ \A k \in Links : k # l => toB'[k] = toB[k]
  <2>1. toB \in [Links -> Seq(BPacket)]
    BY <1>0 DEF PacketsOK
  <2> QED
    BY <1>1, <2>1, PopQueue
<1>4. PacketsOK' /\ NetEffect
  BY <1>1, <1>2, <1>3 DEF PacketsOK, NetEffect
<1>5. dstate[l] # "none"
  BY <1>0, <1>1 DEF UnopenedEmpty
<1>6. CASE UNCHANGED <<realm, bstate, crealm>>
  <2>1. RealmLinked' /\ RealmOwned'
    BY <1>1, <1>6, RealmSame
  <2>2. tcp' \in [Links -> {"none", "up", "cut"}]
    BY <1>0, <1>1 DEF LinkTypeOK
  <2> QED
    BY <1>t, <1>1, <1>2, <1>3, <1>4, <1>5, <1>6, <2>1, <2>2, BnetdEnd
<1>7. CASE bstate[l] = "connected" /\ realm_active(l)
  <2> DEFINE up == [bstate EXCEPT ![l] = "loggedin"]
  <2>1. /\ up \in [Links -> LinkState] /\ up[l] = "loggedin"
        /\ \A k \in Links : k # l => up[k] = bstate[k]
    BY <1>t DEF LinkState
  <2>2. /\ bstate' = realm_deactive(realm, up).bstate
        /\ realm' = [active |-> TRUE, conn |-> l]
        /\ crealm' = [crealm EXCEPT ![l] = TRUE]
    BY <1>7 DEF realm_active
  <2> HIDE DEF up
  <2>3. realm.active => realm.conn \in Links /\ realm.conn # l /\ bstate[realm.conn] \in {"loggedin", "destroy"}
    BY <1>0, <1>t, <1>7 DEF RealmLinked
  <2>4. /\ bstate' \in [Links -> LinkState]
        /\ ~realm.active => bstate' = up
        /\ realm.active => bstate' = [up EXCEPT ![realm.conn] = "destroy"]
    BY <2>1, <2>2, DeactiveFacts
  <2>5. bstate'[l] = "loggedin"
    BY <2>1, <2>3, <2>4
  <2>6. \A k \in Links : k # l => bstate'[k] # "loggedin"
    <3> SUFFICES ASSUME NEW k \in Links, k # l, bstate'[k] = "loggedin" PROVE FALSE
      OBVIOUS
    <3>1. CASE realm.active
      <4>1. k # realm.conn
        BY <2>1, <2>3, <2>4, <3>1
      <4>2. bstate[k] = "loggedin"
        BY <2>1, <2>3, <2>4, <3>1, <4>1
      <4> QED
        BY <1>0, <4>1, <4>2 DEF RealmLinked
    <3>2. CASE ~realm.active
      <4>1. bstate[k] = "loggedin"
        BY <2>1, <2>4, <3>2
      <4> QED
        BY <1>0, <3>2, <4>1 DEF RealmLinked
    <3> QED
      BY <3>1, <3>2
  <2>7. RealmLinked'
    BY <1>t, <1>1, <2>2, <2>5, <2>6 DEF RealmLinked
  <2>8. RealmOwned' /\ crealm' \in [Links -> BOOLEAN]
    BY <1>t, <2>2 DEF RealmOwned
  <2>9. \A k \in Links : dstate[k] = "none" => bstate'[k] = bstate[k]
    <3> SUFFICES ASSUME NEW k \in Links, dstate[k] = "none" PROVE bstate'[k] = bstate[k]
      OBVIOUS
    <3>1. k # l /\ bstate[k] = "none"
      BY <1>0, <1>5 DEF UnopenedEmpty
    <3>2. realm.active => k # realm.conn
      BY <2>3, <3>1
    <3> QED
      BY <2>1, <2>3, <2>4, <3>1, <3>2
  <2>10. /\ tcp' \in [Links -> {"none", "up", "cut"}]
         /\ realm' \in [active : BOOLEAN, conn : Links \union {NULL}]
    BY <1>0, <1>1, <2>2 DEF LinkTypeOK
  <2> QED
    BY <1>1, <1>2, <1>3, <1>4, <1>5, <2>4, <2>7, <2>8, <2>9, <2>10, BnetdEnd
<1> QED
  BY <1>4, <1>6, <1>7 DEF on_d2cs_authreply

\* conn_destroy takes the realm down with its connection, realmlist_reload
\* takes it down by itself.
LEMMA BnetdDestroys ==
  ASSUME LinkInv, (\E l \in Links : conn_destroy(l)) \/ realmlist_reload
  PROVE  LinkInv' /\ NetEffect
<1>0. LinkTypeOK /\ UnopenedEmpty /\ PacketsOK /\ RealmLinked /\ RealmOwned
  BY DEF LinkInv
<1>t. /\ bstate \in [Links -> LinkState] /\ realm \in [active : BOOLEAN, conn : Links \union {NULL}]
      /\ crealm \in [Links -> BOOLEAN] /\ NULL \notin Links /\ tcp \in [Links -> {"none", "up", "cut"}]
  BY <1>0, RealmLinkAssumption DEF LinkTypeOK
<1> DEFINE off == realm_deactive(realm, bstate)
<1>1. /\ off.bstate \in [Links -> LinkState]
      /\ off.realm \in [active : BOOLEAN, conn : Links \union {NULL}]
      /\ ~off.realm.active
      /\ ~realm.active => off.bstate = bstate
      /\ realm.active => off.bstate = [bstate EXCEPT ![realm.conn] = "destroy"]
  BY <1>t, DeactiveFacts
<1> HIDE DEF off
<1>2. realm.active => realm.conn \in Links /\ bstate[realm.conn] \in {"loggedin", "destroy"} /\ crealm[realm.conn]
  BY <1>0, <1>t DEF RealmLinked, RealmOwned
<1>3. \A k \in Links : off.bstate[k] # "loggedin"
  <2> SUFFICES ASSUME NEW k \in Links, off.bstate[k] = "loggedin" PROVE FALSE
    OBVIOUS
  <2>1. CASE realm.active
    BY <1>0, <1>t, <1>1, <1>2, <2>1 DEF RealmLinked
  <2>2. CASE ~realm.active
    BY <1>0, <1>1, <2>2 DEF RealmLinked
  <2> QED
    BY <2>1, <2>2
<1>4. \A k \in Links : dstate[k] = "none" => off.bstate[k] = bstate[k] /\ bstate[k] = "none"
  BY <1>0, <1>t, <1>1, <1>2 DEF UnopenedEmpty
<1>5. CASE realmlist_reload
  <2>1. /\ bstate' = off.bstate
        /\ realm' = [active |-> FALSE, conn |-> NULL]
        /\ UNCHANGED <<bnetd_connection, dstate, tcp, toD, toB, crealm>>
        /\ Fault /\ Links' = Links
    BY <1>5 DEF realmlist_reload, off, Links
  <2>2. RealmLinked' /\ RealmOwned'
    BY <1>3, <2>1 DEF RealmLinked, RealmOwned
  <2>3. PacketsOK' /\ NetEffect
    BY <1>0, <2>1, SubSame DEF PacketsOK, NetEffect
  <2>4. realm' \in [active : BOOLEAN, conn : Links \union {NULL}]
    BY <2>1
  <2> QED
    BY <1>t, <1>1, <1>4, <2>1, <2>2, <2>3, <2>4, BnetdEnd
<1>6. ASSUME NEW l \in Links, conn_destroy(l) PROVE LinkInv' /\ NetEffect
  <2>1. /\ bstate[l] = "destroy"
        /\ crealm[l] => realm' = off.realm /\ bstate' = [off.bstate EXCEPT ![l] = "closed"]
        /\ ~crealm[l] => realm' = realm /\ bstate' = [bstate EXCEPT ![l] = "closed"]
        /\ crealm' = [crealm EXCEPT ![l] = FALSE]
        /\ tcp' = [tcp EXCEPT ![l] = "cut"]
        /\ toB' = [toB EXCEPT ![l] = <<>>]
        /\ UNCHANGED <<bound, faults, bnetd_connection, dstate, toD>>
        /\ Links' = Links
    BY <1>6 DEF conn_destroy, off, Links
  <2>2. /\ toB' \in [Links -> Seq(BPacket)]
        /\ \A k \in Links : k # l => toB'[k] = toB[k]
        /\ toB'[l] = <<>>
    <3>1. toB \in [Links -> Seq(BPacket)]
      BY <1>0 DEF PacketsOK
    <3> QED
      BY <2>1, <3>1, ClearQueue
  <2>3. PacketsOK' /\ NetEffect
    BY <1>0, <2>1, <2>2, SubSame, SubEmpty DEF PacketsOK, NetEffect
  <2>4. dstate[l] # "none"
    BY <1>0, <2>1 DEF UnopenedEmpty
  <2>5. /\ bstate' \in [Links -> LinkState]
        /\ crealm' \in [Links -> BOOLEAN] /\ tcp' \in [Links -> {"none", "up", "cut"}]
        /\ realm' \in [active : BOOLEAN, conn : Links \union {NULL}]
    <3>1. "closed" \in LinkState
      BY DEF LinkState
    <3> QED
      BY <1>t, <1>1, <2>1, <3>1
  <2>6. \A k \in Links : dstate[k] = "none" =>
           bstate'[k] = bstate[k] /\ tcp'[k] = tcp[k] /\ toD'[k] = toD[k] /\ toB'[k] = toB[k]
    BY <1>t, <1>1, <1>4, <2>1, <2>2, <2>4
  <2>7. RealmLinked' /\ RealmOwned'
    <3>1. CASE crealm[l]
      <4>1. ~realm'.active
        BY <1>1, <2>1, <3>1
      <4>2. \A k \in Links : bstate'[k] # "loggedin"
        BY <1>1, <1>3, <2>1, <3>1
      <4> QED
        BY <2>1, <4>1, <4>2 DEF RealmLinked, RealmOwned
    <3>2. CASE ~crealm[l]
      <4>1. realm' = realm /\ bstate'[l] = "closed" /\ \A k \in Links : k # l => bstate'[k] = bstate[k]
        BY <1>t, <2>1, <3>2
      <4>2. realm.active => realm.conn # l
        BY <1>2, <3>2
      <4>3. \A k \in Links : k # l => crealm'[k] = crealm[k]
        BY <1>t, <2>1
      <4>4. RealmLinked'
        BY <1>0, <1>2, <2>1, <4>1, <4>2 DEF RealmLinked
      <4>5. RealmOwned'
        BY <1>2, <4>1, <4>2, <4>3 DEF RealmOwned
      <4> QED
        BY <4>4, <4>5
    <3> QED
      BY <3>1, <3>2
  <2> QED
    BY <2>1, <2>3, <2>5, <2>6, <2>7, BnetdEnd
<1> QED
  BY <1>5, <1>6

\* A restarted d2cs has forgotten every link.
LEMMA RestartLink ==
  ASSUME LinkInv, d2cs_restart
  PROVE  LinkInv' /\ NetEffect
<1>0. LinkTypeOK /\ UnopenedEmpty /\ PacketsOK
  BY DEF LinkInv
<1>1. /\ Fault
      /\ dstate' = [l \in Links |-> IF dstate[l] = "none" THEN "none" ELSE "closed"]
      /\ tcp' = [l \in Links |-> IF tcp[l] = "up" THEN "cut" ELSE tcp[l]]
      /\ toD' = [l \in Links |-> <<>>]
      /\ bnetd_connection' = NULL
      /\ UNCHANGED <<bstate, toB, realm, crealm>>
  BY DEF d2cs_restart
<1>2. Links' = Links /\ dstate' \in [Links -> LinkState]
  BY <1>1 DEF Links, LinkState
<1>3. bound' = bound /\ bound \in Bound /\ faults' \in 0..bound.faults
  BY <1>0, <1>1, FaultTypes
<1>4. toD' \in [Links -> Seq(DPacket)]
  <2>1. <<>> \in Seq(DPacket)
    OBVIOUS
  <2> QED
    BY <1>1, <2>1
<1>5. PacketsOK'
  BY <1>0, <1>1, <1>2, <1>4 DEF PacketsOK
<1>6. LinkTypeOK'
  BY <1>0, <1>1, <1>2, <1>3, <1>4 DEF LinkTypeOK
<1>7. UnopenedEmpty'
  BY <1>0, <1>1, <1>2 DEF UnopenedEmpty
<1>8. OneLinkInUse'
  <2>1. NULL \notin Links
    BY <1>0, RealmLinkAssumption DEF LinkTypeOK
  <2> QED
    BY <1>1, <1>2, <2>1 DEF OneLinkInUse
<1>9. NetEffect
  BY <1>0, <1>1, SubSame, SubEmpty DEF NetEffect, UnopenedEmpty
<1>10. RealmLinked' /\ RealmOwned'
  BY <1>1, <1>2, RealmSame
<1> QED
  BY <1>5, <1>6, <1>7, <1>8, <1>9, <1>10 DEF LinkInv

\* Every step of the link by itself.
LEMMA NextLink ==
  ASSUME LinkInv, LinkNext
  PROVE  LinkInv' /\ NetEffect
BY D2csEnd, D2csHandshake, LinkCut, BnetdAccepts, BnetdLogsIn, BnetdDestroys
DEF LinkNext, LinkProgress

-----------------------------------------------------------------------------
(* Requests under way                                                      *)

\* Numbers are compared below: requests and packets carry natural numbers.
LEMMA SeqnoTypes ==
  ASSUME TypeOK, PacketsOK
  PROVE  /\ sqlist_seqno \in Nat
         /\ \A q \in sqlist : q.seqno \in Nat /\ q.client \in Client
         /\ \A l \in Links : \A i \in DOMAIN toD[l] : Carries(toD[l][i]) => toD[l][i].seqno \in Nat
         /\ \A l \in Links : \A i \in DOMAIN toB[l] : Carries(toB[l][i]) => toB[l][i].seqno \in Nat
         /\ \A l \in Links : DOMAIN toD[l] \subseteq Nat /\ DOMAIN toB[l] \subseteq Nat
<1>1. sqlist_seqno \in Nat /\ \A q \in sqlist : q.seqno \in Nat /\ q.client \in Client
  BY DEF TypeOK, Sq
<1>2. /\ \A m \in DPacket : Carries(m) => m.seqno \in Nat
      /\ \A m \in BPacket : Carries(m) => m.seqno \in Nat
  BY DEF DPacket, BPacket, Handshake, ReplyPacket, RequestPacket, Carries
<1>3. \A l \in Links : /\ toD[l] \in Seq(DPacket) /\ toB[l] \in Seq(BPacket)
  BY DEF PacketsOK
<1>4. \A l \in Links : /\ DOMAIN toD[l] \subseteq Nat /\ DOMAIN toB[l] \subseteq Nat
                       /\ \A i \in DOMAIN toD[l] : toD[l][i] \in DPacket
                       /\ \A i \in DOMAIN toB[l] : toB[l][i] \in BPacket
  BY <1>3
<1> QED
  BY <1>1, <1>2, <1>4

\* What a queue keeps is as good as what it had.
LEMMA SubKeeps ==
  ASSUME NEW old, NEW new, Sub(old, new)
  PROVE  /\ Sorted(old) => Sorted(new)
         /\ \A t : Before(old, t) => Before(new, t)
         /\ \A t : Before(t, old) => Before(t, new)
         /\ \A n : Holds(new, n) => Holds(old, n)
<1>1. Sorted(old) => Sorted(new)
  <2> SUFFICES ASSUME Sorted(old), NEW i \in DOMAIN new, NEW j \in DOMAIN new,
                      i < j, Carries(new[i]), Carries(new[j])
               PROVE  new[i].seqno < new[j].seqno
    BY DEF Sorted
  <2>1. PICK k \in DOMAIN old, m \in DOMAIN old : k < m /\ old[k] = new[i] /\ old[m] = new[j]
    BY DEF Sub
  <2> QED
    BY <2>1 DEF Sorted
<1>2. \A t : (Before(old, t) => Before(new, t)) /\ (Before(t, old) => Before(t, new))
  BY DEF Sub, Before
<1>3. \A n : Holds(new, n) => Holds(old, n)
  BY DEF Sub, Holds
<1> QED
  BY <1>1, <1>2, <1>3

\* Steps that add nothing to the requests under way: packets and requests may
\* go, a request only after the ones that were made before it.
LEMMA ShrinkStep ==
  ASSUME TypeOK, PacketsOK, SqOK, InFlight, SummaryOK, NetEffect, Links' = Links,
         sqlist' \subseteq sqlist, sqlist_seqno' = sqlist_seqno,
         \A p \in sqlist', q \in sqlist \ sqlist' : UnderWay(p)' => q.seqno <= p.seqno,
         \A c \in Client : cl[c].state # "none" =>
           /\ cl'[c].state # "none"
           /\ Exists(c)' => /\ Exists(c)
                            /\ cl'[c].session = cl[c].session
                            /\ cl'[c].charinfo = cl[c].charinfo
  PROVE  SqOK' /\ InFlight' /\ SummaryOK'
<1>0. \A q \in sqlist : q.client \in Client
  BY SeqnoTypes
<1>1. SqOK'
  BY <1>0 DEF SqOK
<1>2. ASSUME NEW l \in Links, dstate'[l] # "closed"
      PROVE  /\ dstate[l] # "closed" /\ Sub(toD[l], toD'[l]) /\ Sub(toB[l], toB'[l])
             /\ AllFit(toD[l]) /\ AllFit(toB[l])
             /\ Sorted(toD[l]) /\ Sorted(toB[l]) /\ Before(toD[l], toB[l])
  BY <1>2 DEF NetEffect, InFlight
<1>3. ASSUME NEW old, NEW new, Sub(old, new), AllFit(old)
      PROVE  \A i \in DOMAIN new : Carries(new[i]) =>
               /\ new[i].seqno <= sqlist_seqno'
               /\ \A q \in sqlist' : q.seqno = new[i].seqno => Fits(new[i], q)
  BY <1>3 DEF Sub, AllFit
<1>4. ASSUME NEW l \in Links', dstate'[l] # "closed"
      PROVE  /\ AllFit(toD[l])' /\ AllFit(toB[l])'
             /\ Sorted(toD[l])' /\ Sorted(toB[l])' /\ Before(toD[l], toB[l])'
  <2>1. AllFit(toD[l])' /\ AllFit(toB[l])'
    BY <1>2, <1>3, <1>4 DEF AllFit, Fits
  <2>2. Sorted(toD[l])' /\ Sorted(toB[l])'
    BY <1>2, <1>4, SubKeeps DEF Sorted, Carries
  <2>3. Before(toD'[l], toB'[l])
    <3>1. Before(toD'[l], toB[l])
      BY <1>2, <1>4, SubKeeps
    <3> QED
      BY <1>2, <1>4, <3>1, SubKeeps
  <2>4. Before(toD[l], toB[l])'
    BY <2>3 DEF Before, Carries
  <2> QED
    BY <2>1, <2>2, <2>4
<1>5. InFlight'
  BY <1>4 DEF InFlight
<1>6. ASSUME NEW q \in sqlist', UnderWay(q)' PROVE UnderWay(q)
  <2>1. PICK l \in Links' : dstate'[l] # "closed" /\ (Holds(toD'[l], q.seqno) \/ Holds(toB'[l], q.seqno))
    BY <1>6 DEF UnderWay, Holds, Carries
  <2>2. Holds(toD[l], q.seqno) \/ Holds(toB[l], q.seqno)
    BY <1>2, <2>1, SubKeeps
  <2> QED
    BY <1>2, <2>1, <2>2 DEF UnderWay
<1>7. SummaryOK'
  <2> SUFFICES ASSUME NEW q \in sqlist', q.type = "char", UnderWay(q)', Exists(q.client)', Latest(q)'
               PROVE  cl'[q.client].charinfo = q.arg
    BY DEF SummaryOK
  <2>1. q \in sqlist /\ UnderWay(q)
    BY <1>6
  <2>2. Latest(q)
    BY DEF Latest
  <2>3. cl[q.client].state # "none" /\ q.client \in Client
    BY <1>0, <2>1 DEF SqOK
  <2> QED
    BY <2>1, <2>2, <2>3 DEF SummaryOK
<1> QED
  BY <1>1, <1>5, <1>7

-----------------------------------------------------------------------------
(* Steps of clients                                                        *)

\* Steps that leave the link alone, but for the count of faults.
LEMMA SameNet ==
  ASSUME LinkInv, UNCHANGED netVars, Fault \/ UNCHANGED <<bound, faults>>
  PROVE  LinkInv' /\ NetEffect /\ Links' = Links /\ bound' = bound
<1>0. LinkTypeOK
  BY DEF LinkInv
<1>1. UNCHANGED <<bnetd_connection, dstate, bstate, tcp, toD, toB, realm, crealm>> /\ Links' = Links
  BY DEF netVars, Links
<1>2. bound' = bound /\ bound \in Bound /\ faults' \in 0..bound.faults
  BY <1>0, FaultTypes
<1>3. LinkTypeOK'
  BY <1>0, <1>1, <1>2 DEF LinkTypeOK
<1>4. RealmLinked' /\ RealmOwned' /\ PacketsOK' /\ UnopenedEmpty' /\ OneLinkInUse'
  BY <1>1 DEF LinkInv, RealmLinked, RealmOwned, PacketsOK, UnopenedEmpty, OneLinkInUse
<1>5. NetEffect
  BY <1>1, SubSame DEF NetEffect
<1> QED
  BY <1>1, <1>2, <1>3, <1>4, <1>5 DEF LinkInv

\* d2cs_conn_set_state keeps connlist_dead exact.
LEMMA BecomesDead ==
  ASSUME cl \in [Client -> ClientRec], DeadExact, NEW c \in Client, NEW rec \in ClientRec, Becomes(c, rec)
  PROVE  DeadExact' /\ cl' = [cl EXCEPT ![c] = rec] /\ cl' \in [Client -> ClientRec] /\ dead' \subseteq Client
<1>1. cl' = [cl EXCEPT ![c] = rec] /\ dead' = d2cs_conn_set_state(dead, c, cl[c].state, rec.state)
  BY DEF Becomes
<1>2. cl'[c] = rec /\ \A d \in Client : d # c => cl'[d] = cl[d]
  BY <1>1
<1>3. DeadExact'
  <2>1. \A d \in Client : d \in dead <=> cl[d].state = "destroy"
    BY DEF DeadExact
  <2>2. dead \subseteq Client
    BY DEF DeadExact
  <2>3. dead' \subseteq Client /\ \A d \in Client : d \in dead' <=> cl'[d].state = "destroy"
    BY <1>1, <1>2, <2>1, <2>2 DEF d2cs_conn_set_state
  <2> QED
    BY <2>3 DEF DeadExact
<1>4. dead' \subseteq Client
  BY <1>3 DEF DeadExact
<1> QED
  BY <1>1, <1>3, <1>4

\* A connection changes, but no character is given to it and no request is made.
LEMMA ClientChanges ==
  ASSUME Inv, LinkInv', NetEffect, Links' = Links, bound' = bound,
         UNCHANGED <<multilogin, meets, sqlist, sqlist_seqno, sess>>,
         chars' \subseteq Char, DeadExact',
         NEW c \in Client, NEW rec \in ClientRec, cl' = [cl EXCEPT ![c] = rec],
         cl[c].state # "none" => rec.state # "none",
         cl[c].state # "none" /\ rec.state # "gone" =>
           Exists(c) /\ rec.session = cl[c].session /\ rec.charinfo = cl[c].charinfo,
         rec.state \in {"authed", "char_authed"} => rec.session \in Session,
         rec.state \in {"none", "gone"} => rec.charname = NULL /\ ~rec.peer,
         rec.charname \in {cl[c].charname, NULL}
  PROVE  Inv'
<1>0. TypeOK /\ PacketsOK /\ SqOK /\ InFlight /\ SummaryOK /\ ClientsOK
  BY DEF Inv, LinkInv, LoginInv
<1>1. cl'[c] = rec /\ \A d \in Client : d # c => cl'[d] = cl[d]
  BY <1>0 DEF TypeOK
<1>2. \A d \in Client : cl[d].state # "none" =>
           /\ cl'[d].state # "none"
           /\ Exists(d)' => /\ Exists(d)
                            /\ cl'[d].session = cl[d].session
                            /\ cl'[d].charinfo = cl[d].charinfo
  BY <1>1 DEF Exists
<1>3. SqOK' /\ InFlight' /\ SummaryOK'
  BY <1>0, <1>2, ShrinkStep
<1>4. ClientsOK'
  BY <1>0, <1>1 DEF ClientsOK, Exists
<1>5. TypeOK'
  <2>1. LinkTypeOK' /\ dead' \subseteq Client
    BY DEF LinkInv, DeadExact
  <2>2. cl' \in [Client -> ClientRec]
    BY <1>0 DEF TypeOK
  <2> QED
    BY <1>0, <2>1, <2>2 DEF TypeOK
<1> QED
  BY <1>3, <1>4, <1>5 DEF Inv, LoginInv

\* A handler failed: the connection is to be destroyed.
LEMMA FailsInv ==
  ASSUME Inv, LinkInv', NetEffect, Links' = Links, bound' = bound,
         UNCHANGED <<multilogin, meets, sess>>, chars' \subseteq Char,
         NEW c \in Client, Exists(c), Fails(c)
  PROVE  Inv'
<1>1. cl[c] \in ClientRec /\ cl \in [Client -> ClientRec] /\ DeadExact
  BY DEF Inv, LoginInv, TypeOK
<1> DEFINE rec == [cl[c] EXCEPT !.state = "destroy"]
<1>2. /\ rec \in ClientRec /\ rec.state = "destroy" /\ rec.session = cl[c].session
      /\ rec.charinfo = cl[c].charinfo /\ rec.charname = cl[c].charname
  BY <1>1 DEF ClientRec
<1>3. Becomes(c, rec) /\ UNCHANGED <<sqlist, sqlist_seqno>>
  BY DEF Fails
<1> HIDE DEF rec
<1>4. DeadExact' /\ cl' = [cl EXCEPT ![c] = rec]
  BY <1>1, <1>2, <1>3, BecomesDead
<1> QED
  BY <1>2, <1>3, <1>4, ClientChanges

\* Connections that are accepted, left, dropped and reaped.
LEMMA ConnInv ==
  ASSUME Inv, NEW c \in Client,
         \/ d2cs_conn_create(c) \/ ClientLeaves(c) \/ connlist_check_timeout(c)
         \/ conn_handle_read_fails(c) \/ client_reap(c)
  PROVE  Inv'
<1>0. LinkInv /\ TypeOK /\ ClientsOK /\ DeadExact
  BY DEF Inv, LoginInv
<1>1. LinkInv' /\ NetEffect /\ Links' = Links /\ bound' = bound
  <2>1. UNCHANGED netVars /\ (Fault \/ UNCHANGED <<bound, faults>>)
    BY DEF d2cs_conn_create, ClientLeaves, connlist_check_timeout, conn_handle_read_fails,
           client_reap, linkVars, netVars
  <2> QED
    BY <1>0, <2>1, SameNet
<1>2. UNCHANGED <<multilogin, meets, sess, chars>> /\ chars' \subseteq Char
  <2>1. UNCHANGED <<multilogin, meets, sess, chars>>
    BY DEF d2cs_conn_create, ClientLeaves, connlist_check_timeout, conn_handle_read_fails, client_reap
  <2> QED
    BY <1>0, <2>1 DEF TypeOK
<1>t. cl[c] \in ClientRec /\ cl \in [Client -> ClientRec]
  BY <1>0 DEF TypeOK
<1>3. CASE d2cs_conn_create(c)
  <2> DEFINE rec == [NoClient EXCEPT !.state = "connected", !.peer = TRUE]
  <2>1. rec \in ClientRec /\ rec.state = "connected" /\ rec.charname = NULL
    BY DEF NoClient, ClientRec, Maybe
  <2>2. cl' = [cl EXCEPT ![c] = rec] /\ cl[c].state = "none" /\ UNCHANGED <<dead, sqlist, sqlist_seqno>>
    BY <1>3 DEF d2cs_conn_create
  <2> HIDE DEF rec
  <2>3. DeadExact'
    BY <1>0, <1>t, <2>1, <2>2 DEF DeadExact
  <2> QED
    BY <1>1, <1>2, <2>1, <2>2, <2>3, ClientChanges
<1>4. CASE ClientLeaves(c)
  <2> DEFINE rec == [cl[c] EXCEPT !.peer = FALSE]
  <2>1. /\ rec \in ClientRec /\ rec.state = cl[c].state /\ rec.session = cl[c].session
        /\ rec.charinfo = cl[c].charinfo /\ rec.charname = cl[c].charname /\ ~rec.peer
    BY <1>t DEF ClientRec
  <2>2. cl' = [cl EXCEPT ![c] = rec] /\ UNCHANGED <<dead, sqlist, sqlist_seqno>>
    BY <1>4 DEF ClientLeaves
  <2> HIDE DEF rec
  <2>3. DeadExact'
    BY <1>0, <1>t, <2>1, <2>2 DEF DeadExact
  <2>4. /\ rec.state \in {"authed", "char_authed"} => rec.session \in Session
        /\ rec.state \in {"none", "gone"} => rec.charname = NULL /\ ~rec.peer
        /\ cl[c].state # "none" /\ rec.state # "gone" => Exists(c)
    BY <1>0, <2>1 DEF ClientsOK, Exists
  <2> QED
    BY <1>1, <1>2, <2>1, <2>2, <2>3, <2>4, ClientChanges
<1>5. CASE connlist_check_timeout(c) \/ conn_handle_read_fails(c)
  <2>1. Fails(c)
    BY <1>5 DEF connlist_check_timeout, conn_handle_read_fails
  <2>2. CASE Exists(c)
    BY <1>1, <1>2, <2>1, <2>2, FailsInv
  <2>3. CASE ~Exists(c)
    BY <1>0, <1>5, <2>3 DEF connlist_check_timeout, conn_handle_read_fails, ClientsOK
  <2> QED
    BY <2>2, <2>3
<1>6. CASE client_reap(c)
  <2> DEFINE rec == [NoClient EXCEPT !.state = "gone"]
  <2>1. rec \in ClientRec /\ rec.state = "gone" /\ rec.charname = NULL /\ ~rec.peer
    BY DEF NoClient, ClientRec, Maybe
  <2>2. /\ cl' = [cl EXCEPT ![c] = rec] /\ dead' = dead \ {c} /\ UNCHANGED <<sqlist, sqlist_seqno>>
    BY <1>6 DEF client_reap
  <2> HIDE DEF rec
  <2>3. DeadExact'
    BY <1>0, <1>t, <2>1, <2>2 DEF DeadExact
  <2> QED
    BY <1>1, <1>2, <2>1, <2>2, <2>3, ClientChanges
<1> QED
  BY <1>3, <1>4, <1>5, <1>6

-----------------------------------------------------------------------------
(* Requests                                                                *)

AtMost(s, n) == \A i \in DOMAIN s : Carries(s[i]) => s[i].seqno \in Nat /\ s[i].seqno <= n

\* A queue whose last packet has a greater number than all others.
LEMMA PushFits ==
  ASSUME NEW S, NEW s \in Seq(S), NEW m \in S, NEW n \in Nat, Carries(m), m.seqno = n + 1,
         Sorted(s), AtMost(s, n)
  PROVE  /\ Sorted(Append(s, m))
         /\ \A t : Before(t, s) /\ AtMost(t, n) => Before(t, Append(s, m))
         /\ \A k : Holds(Append(s, m), k) => Holds(s, k) \/ k = n + 1
<1> USE DEF AtMost
<1> DEFINE a == Append(s, m)
           k == Len(s)
<1>1. /\ k \in Nat /\ DOMAIN s = 1..k /\ DOMAIN a = 1..(k + 1)
      /\ \A i \in 1..k : a[i] = s[i]
      /\ a[k + 1] = m
  BY AppendFacts
<1> HIDE DEF a, k
<1>2. Sorted(a)
  <2> SUFFICES ASSUME NEW i \in DOMAIN a, NEW j \in DOMAIN a, i < j, Carries(a[i]), Carries(a[j])
               PROVE  a[i].seqno < a[j].seqno
    BY DEF Sorted
  <2>1. i \in 1..k /\ a[i] = s[i]
    BY <1>1
  <2>2. CASE j = k + 1
    BY <1>1, <2>1, <2>2
  <2>3. CASE j # k + 1
    BY <1>1, <2>1, <2>3 DEF Sorted
  <2> QED
    BY <2>2, <2>3
<1>3. ASSUME NEW t, Before(t, s), AtMost(t, n)
      PROVE  Before(t, a)
  <2> SUFFICES ASSUME NEW i \in DOMAIN t, NEW j \in DOMAIN a, Carries(t[i]), Carries(a[j])
               PROVE  t[i].seqno < a[j].seqno
    BY DEF Before
  <2>1. CASE j = k + 1
    BY <1>1, <1>3, <2>1
  <2>2. CASE j # k + 1
    BY <1>1, <1>3, <2>2 DEF Before
  <2> QED
    BY <2>1, <2>2
<1>4. \A i \in DOMAIN a : a[i] = m \/ (i \in DOMAIN s /\ a[i] = s[i])
  BY <1>1
<1>5. \A x : Holds(a, x) => Holds(s, x) \/ x = n + 1
  BY <1>4 DEF Holds
<1> QED
  BY <1>2, <1>3, <1>4, <1>5 DEF a

\* The request d2cs makes: a new number, and the packet behind all others.
LEMMA RequestInv ==
  ASSUME Inv, NEW c \in Client, Exists(c), NEW type \in {"login", "char"}, NEW arg,
         NEW session \in Session,
         arg \in IF type = "login" THEN Session ELSE Char,
         NEW request, request = IF type = "login" THEN "ACCOUNTLOGINREQ" ELSE "CHARLOGINREQ",
         sq_create(c, type, arg, request, session),
         NEW rec \in ClientRec, Becomes(c, rec),
         rec.state = cl[c].state, rec.charname = cl[c].charname, rec.session \in Session,
         rec.charinfo = IF type = "login" THEN cl[c].charinfo ELSE arg,
         UNCHANGED <<multilogin, meets, sess>>, chars' \subseteq Char
  PROVE  Inv'
<1> DEFINE n == sqlist_seqno
           q0 == [seqno |-> n + 1, client |-> c, type |-> type, arg |-> arg]
           m == [type |-> request, seqno |-> n + 1, session |-> session, arg |-> arg, client |-> c]
           b == bnetd_connection
<1>0. TypeOK /\ LinkInv /\ LinkTypeOK /\ PacketsOK /\ SqOK /\ InFlight /\ SummaryOK /\ ClientsOK /\ DeadExact
  BY DEF Inv, LinkInv, LoginInv
<1>1. /\ sqlist' = sqlist \union {q0} /\ sqlist_seqno' = n + 1 /\ n < bound.requests
      /\ toB' = toB \/ (b \in Links /\ toB' = Push(toB, b, m))
      /\ UNCHANGED <<bound, faults, bnetd_connection, dstate, bstate, tcp, toD, realm, crealm>>
      /\ Links' = Links
  BY <1>0 DEF sq_create, NextSeqno, LinkTypeOK, Links
<1>2. /\ m \in BPacket /\ Carries(m) /\ m.seqno = n + 1 /\ m.arg = arg /\ m.client = c /\ m.type = request
  <2>1. n \in Nat
    BY <1>0 DEF TypeOK
  <2> QED
    BY <2>1 DEF BPacket, RequestPacket, Carries
<1>3. /\ q0.seqno = n + 1 /\ q0.client = c /\ q0.type = type /\ q0.arg = arg /\ q0 \in Sq
  <2>1. n \in Nat
    BY <1>0 DEF TypeOK
  <2> QED
    BY <2>1 DEF Sq
<1>4. n \in Nat /\ bound.requests \in Nat
  BY <1>0, RealmLinkAssumption DEF TypeOK, LinkTypeOK
<1>5. /\ DeadExact' /\ cl' \in [Client -> ClientRec] /\ dead' \subseteq Client
      /\ cl'[c] = rec /\ \A d \in Client : d # c => cl'[d] = cl[d]
  <2>1. cl \in [Client -> ClientRec]
    BY <1>0 DEF TypeOK
  <2>2. DeadExact' /\ cl' \in [Client -> ClientRec] /\ dead' \subseteq Client /\ cl' = [cl EXCEPT ![c] = rec]
    BY <1>0, <2>1, BecomesDead
  <2> QED
    BY <2>1, <2>2
<1> HIDE DEF q0, m
<1>6. PacketsOK' /\ \A l \in Links : toB'[l] = toB[l] \/ (l = b /\ toB'[l] = Append(toB[l], m))
  <2>1. toB \in [Links -> Seq(BPacket)]
    BY <1>0 DEF PacketsOK
  <2>2. CASE toB' = toB
    BY <1>0, <1>1, <2>2 DEF PacketsOK
  <2>3. CASE b \in Links /\ toB' = Push(toB, b, m)
    <3>1. /\ toB' \in [Links -> Seq(BPacket)]
          /\ toB'[b] = Append(toB[b], m)
          /\ \A k \in Links : k # b => toB'[k] = toB[k]
      BY <1>2, <2>1, <2>3, PushQueue
    <3> QED
      BY <1>0, <1>1, <3>1 DEF PacketsOK
  <2> QED
    BY <1>1, <2>2, <2>3
<1>7. LinkInv'
  <2>1. LinkTypeOK'
    BY <1>0, <1>1, <1>6 DEF LinkTypeOK, PacketsOK
  <2>2. RealmLinked' /\ RealmOwned' /\ OneLinkInUse'
    BY <1>0, <1>1 DEF LinkInv, RealmLinked, RealmOwned, OneLinkInUse
  <2>3. UnopenedEmpty'
    BY <1>0, <1>1, <1>6 DEF LinkInv, UnopenedEmpty, OneLinkInUse
  <2> QED
    BY <1>6, <2>1, <2>2, <2>3 DEF LinkInv
<1>8. TypeOK'
  <2>1. LinkTypeOK' /\ sqlist' \subseteq Sq /\ sqlist_seqno' \in 0..bound'.requests
    BY <1>0, <1>1, <1>3, <1>4, <1>7 DEF LinkInv, TypeOK
  <2> QED
    BY <1>0, <1>5, <2>1 DEF TypeOK
<1>n. /\ \A q \in sqlist : q.seqno \in Nat /\ q.client \in Client
      /\ \A l \in Links : \A i \in DOMAIN toD[l] : Carries(toD[l][i]) => toD[l][i].seqno \in Nat
      /\ \A l \in Links : \A i \in DOMAIN toB[l] : Carries(toB[l][i]) => toB[l][i].seqno \in Nat
  BY <1>0, SeqnoTypes
<1>9. \A d \in Client : (Exists(d)' <=> Exists(d)) /\ cl'[d].state = cl[d].state
  BY <1>5 DEF Exists
<1>10. SqOK'
  <2>1. \A q \in sqlist : /\ q.seqno <= n + 1
                          /\ q.arg \in IF q.type = "login" THEN Session ELSE Char
                          /\ cl'[q.client].state # "none"
                          /\ Exists(q.client)' => cl'[q.client].session \in Session
    BY <1>0, <1>4, <1>5, <1>9, <1>n DEF SqOK
  <2>2. \A q \in sqlist : q.seqno # n + 1
    BY <1>0, <1>4, <1>n DEF SqOK
  <2>3. cl'[c].state # "none"
    BY <1>9 DEF Exists
  <2>4. \A p, q \in sqlist' : p.seqno = q.seqno => p = q
    BY <1>0, <1>1, <1>3, <2>2 DEF SqOK
  <2> QED
    BY <1>1, <1>3, <1>4, <1>5, <2>1, <2>3, <2>4 DEF SqOK
<1>11. ClientsOK'
  <2>1. rec.state \in {"none", "gone"} => FALSE
    BY DEF Exists
  <2> QED
    BY <1>0, <1>5, <1>9, <2>1 DEF ClientsOK, Exists
<1>12. InFlight'
  <2> SUFFICES ASSUME NEW l \in Links, dstate[l] # "closed"
               PROVE  /\ AllFit(toD[l])' /\ AllFit(toB[l])'
                      /\ Sorted(toD[l])' /\ Sorted(toB[l])' /\ Before(toD[l], toB[l])'
    BY <1>1 DEF InFlight
  <2>1. /\ AllFit(toD[l]) /\ AllFit(toB[l])
        /\ Sorted(toD[l]) /\ Sorted(toB[l]) /\ Before(toD[l], toB[l])
    BY <1>0 DEF InFlight
  <2>2. ASSUME NEW x, Carries(x), x.seqno \in Nat, x.seqno <= n,
               \A q \in sqlist : q.seqno = x.seqno => Fits(x, q)
        PROVE  /\ x.seqno <= sqlist_seqno'
               /\ \A q \in sqlist' : q.seqno = x.seqno => Fits(x, q)
    BY <1>1, <1>3, <1>4, <2>2
  <2>3. /\ m.seqno <= sqlist_seqno'
        /\ \A q \in sqlist' : q.seqno = m.seqno => Fits(m, q)
    <3>1. \A q \in sqlist : q.seqno # n + 1
      BY <1>0, <1>4, <1>n DEF SqOK
    <3>2. Fits(m, q0)
      BY <1>2, <1>3 DEF Fits
    <3> QED
      BY <1>1, <1>2, <1>3, <1>4, <3>1, <3>2
  <2>4. /\ \A i \in DOMAIN toD[l] : Carries(toD[l][i]) => toD[l][i].seqno \in Nat /\ toD[l][i].seqno <= n
        /\ \A i \in DOMAIN toB[l] : Carries(toB[l][i]) => toB[l][i].seqno \in Nat /\ toB[l][i].seqno <= n
    BY <1>n, <2>1 DEF AllFit
  <2>5. AllFit(toD[l])'
    <3>1. \A i \in DOMAIN toD[l] : Carries(toD[l][i]) =>
            /\ toD[l][i].seqno <= sqlist_seqno'
            /\ \A q \in sqlist' : q.seqno = toD[l][i].seqno => Fits(toD[l][i], q)
      BY <2>1, <2>2, <2>4 DEF AllFit
    <3> QED
      BY <1>1, <3>1 DEF AllFit, Fits
  <2>6. ASSUME NEW i \in DOMAIN toB[l], Carries(toB[l][i])
        PROVE  /\ toB[l][i].seqno <= sqlist_seqno'
               /\ \A q \in sqlist' : q.seqno = toB[l][i].seqno => Fits(toB[l][i], q)
    BY <2>1, <2>2, <2>4, <2>6 DEF AllFit
  <2>7. CASE toB'[l] = toB[l]
    <3>1. AllFit(toB[l])'
      BY <2>6, <2>7 DEF AllFit
    <3> QED
      BY <1>1, <2>1, <2>5, <2>7, <3>1 DEF Sorted, Before, Carries
  <2>8. CASE toB'[l] = Append(toB[l], m)
    <3>0. toB[l] \in Seq(BPacket)
      BY <1>0 DEF PacketsOK
    <3>1. Sorted(Append(toB[l], m)) /\ Before(toD[l], Append(toB[l], m))
      <4> HIDE DEF n
      <4>1. m \in BPacket /\ n \in Nat /\ Carries(m) /\ m.seqno = n + 1
        BY <1>2, <1>4
      <4>2. Sorted(toB[l]) /\ Before(toD[l], toB[l]) /\ AtMost(toB[l], n) /\ AtMost(toD[l], n)
        BY <2>1, <2>4 DEF AtMost
      <4> QED
        BY <3>0, <4>1, <4>2, PushFits
    <3>2. AllFit(toB[l])'
      <4> DEFINE a == Append(toB[l], m)
      <4>1. \A i \in DOMAIN a : a[i] = m \/ (i \in DOMAIN toB[l] /\ a[i] = toB[l][i])
        <5>1. \A i \in 1..(Len(toB[l]) + 1) : i \in 1..Len(toB[l]) \/ i = Len(toB[l]) + 1
          OBVIOUS
        <5> QED
          BY <1>2, <3>0, <5>1, AppendFacts
      <4>2. toB'[l] = a
        BY <2>8
      <4> HIDE DEF a
      <4> QED
        BY <2>3, <2>6, <4>1, <4>2 DEF AllFit
    <3> QED
      BY <1>1, <2>1, <2>5, <2>8, <3>1, <3>2 DEF Sorted, Before, Carries
  <2> QED
    BY <1>6, <2>7, <2>8
<1>13. SummaryOK'
  <2> SUFFICES ASSUME NEW q \in sqlist', q.type = "char", UnderWay(q)', Exists(q.client)', Latest(q)'
               PROVE  cl'[q.client].charinfo = q.arg
    BY DEF SummaryOK
  <2>1. CASE q = q0
    BY <1>3, <1>5, <2>1
  <2>2. CASE q # q0
    <3>1. q \in sqlist /\ q.seqno <= n
      BY <1>0, <1>1, <2>2 DEF SqOK
    <3>2. ~(q.client = c /\ type = "char")
      <4> SUFFICES ASSUME q.client = c, type = "char" PROVE FALSE
        OBVIOUS
      <4>1. q0.seqno <= q.seqno
        BY <1>1, <1>3 DEF Latest
      <4> QED
        BY <1>3, <1>4, <1>n, <3>1, <4>1
    <3>3. Latest(q)
      BY <1>1 DEF Latest
    <3>4. UnderWay(q)
      <4>1. PICK l \in Links : dstate[l] # "closed" /\ (Holds(toD[l], q.seqno) \/ Holds(toB'[l], q.seqno))
        BY <1>1 DEF UnderWay, Holds, Carries
      <4>2. CASE toB'[l] = toB[l] \/ Holds(toD[l], q.seqno)
        BY <4>1, <4>2 DEF UnderWay
      <4>3. CASE toB'[l] = Append(toB[l], m) /\ Holds(toB'[l], q.seqno)
        <5>0. toB[l] \in Seq(BPacket)
          BY <1>0 DEF PacketsOK
        <5>1. AllFit(toB[l]) /\ Sorted(toB[l])
          BY <1>0, <4>1 DEF InFlight
        <5>2. \A i \in DOMAIN toB[l] : Carries(toB[l][i]) => toB[l][i].seqno \in Nat /\ toB[l][i].seqno <= n
          BY <1>n, <5>1 DEF AllFit
        <5>3. Holds(toB[l], q.seqno) \/ q.seqno = n + 1
          <6> HIDE DEF n
          <6>1. m \in BPacket /\ n \in Nat /\ Carries(m) /\ m.seqno = n + 1
            BY <1>2, <1>4
          <6>2. Sorted(toB[l]) /\ Holds(Append(toB[l], m), q.seqno)
            BY <4>3, <5>1
          <6>3. AtMost(toB[l], n)
            BY <5>2 DEF AtMost
          <6> QED
            BY <5>0, <6>1, <6>2, <6>3, PushFits
        <5>4. q.seqno # n + 1
          BY <1>4, <1>n, <3>1
        <5> QED
          BY <4>1, <5>3, <5>4 DEF UnderWay
      <4> QED
        BY <1>6, <4>1, <4>2, <4>3
    <3>5. cl'[q.client].charinfo = cl[q.client].charinfo /\ Exists(q.client)
      BY <1>5, <1>9, <1>n, <3>1, <3>2
    <3> QED
      BY <1>0, <3>1, <3>3, <3>4, <3>5 DEF SummaryOK
  <2> QED
    BY <2>1, <2>2
<1> QED
  BY <1>5, <1>7, <1>8, <1>10, <1>11, <1>12, <1>13 DEF Inv, LoginInv

\* The handlers of clients' requests.
LEMMA ClientRequestInv ==
  ASSUME Inv, NEW c \in Client, ClientRequest(c)
  PROVE  Inv'
<1>0. TypeOK /\ LinkInv /\ ClientsOK /\ DeadExact
  BY DEF Inv, LoginInv
<1>t. cl[c] \in ClientRec /\ cl \in [Client -> ClientRec] /\ chars \subseteq Char
  BY <1>0 DEF TypeOK
<1>f. ASSUME Fails(c), Exists(c), UNCHANGED <<linkVars, multilogin, meets, sess>>, chars' = chars
      PROVE  Inv'
  <2>1. UNCHANGED netVars /\ UNCHANGED <<bound, faults>>
    BY <1>f DEF linkVars
  <2>2. LinkInv' /\ NetEffect /\ Links' = Links /\ bound' = bound
    BY <1>0, <2>1, SameNet
  <2> QED
    BY <1>t, <1>f, <2>2, FailsInv
<1>1. ASSUME NEW s \in Session, on_client_loginreq(c, s)
      PROVE  Inv'
  <2>0. Exists(c) /\ UNCHANGED <<multilogin, meets, chars, sess>>
    BY <1>1 DEF on_client_loginreq, Packet, Exists
  <2>1. CASE Fails(c) /\ UNCHANGED linkVars
    BY <1>f, <2>0, <2>1
  <2> DEFINE rec == [cl[c] EXCEPT !.session = s]
  <2>2. CASE Becomes(c, rec) /\ sq_create(c, "login", s, "ACCOUNTLOGINREQ", s)
    <3>1. /\ rec \in ClientRec /\ rec.state = cl[c].state /\ rec.charname = cl[c].charname
          /\ rec.session = s /\ rec.charinfo = cl[c].charinfo
      BY <1>t DEF ClientRec, Maybe
    <3>2. Becomes(c, rec) /\ sq_create(c, "login", s, "ACCOUNTLOGINREQ", s)
      BY <2>2
    <3> HIDE DEF rec
    <3> QED
      BY <1>t, <2>0, <3>1, <3>2, RequestInv
  <2> QED
    BY <1>1, <2>1, <2>2 DEF on_client_loginreq
<1>2. ASSUME NEW x \in Char, conn_set_charinfo(c, x), sq_create(c, "char", x, "CHARLOGINREQ", cl[c].session),
             Packet(c, {"authed", "char_authed"}), UNCHANGED <<multilogin, meets, sess>>, chars' \subseteq Char
      PROVE  Inv'
  <2> DEFINE rec == [cl[c] EXCEPT !.charinfo = x]
  <2>1. Becomes(c, rec)
    BY <1>2 DEF conn_set_charinfo
  <2>2. /\ rec \in ClientRec /\ rec.state = cl[c].state /\ rec.charname = cl[c].charname
        /\ rec.session = cl[c].session /\ rec.charinfo = x
    BY <1>t DEF ClientRec, Maybe
  <2>3. Exists(c) /\ cl[c].session \in Session
    BY <1>0, <1>2 DEF Packet, Exists, ClientsOK
  <2> HIDE DEF rec
  <2> QED
    BY <1>2, <2>1, <2>2, <2>3, RequestInv
<1>3. ASSUME NEW x \in Char, on_client_charloginreq(c, x)
      PROVE  Inv'
  <2>0. Packet(c, {"authed", "char_authed"}) /\ UNCHANGED <<multilogin, meets, chars, sess>> /\ Exists(c)
    BY <1>3 DEF on_client_charloginreq, Packet, Exists
  <2>1. CASE Fails(c) /\ UNCHANGED linkVars
    BY <1>f, <2>0, <2>1
  <2>2. CASE conn_set_charinfo(c, x) /\ sq_create(c, "char", x, "CHARLOGINREQ", cl[c].session)
    BY <1>t, <1>2, <2>0, <2>2
  <2> QED
    BY <1>3, <2>1, <2>2 DEF on_client_charloginreq
<1>4. ASSUME NEW x \in Char, on_client_createcharreq(c, x)
      PROVE  Inv'
  BY <1>t, <1>2, <1>4 DEF on_client_createcharreq
<1>5. ASSUME NEW x \in Char, on_client_deletecharreq(c, x)
      PROVE  Inv'
  <2>0. Exists(c) /\ UNCHANGED <<linkVars, multilogin, meets, sess>> /\ cl[c].state \in {"authed", "char_authed"}
    BY <1>5 DEF on_client_deletecharreq, Packet, Exists
  <2>1. CASE Fails(c) /\ UNCHANGED chars
    BY <1>f, <2>0, <2>1
  <2>2. CASE /\ Becomes(c, [cl[c] EXCEPT !.charname = NULL])
             /\ chars' = chars \ {x} /\ UNCHANGED <<sqlist, sqlist_seqno>>
    <3> DEFINE rec == [cl[c] EXCEPT !.charname = NULL]
    <3>1. /\ rec \in ClientRec /\ rec.state = cl[c].state /\ rec.session = cl[c].session
          /\ rec.charinfo = cl[c].charinfo /\ rec.charname = NULL
      BY <1>t DEF ClientRec, Maybe
    <3>2. Becomes(c, rec)
      BY <2>2
    <3> HIDE DEF rec
    <3>3. DeadExact' /\ cl' = [cl EXCEPT ![c] = rec]
      BY <1>0, <1>t, <3>1, <3>2, BecomesDead
    <3>4. LinkInv' /\ NetEffect /\ Links' = Links /\ bound' = bound
      BY <1>0, <2>0, SameNet DEF linkVars
    <3>5. rec.session \in Session
      BY <1>0, <2>0, <3>1 DEF ClientsOK
    <3> QED
      BY <1>t, <2>0, <2>2, <3>1, <3>3, <3>4, <3>5, ClientChanges
  <2> QED
    BY <1>5, <2>1, <2>2 DEF on_client_deletecharreq
<1> QED
  BY <1>1, <1>3, <1>4, <1>5 DEF ClientRequest

-----------------------------------------------------------------------------
(* Answers                                                                 *)

\* d2cs takes the first packet off a link.
LEMMA AnswerLink ==
  ASSUME LinkInv, NEW l \in Links, NEW type, Answer(l, type)
  PROVE  LinkInv' /\ NetEffect /\ Links' = Links /\ bound' = bound /\ toD'[l] = Tail(toD[l]) /\ UNCHANGED toB
<1>0. LinkTypeOK /\ PacketsOK
  BY DEF LinkInv
<1>1. /\ UNCHANGED <<bound, faults, bnetd_connection, dstate, bstate, tcp, toB, realm, crealm>>
      /\ toD' = Pop(toD, l) /\ toD[l] # <<>> /\ Links' = Links
  BY DEF Answer, Arrived, Links
<1>2. /\ toD' \in [Links -> Seq(DPacket)]
      /\ \A k \in Links : Sub(toD[k], toD'[k])
      /\ \A k \in Links : k # l => toD'[k] = toD[k]
      /\ toD'[l] = Tail(toD[l])
  <2>1. toD \in [Links -> Seq(DPacket)]
    BY <1>0 DEF PacketsOK
  <2>2. toD'[l] = Tail(toD[l])
    BY <1>1, <2>1 DEF Pop
  <2>3. /\ toD' \in [Links -> Seq(DPacket)]
        /\ \A k \in Links : Sub(toD[k], toD'[k])
        /\ \A k \in Links : k # l => toD'[k] = toD[k]
    BY <1>1, <2>1, PopQueue
  <2> QED
    BY <2>2, <2>3
<1>3. PacketsOK' /\ NetEffect
  BY <1>0, <1>1, <1>2, SubSame DEF PacketsOK, NetEffect
<1>4. LinkTypeOK'
  BY <1>0, <1>1, <1>2 DEF LinkTypeOK
<1>5. UnopenedEmpty' /\ OneLinkInUse' /\ RealmLinked' /\ RealmOwned'
  BY <1>1, <1>2 DEF LinkInv, UnopenedEmpty, OneLinkInUse, RealmLinked, RealmOwned
<1> QED
  BY <1>1, <1>2, <1>3, <1>4, <1>5 DEF LinkInv

\* The request an answer belongs to: the answer fits it, and every other
\* request under way is a later one.
LEMMA AnsweredRequest ==
  ASSUME Inv, NEW l \in Links, toD[l] # <<>>, Carries(Head(toD[l])), NEW q \in Request(l)
  PROVE  /\ q \in sqlist /\ Request(l) = {q} /\ Fits(Head(toD[l]), q)
         /\ toD' = Pop(toD, l) /\ UNCHANGED <<toB, dstate>> =>
              \A p \in sqlist : UnderWay(p)' => q.seqno <= p.seqno
<1>0. TypeOK /\ PacketsOK /\ LinkInv /\ SqOK /\ InFlight
  BY DEF Inv, LinkInv, LoginInv
<1>1. q \in sqlist /\ dstate[l] = "authed" /\ q.seqno = Head(toD[l]).seqno
  BY DEF Request
<1>2. Request(l) = {q}
  BY <1>0, <1>1 DEF Request, SqOK
<1>3. toD[l] \in Seq(DPacket) /\ toD \in [Links -> Seq(DPacket)]
  BY <1>0 DEF PacketsOK
<1>4. /\ 1 \in DOMAIN toD[l] /\ Head(toD[l]) = toD[l][1]
      /\ DOMAIN Tail(toD[l]) \subseteq Nat \ {0}
      /\ \A i \in DOMAIN Tail(toD[l]) : i + 1 \in DOMAIN toD[l] /\ Tail(toD[l])[i] = toD[l][i + 1]
  BY <1>3, TailFacts
<1>5. /\ AllFit(toD[l]) /\ Sorted(toD[l]) /\ Before(toD[l], toB[l])
  BY <1>0, <1>1 DEF InFlight
<1>6. Fits(Head(toD[l]), q)
  BY <1>1, <1>4, <1>5 DEF AllFit
<1>7. ASSUME toD' = Pop(toD, l), UNCHANGED <<toB, dstate>>, NEW p \in sqlist, UnderWay(p)'
      PROVE  q.seqno <= p.seqno
  <2>1. PICK k \in Links : dstate[k] # "closed" /\ (Holds(toD'[k], p.seqno) \/ Holds(toB[k], p.seqno))
    BY <1>7 DEF UnderWay, Holds, Carries, Links
  <2>2. k = l
    <3>1. toD'[k] = toD[k] \/ k = l
      BY <1>3, <1>7, PopQueue
    <3>2. dstate[k] = "none" /\ k # l => FALSE
      <4> SUFFICES ASSUME dstate[k] = "none", k # l PROVE FALSE
        OBVIOUS
      <4>1. toD[k] = <<>> /\ toB[k] = <<>>
        BY <1>0 DEF LinkInv, UnopenedEmpty
      <4> QED
        BY <2>1, <3>1, <4>1 DEF Holds
    <3>3. bnetd_connection = l /\ (dstate[k] # "none" => bnetd_connection = k)
      BY <1>0, <1>1, <2>1 DEF LinkInv, OneLinkInUse
    <3> QED
      BY <3>2, <3>3
  <2>3. q.seqno \in Nat /\ p.seqno \in Nat
    BY <1>0, <1>1, SeqnoTypes
  <2>4. CASE Holds(toD'[l], p.seqno)
    <3>1. toD'[l] = Tail(toD[l])
      BY <1>3, <1>7 DEF Pop
    <3>2. PICK i \in DOMAIN Tail(toD[l]) : Carries(Tail(toD[l])[i]) /\ Tail(toD[l])[i].seqno = p.seqno
      BY <2>4, <3>1 DEF Holds
    <3>3. i + 1 \in DOMAIN toD[l] /\ 1 < i + 1 /\ Carries(toD[l][i + 1]) /\ toD[l][i + 1].seqno = p.seqno
      BY <1>4, <3>2
    <3>4. q.seqno < p.seqno
      BY <1>1, <1>4, <1>5, <3>3 DEF Sorted
    <3> QED
      BY <2>3, <3>4
  <2>5. CASE Holds(toB[l], p.seqno)
    <3>1. q.seqno < p.seqno
      BY <1>1, <1>4, <1>5, <2>5 DEF Before, Holds
    <3> QED
      BY <2>3, <3>1
  <2> QED
    BY <2>1, <2>2, <2>4, <2>5
<1> QED
  BY <1>1, <1>2, <1>6, <1>7

\* An answer that finds no request, no client, or is refused.
LEMMA UnansweredInv ==
  ASSUME Inv, NEW l \in Links, NEW type \in {"ACCOUNTLOGINREPLY", "CHARLOGINREPLY"}, Answer(l, type),
         sqlist' = sqlist \ Request(l), Unanswered,
         UNCHANGED <<multilogin, meets, chars, sqlist_seqno, sess>>
  PROVE  Inv'
<1>0. TypeOK /\ LinkInv /\ PacketsOK /\ SqOK /\ InFlight /\ SummaryOK
  BY DEF Inv, LinkInv, LoginInv
<1>1. LinkInv' /\ NetEffect /\ Links' = Links /\ bound' = bound
  BY <1>0, AnswerLink
<1>2. toD[l] # <<>> /\ Carries(Head(toD[l])) /\ toD' = Pop(toD, l) /\ UNCHANGED <<toB, dstate>>
  BY DEF Answer, Arrived, Carries
<1>3. UNCHANGED <<cl, dead>>
  BY DEF Unanswered
<1>4. \A p \in sqlist', q \in sqlist \ sqlist' : UnderWay(p)' => q.seqno <= p.seqno
  BY <1>2, AnsweredRequest
<1>5. SqOK' /\ InFlight' /\ SummaryOK'
  BY <1>0, <1>1, <1>3, <1>4, ShrinkStep DEF Exists
<1>6. ClientsOK' /\ DeadExact'
  BY <1>3 DEF Inv, LoginInv, ClientsOK, DeadExact, Exists
<1>7. TypeOK'
  BY <1>0, <1>1, <1>3 DEF TypeOK, LinkInv
<1> QED
  BY <1>1, <1>5, <1>6, <1>7 DEF Inv, LoginInv

\* An answer that logs its client in.
LEMMA AnsweredInv ==
  ASSUME Inv, NEW l \in Links, NEW type \in {"ACCOUNTLOGINREPLY", "CHARLOGINREPLY"}, Answer(l, type),
         sqlist' = sqlist \ Request(l), NEW q \in Request(l), Exists(q.client),
         NEW rec \in ClientRec, Becomes(q.client, rec),
         rec.state \in {"authed", "char_authed"},
         rec.session = cl[q.client].session, rec.charinfo = cl[q.client].charinfo,
         UNCHANGED <<multilogin, meets, chars, sqlist_seqno, sess>>
  PROVE  Inv'
<1>0. TypeOK /\ LinkInv /\ PacketsOK /\ SqOK /\ InFlight /\ SummaryOK /\ ClientsOK /\ DeadExact
  BY DEF Inv, LinkInv, LoginInv
<1>1. LinkInv' /\ NetEffect /\ Links' = Links /\ bound' = bound
  BY <1>0, AnswerLink
<1>2. toD[l] # <<>> /\ Carries(Head(toD[l])) /\ toD' = Pop(toD, l) /\ UNCHANGED <<toB, dstate>>
  BY DEF Answer, Arrived, Carries
<1>3. q \in sqlist /\ q.client \in Client /\ cl[q.client].session \in Session
  BY <1>0, <1>2, AnsweredRequest, SeqnoTypes DEF SqOK
<1>4. /\ DeadExact' /\ cl' \in [Client -> ClientRec] /\ dead' \subseteq Client
      /\ cl'[q.client] = rec /\ \A d \in Client : d # q.client => cl'[d] = cl[d]
  <2>1. cl \in [Client -> ClientRec]
    BY <1>0 DEF TypeOK
  <2>2. DeadExact' /\ cl' \in [Client -> ClientRec] /\ dead' \subseteq Client /\ cl' = [cl EXCEPT ![q.client] = rec]
    BY <1>0, <1>3, <2>1, BecomesDead
  <2> QED
    BY <1>3, <2>1, <2>2
<1>5. \A p \in sqlist', r \in sqlist \ sqlist' : UnderWay(p)' => r.seqno <= p.seqno
  BY <1>2, AnsweredRequest
<1>6. \A c \in Client : cl[c].state # "none" =>
           /\ cl'[c].state # "none"
           /\ Exists(c)' => /\ Exists(c)
                            /\ cl'[c].session = cl[c].session
                            /\ cl'[c].charinfo = cl[c].charinfo
  BY <1>4 DEF Exists
<1>7. SqOK' /\ InFlight' /\ SummaryOK'
  BY <1>0, <1>1, <1>5, <1>6, ShrinkStep
<1>8. ClientsOK'
  BY <1>0, <1>3, <1>4 DEF ClientsOK, Exists
<1>9. TypeOK'
  BY <1>0, <1>1, <1>4 DEF TypeOK, LinkInv
<1> QED
  BY <1>1, <1>4, <1>7, <1>8, <1>9 DEF Inv, LoginInv

\* on_bnetd_accountloginreply.
LEMMA AccountReplyInv ==
  ASSUME Inv, NEW l \in Links, on_bnetd_accountloginreply(l)
  PROVE  Inv'
<1>0. TypeOK /\ SqOK
  BY DEF Inv, LoginInv
<1>1. /\ Answer(l, "ACCOUNTLOGINREPLY") /\ sqlist' = sqlist \ Request(l)
      /\ UNCHANGED <<multilogin, meets, chars, sqlist_seqno, sess>>
  BY DEF on_bnetd_accountloginreply
<1>2. CASE Unanswered
  BY <1>1, <1>2, UnansweredInv
<1>3. ASSUME NEW q \in Request(l), Exists(q.client),
             Becomes(q.client, [cl[q.client] EXCEPT !.account = q.arg, !.state = "authed"])
      PROVE  Inv'
  <2>1. toD[l] # <<>> /\ Carries(Head(toD[l])) /\ Head(toD[l]).type = "ACCOUNTLOGINREPLY"
    BY <1>1 DEF Answer, Arrived, Carries
  <2>2. q \in sqlist /\ Fits(Head(toD[l]), q)
    BY <2>1, AnsweredRequest
  <2>3. q.client \in Client /\ q.arg \in Session
    BY <1>0, <2>1, <2>2 DEF TypeOK, Sq, SqOK, Fits
  <2>4. cl[q.client] \in ClientRec /\ cl \in [Client -> ClientRec]
    BY <1>0, <2>3 DEF TypeOK
  <2> DEFINE rec == [cl[q.client] EXCEPT !.account = q.arg, !.state = "authed"]
  <2>5. /\ rec \in ClientRec /\ rec.state = "authed" /\ rec.session = cl[q.client].session
        /\ rec.charinfo = cl[q.client].charinfo /\ rec.charname = cl[q.client].charname
    BY <2>3, <2>4 DEF ClientRec, Maybe
  <2>6. Becomes(q.client, rec)
    BY <1>3
  <2> HIDE DEF rec
  <2> QED
    BY <1>1, <1>3, <2>5, <2>6, AnsweredInv
<1> QED
  BY <1>2, <1>3 DEF on_bnetd_accountloginreply

\* What on_bnetd_charloginreply does to the client of a request it accepts.
CharAccepted(l, q) ==
  /\ Exists(q.client) /\ conn_check_multilogin(q.client, q.arg)
  /\ Becomes(q.client, [cl[q.client] EXCEPT !.charname = q.arg, !.state = "char_authed"])

\* The request is one for a character, and the client's record changes in the
\* character and the state only.
LEMMA CharRecord ==
  ASSUME Inv, NEW l \in Links, Answer(l, "CHARLOGINREPLY"), NEW q \in Request(l), CharAccepted(l, q)
  PROVE  /\ q \in sqlist /\ Request(l) = {q} /\ q.client \in Client /\ q.arg \in Char /\ q.type = "char"
         /\ \E rec \in ClientRec :
              /\ Becomes(q.client, rec) /\ rec.state = "char_authed" /\ rec.charname = q.arg
              /\ rec.session = cl[q.client].session /\ rec.charinfo = cl[q.client].charinfo
<1>0. TypeOK /\ SqOK
  BY DEF Inv, LoginInv
<1>1. toD[l] # <<>> /\ Carries(Head(toD[l])) /\ Head(toD[l]).type = "CHARLOGINREPLY"
  BY DEF Answer, Arrived, Carries
<1>2. q \in sqlist /\ Fits(Head(toD[l]), q) /\ Request(l) = {q}
  BY <1>1, AnsweredRequest
<1>3. q.client \in Client /\ q.type = "char" /\ q.arg \in Char
  BY <1>0, <1>1, <1>2 DEF TypeOK, Sq, SqOK, Fits
<1>4. cl[q.client] \in ClientRec
  BY <1>0, <1>3 DEF TypeOK
<1> DEFINE rec == [cl[q.client] EXCEPT !.charname = q.arg, !.state = "char_authed"]
<1>5. /\ rec \in ClientRec /\ rec.state = "char_authed" /\ rec.charname = q.arg
      /\ rec.session = cl[q.client].session /\ rec.charinfo = cl[q.client].charinfo
  BY <1>3, <1>4 DEF ClientRec, Maybe
<1>6. Becomes(q.client, rec)
  BY DEF CharAccepted
<1> QED
  BY <1>2, <1>3, <1>5, <1>6

\* on_bnetd_charloginreply.
LEMMA CharReplyInv ==
  ASSUME Inv, NEW l \in Links, on_bnetd_charloginreply(l)
  PROVE  Inv'
<1>0. TypeOK /\ SqOK /\ ClientsOK
  BY DEF Inv, LoginInv
<1>1. /\ Answer(l, "CHARLOGINREPLY") /\ sqlist' = sqlist \ Request(l)
      /\ UNCHANGED <<multilogin, meets, chars, sqlist_seqno, sess>>
  BY DEF on_bnetd_charloginreply
<1>2. CASE Unanswered
  BY <1>1, <1>2, UnansweredInv
<1>3. ASSUME NEW q \in Request(l), CharAccepted(l, q)
      PROVE  Inv'
  <2>1. q.client \in Client /\ q.arg \in Char
    BY <1>1, <1>3, CharRecord
  <2>2. PICK rec \in ClientRec :
          /\ Becomes(q.client, rec) /\ rec.state = "char_authed" /\ rec.charname = q.arg
          /\ rec.session = cl[q.client].session /\ rec.charinfo = cl[q.client].charinfo
    BY <1>1, <1>3, CharRecord
  <2> QED
    BY <1>1, <1>3, <2>2, AnsweredInv DEF CharAccepted
<1> QED
  BY <1>2, <1>3 DEF on_bnetd_charloginreply, CharAccepted

-----------------------------------------------------------------------------
(* bnetd's part                                                            *)

\* A request is replaced by its reply: it leaves the head of t and the reply
\* goes to the end of s.
LEMMA MovePacket ==
  ASSUME NEW S, NEW T, NEW s \in Seq(S), NEW t \in Seq(T), t # <<>>, NEW r \in S,
         Carries(r), Carries(Head(t)), r.seqno = Head(t).seqno,
         Sorted(s), Sorted(t), Before(s, t)
  PROVE  /\ Sorted(Append(s, r)) /\ Before(Append(s, r), Tail(t))
         /\ \A k : Holds(Append(s, r), k) => Holds(s, k) \/ Holds(t, k)
<1> DEFINE a == Append(s, r)
           b == Tail(t)
           n == Len(s)
           h == Head(t)
<1>1. /\ n \in Nat /\ DOMAIN s = 1..n /\ DOMAIN a = 1..(n + 1)
      /\ \A i \in 1..n : a[i] = s[i]
      /\ a[n + 1] = r
  BY AppendFacts
<1>2. /\ DOMAIN b \subseteq Nat \ {0}
      /\ \A i \in DOMAIN b : i + 1 \in DOMAIN t /\ b[i] = t[i + 1]
      /\ 1 \in DOMAIN t /\ h = t[1]
  BY TailFacts
<1>3. Carries(h) /\ r.seqno = h.seqno
  OBVIOUS
<1> HIDE DEF a, b, n, h
<1>4. \A i \in 1..n : Carries(s[i]) => s[i].seqno < r.seqno
  BY <1>1, <1>2, <1>3 DEF Before
<1>5. Sorted(a)
  <2> SUFFICES ASSUME NEW i \in DOMAIN a, NEW j \in DOMAIN a, i < j, Carries(a[i]), Carries(a[j])
               PROVE  a[i].seqno < a[j].seqno
    BY DEF Sorted
  <2>1. i \in 1..n /\ a[i] = s[i]
    BY <1>1
  <2>2. CASE j = n + 1
    BY <1>1, <1>4, <2>1, <2>2
  <2>3. CASE j # n + 1
    BY <1>1, <2>1, <2>3 DEF Sorted
  <2> QED
    BY <2>2, <2>3
<1>6. Before(a, b)
  <2> SUFFICES ASSUME NEW i \in DOMAIN a, NEW j \in DOMAIN b, Carries(a[i]), Carries(b[j])
               PROVE  a[i].seqno < b[j].seqno
    BY DEF Before
  <2>1. j + 1 \in DOMAIN t /\ b[j] = t[j + 1] /\ 1 < j + 1
    BY <1>2
  <2>2. CASE i = n + 1
    <3>1. h.seqno < b[j].seqno
      BY <1>2, <1>3, <2>1 DEF Sorted
    <3> QED
      BY <1>1, <1>3, <2>2, <3>1
  <2>3. CASE i # n + 1
    BY <1>1, <2>1, <2>3 DEF Before
  <2> QED
    BY <2>2, <2>3
<1>7. \A i \in DOMAIN a : a[i] = r \/ (i \in DOMAIN s /\ a[i] = s[i])
  BY <1>1
<1>8. \A k : Holds(a, k) => Holds(s, k) \/ Holds(t, k)
  BY <1>2, <1>3, <1>7 DEF Holds
<1> QED
  BY <1>5, <1>6, <1>8 DEF a, b

\* bnetd takes a request off a link and may answer it.
LEMMA ReplyInv ==
  ASSUME Inv, NEW l \in Links, NEW type \in {"ACCOUNTLOGINREQ", "CHARLOGINREQ"}, Asked(l, type),
         NEW ok \in BOOLEAN, NEW answer,
         answer = IF type = "ACCOUNTLOGINREQ" THEN "ACCOUNTLOGINREPLY" ELSE "CHARLOGINREPLY",
         Reply(l, answer, ok),
         UNCHANGED <<multilogin, meets, cl, dead, chars, sqlist, sqlist_seqno>>,
         sess' \in [Session -> [up : BOOLEAN, realm : BOOLEAN, charname : Maybe(Char)]]
  PROVE  Inv'
<1> DEFINE h == Head(toB[l])
           r == [type |-> answer, seqno |-> h.seqno, ok |-> ok, arg |-> h.arg, client |-> h.client]
<1>0. /\ TypeOK /\ LinkInv /\ LinkTypeOK /\ PacketsOK /\ UnopenedEmpty /\ OneLinkInUse
      /\ SqOK /\ InFlight /\ SummaryOK /\ ClientsOK /\ DeadExact
  BY DEF Inv, LinkInv, LoginInv
<1>1. /\ toB[l] # <<>> /\ h.type = type /\ toB' = Pop(toB, l)
      /\ UNCHANGED <<bound, faults, bnetd_connection, dstate, bstate, tcp, realm, crealm>> /\ Links' = Links
      /\ toD' = toD \/ toD' = Push(toD, l, r)
  BY DEF Asked, Arrived, Links, Reply
<1>2. toB \in [Links -> Seq(BPacket)] /\ toD \in [Links -> Seq(DPacket)]
  BY <1>0 DEF PacketsOK
<1>3. /\ toB[l] \in Seq(BPacket) /\ toD[l] \in Seq(DPacket)
  BY <1>2
<1>4. h \in BPacket /\ 1 \in DOMAIN toB[l] /\ h = toB[l][1]
  BY <1>1, <1>3, TailFacts
<1>5. /\ Carries(h) /\ h.seqno \in Nat /\ h.client \in Client
      /\ h.arg \in IF type = "ACCOUNTLOGINREQ" THEN Session ELSE Char
  BY <1>1, <1>4 DEF BPacket, Handshake, RequestPacket, Carries
<1>6. /\ r \in DPacket /\ Carries(r) /\ r.seqno = h.seqno /\ r.arg = h.arg /\ r.client = h.client
      /\ r.type = answer
  BY <1>5 DEF DPacket, ReplyPacket, Carries
<1> HIDE DEF r, h
<1>7. /\ toB' \in [Links -> Seq(BPacket)] /\ toB'[l] = Tail(toB[l])
      /\ \A k \in Links : k # l => toB'[k] = toB[k]
      /\ Sub(toB[l], toB'[l])
  <2>1. toB'[l] = Tail(toB[l])
    BY <1>1, <1>2 DEF Pop
  <2>0. toB \in [Links -> Seq(BPacket)]
    BY <1>2
  <2>2. /\ toB' \in [Links -> Seq(BPacket)]
        /\ \A k \in Links : Sub(toB[k], toB'[k])
        /\ \A k \in Links : k # l => toB'[k] = toB[k]
    BY <1>1, <2>0, PopQueue
  <2> QED
    BY <2>1, <2>2
<1>8. /\ toD'[l] = toD[l] \/ toD'[l] = Append(toD[l], r)
      /\ \A k \in Links : k # l => toD'[k] = toD[k]
      /\ toD' \in [Links -> Seq(DPacket)]
  <2>1. CASE toD' = toD
    BY <1>2, <2>1
  <2>2. CASE toD' = Push(toD, l, r)
    <3>0. toD \in [Links -> Seq(DPacket)] /\ r \in DPacket
      BY <1>2, <1>6
    <3>1. /\ toD' \in [Links -> Seq(DPacket)]
          /\ toD'[l] = Append(toD[l], r)
          /\ \A k \in Links : k # l => toD'[k] = toD[k]
      BY <2>2, <3>0, PushQueue
    <3> QED
      BY <3>1
  <2> QED
    BY <1>1, <2>1, <2>2
<1>9. toD' \in [Links -> Seq(DPacket)]
  BY <1>8
<1>10. LinkInv'
  <2>1. LinkTypeOK'
    BY <1>0, <1>1, <1>7, <1>9 DEF LinkTypeOK
  <2>2. RealmLinked' /\ RealmOwned' /\ OneLinkInUse'
    BY <1>0, <1>1 DEF LinkInv, RealmLinked, RealmOwned, OneLinkInUse
  <2>3. UnopenedEmpty' /\ PacketsOK'
    BY <1>0, <1>1, <1>7, <1>8, <1>9 DEF UnopenedEmpty, PacketsOK
  <2> QED
    BY <2>1, <2>2, <2>3 DEF LinkInv
<1>11. ASSUME NEW k \in Links, dstate[k] # "closed"
       PROVE  /\ AllFit(toD'[k]) /\ AllFit(toB'[k])
              /\ Sorted(toD'[k]) /\ Sorted(toB'[k]) /\ Before(toD'[k], toB'[k])
              /\ \A n : Holds(toD'[k], n) \/ Holds(toB'[k], n) => Holds(toD[k], n) \/ Holds(toB[k], n)
  <2>1. /\ AllFit(toD[k]) /\ AllFit(toB[k])
        /\ Sorted(toD[k]) /\ Sorted(toB[k]) /\ Before(toD[k], toB[k])
    BY <1>0, <1>11 DEF InFlight
  <2>2. CASE k # l
    BY <1>7, <1>8, <2>1, <2>2
  <2>3. CASE k = l
    <3>1. Sorted(toB'[l]) /\ AllFit(toB'[l]) /\ Before(toD[l], toB'[l]) /\ \A n : Holds(toB'[l], n) => Holds(toB[l], n)
      <4>1. AllFit(toB'[l])
        <5> DEFINE old == toB[l]
                   new == toB'[l]
        <5>1. Sub(old, new) /\ AllFit(old)
          BY <1>7, <2>1, <2>3
        <5> HIDE DEF old, new
        <5>2. AllFit(new)
          BY <5>1 DEF AllFit, Sub
        <5> QED
          BY <5>2 DEF new
      <4> QED
        BY <1>7, <2>1, <2>3, <4>1, SubKeeps
    <3>2. CASE toD'[l] = toD[l]
      BY <2>1, <2>3, <3>1, <3>2
    <3>3. CASE toD'[l] = Append(toD[l], r)
      <4>1. Carries(Head(toB[l])) /\ r.seqno = Head(toB[l]).seqno
        BY <1>5, <1>6 DEF h
      <4>2. /\ Sorted(Append(toD[l], r)) /\ Before(Append(toD[l], r), Tail(toB[l]))
            /\ \A n : Holds(Append(toD[l], r), n) => Holds(toD[l], n) \/ Holds(toB[l], n)
        BY <1>1, <1>3, <1>6, <2>1, <2>3, <4>1, MovePacket
      <4>3. /\ r.seqno <= sqlist_seqno
            /\ \A q \in sqlist : q.seqno = r.seqno => Fits(r, q)
        <5>1. /\ h.seqno <= sqlist_seqno
              /\ \A q \in sqlist : q.seqno = h.seqno => Fits(h, q)
          BY <1>4, <1>5, <2>1, <2>3 DEF AllFit
        <5> QED
          BY <1>1, <1>6, <5>1 DEF Fits
      <4>4. AllFit(toD'[l])
        <5>1. \A i \in DOMAIN toD'[l] : toD'[l][i] = r \/ (i \in DOMAIN toD[l] /\ toD'[l][i] = toD[l][i])
          BY <1>3, <1>6, <3>3, AppendFacts
        <5> QED
          BY <2>1, <2>3, <4>3, <5>1 DEF AllFit
      <4> QED
        BY <1>7, <2>3, <3>1, <3>3, <4>2, <4>4
    <3> QED
      BY <1>8, <3>2, <3>3
  <2> QED
    BY <2>2, <2>3
<1>12. InFlight'
  <2>1. ASSUME NEW k \in Links, dstate[k] # "closed"
        PROVE  /\ AllFit(toD[k])' /\ AllFit(toB[k])'
               /\ Sorted(toD[k])' /\ Sorted(toB[k])' /\ Before(toD[k], toB[k])'
    BY <1>11, <2>1 DEF AllFit, Fits, Sorted, Before, Carries
  <2> QED
    BY <1>1, <2>1 DEF InFlight
<1>13. SummaryOK'
  <2> SUFFICES ASSUME NEW q \in sqlist, q.type = "char", UnderWay(q)', Exists(q.client)', Latest(q)'
               PROVE  cl[q.client].charinfo = q.arg
    BY DEF SummaryOK
  <2>1. PICK k \in Links : dstate[k] # "closed" /\ (Holds(toD'[k], q.seqno) \/ Holds(toB'[k], q.seqno))
    BY <1>1 DEF UnderWay, Holds, Carries
  <2>2. UnderWay(q)
    BY <1>11, <2>1 DEF UnderWay
  <2>3. Exists(q.client) /\ Latest(q)
    BY DEF Exists, Latest
  <2> QED
    BY <1>0, <2>2, <2>3 DEF SummaryOK
<1>14. SqOK' /\ ClientsOK' /\ DeadExact'
  BY <1>0 DEF SqOK, ClientsOK, DeadExact, Exists
<1>15. TypeOK'
  BY <1>0, <1>1, <1>10 DEF TypeOK, LinkInv
<1> QED
  BY <1>10, <1>12, <1>13, <1>14, <1>15 DEF Inv, LoginInv

\* on_d2cs_accountloginreq and on_d2cs_charloginreq.
LEMMA BnetdRequestInv ==
  ASSUME Inv, NEW l \in Links, on_d2cs_accountloginreq(l) \/ on_d2cs_charloginreq(l)
  PROVE  Inv'
<1>0. TypeOK /\ PacketsOK
  BY DEF Inv, LinkInv
<1>1. sess \in [Session -> [up : BOOLEAN, realm : BOOLEAN, charname : Maybe(Char)]]
  BY <1>0 DEF TypeOK
<1>2. ASSUME NEW type \in {"ACCOUNTLOGINREQ", "CHARLOGINREQ"}, Asked(l, type)
      PROVE  /\ Head(toB[l]).session \in Session
             /\ type = "CHARLOGINREQ" => Head(toB[l]).arg \in Char
  <2>1. toB[l] # <<>> /\ Head(toB[l]).type = type
    BY <1>2 DEF Asked, Arrived
  <2>2. toB[l] \in Seq(BPacket)
    BY <1>0 DEF PacketsOK
  <2>3. Head(toB[l]) \in BPacket
    BY <2>1, <2>2, TailFacts
  <2> QED
    BY <2>1, <2>3 DEF BPacket, Handshake, RequestPacket
<1>3. CASE on_d2cs_accountloginreq(l)
  <2>1. /\ Asked(l, "ACCOUNTLOGINREQ") /\ UNCHANGED loginVars
        /\ Reply(l, "ACCOUNTLOGINREPLY", sess[Head(toB[l]).session].up)
    BY <1>3 DEF on_d2cs_accountloginreq
  <2>2. sess[Head(toB[l]).session].up \in BOOLEAN
    BY <1>1, <1>2, <2>1
  <2>3. UNCHANGED <<multilogin, meets, cl, dead, chars, sqlist, sqlist_seqno, sess>>
    BY <2>1 DEF loginVars
  <2> QED
    BY <1>1, <2>1, <2>2, <2>3, ReplyInv
<1>4. CASE on_d2cs_charloginreq(l)
  <2> DEFINE s == Head(toB[l]).session
             ok == sess[s].up /\ sess[s].realm
  <2>1. /\ Asked(l, "CHARLOGINREQ") /\ Reply(l, "CHARLOGINREPLY", ok)
        /\ sess' = IF ok /\ bstate[l] = "loggedin" THEN [sess EXCEPT ![s].charname = Head(toB[l]).arg]
                   ELSE sess
        /\ UNCHANGED <<multilogin, meets, cl, dead, chars, sqlist, sqlist_seqno>>
    BY <1>4 DEF on_d2cs_charloginreq
  <2>2. s \in Session /\ Head(toB[l]).arg \in Maybe(Char) /\ ok \in BOOLEAN
    BY <1>2, <2>1 DEF Maybe
  <2>3. sess' \in [Session -> [up : BOOLEAN, realm : BOOLEAN, charname : Maybe(Char)]]
    BY <1>1, <2>1, <2>2
  <2> HIDE DEF ok
  <2> QED
    BY <2>1, <2>2, <2>3, ReplyInv
<1> QED
  BY <1>3, <1>4

-----------------------------------------------------------------------------
(* The invariant                                                           *)

\* Steps that leave the clients as they are.
LEMMA ClientsSame ==
  ASSUME Inv, LinkInv', NetEffect, Links' = Links, bound' = bound,
         UNCHANGED <<multilogin, meets, cl, dead, chars, sqlist_seqno>>,
         sqlist' \subseteq sqlist,
         \A p \in sqlist', q \in sqlist \ sqlist' : q.seqno <= p.seqno,
         sess' \in [Session -> [up : BOOLEAN, realm : BOOLEAN, charname : Maybe(Char)]]
  PROVE  Inv'
<1>0. TypeOK /\ PacketsOK /\ SqOK /\ InFlight /\ SummaryOK
  BY DEF Inv, LinkInv, LoginInv
<1>1. SqOK' /\ InFlight' /\ SummaryOK'
  BY <1>0, ShrinkStep DEF Exists
<1>2. ClientsOK' /\ DeadExact'
  BY DEF Inv, LoginInv, ClientsOK, DeadExact, Exists
<1>3. TypeOK'
  BY <1>0 DEF TypeOK, LinkInv
<1> QED
  BY <1>1, <1>2, <1>3 DEF Inv, LoginInv

\* The players of bnetd, and requests that expire.
LEMMA PlayerInv ==
  ASSUME Inv, \/ \E s \in Session : _client_realmjoinreq109(s) \/ PlayerLeaves(s)
              \/ sqlist_check_timeout
  PROVE  Inv'
<1>0. TypeOK /\ LinkInv
  BY DEF Inv
<1>1. LinkInv' /\ NetEffect /\ Links' = Links /\ bound' = bound
  <2>1. UNCHANGED netVars /\ (Fault \/ UNCHANGED <<bound, faults>>)
    BY DEF _client_realmjoinreq109, PlayerLeaves, sqlist_check_timeout, linkVars, netVars
  <2> QED
    BY <1>0, <2>1, SameNet
<1>2. sess \in [Session -> [up : BOOLEAN, realm : BOOLEAN, charname : Maybe(Char)]]
  BY <1>0 DEF TypeOK
<1>3. CASE \E s \in Session : _client_realmjoinreq109(s) \/ PlayerLeaves(s)
  <2>1. sess' \in [Session -> [up : BOOLEAN, realm : BOOLEAN, charname : Maybe(Char)]]
    <3>1. CASE \E s \in Session : _client_realmjoinreq109(s)
      <4>1. PICK s \in Session : sess' = [sess EXCEPT ![s].realm = TRUE]
        BY <3>1 DEF _client_realmjoinreq109
      <4> QED
        BY <1>2, <4>1
    <3>2. CASE \E s \in Session : PlayerLeaves(s)
      <4>1. PICK s \in Session : sess' = [sess EXCEPT ![s] = [up |-> FALSE, realm |-> FALSE, charname |-> NULL]]
        BY <3>2 DEF PlayerLeaves
      <4>2. NULL \in Maybe(Char)
        BY DEF Maybe
      <4> QED
        BY <1>2, <4>1, <4>2
    <3> QED
      BY <1>3, <3>1, <3>2
  <2>2. UNCHANGED <<multilogin, meets, cl, dead, chars, sqlist, sqlist_seqno>>
    BY <1>3 DEF _client_realmjoinreq109, PlayerLeaves
  <2> QED
    BY <1>1, <2>1, <2>2, ClientsSame
<1>4. CASE sqlist_check_timeout
  <2>1. PICK q \in sqlist : (\A r \in sqlist : q.seqno <= r.seqno) /\ sqlist' = sqlist \ {q}
    BY <1>4 DEF sqlist_check_timeout
  <2>2. UNCHANGED <<multilogin, meets, cl, dead, chars, sqlist_seqno, sess>>
    BY <1>4 DEF sqlist_check_timeout
  <2> QED
    BY <1>1, <1>2, <2>1, <2>2, ClientsSame
<1> QED
  BY <1>3, <1>4

\* After a restart no link is open, and no request is waiting.
LEMMA RestartInv ==
  ASSUME Inv, Restart
  PROVE  Inv'
<1>0. TypeOK /\ LinkInv /\ UnopenedEmpty
  BY DEF Inv, LinkInv
<1>1. /\ d2cs_restart /\ cl' = [c \in Client |-> NoClient]
      /\ dead' = {} /\ sqlist' = {} /\ sqlist_seqno' = 0
      /\ UNCHANGED <<multilogin, meets, chars, sess>>
  BY DEF Restart
<1>2. LinkInv'
  BY <1>0, <1>1, RestartLink
<1>3. /\ dstate' = [l \in Links |-> IF dstate[l] = "none" THEN "none" ELSE "closed"]
      /\ UNCHANGED toB /\ toD' = [l \in Links |-> <<>>] /\ bound' = bound /\ Links' = Links
  BY <1>1 DEF d2cs_restart, Fault, Links
<1>4. \A l \in Links : dstate'[l] # "closed" => toD'[l] = <<>> /\ toB'[l] = <<>>
  BY <1>0, <1>3 DEF UnopenedEmpty
<1>5. InFlight'
  BY <1>3, <1>4 DEF InFlight, AllFit, Sorted, Before
<1>6. NoClient \in ClientRec /\ NoClient.state = "none" /\ NoClient.charname = NULL /\ NoClient.peer = FALSE
  BY DEF NoClient, ClientRec, Maybe
<1>7. SqOK' /\ SummaryOK'
  BY <1>1 DEF SqOK, SummaryOK
<1>8. ClientsOK' /\ DeadExact'
  BY <1>1, <1>6 DEF ClientsOK, DeadExact, Exists
<1>9. TypeOK'
  <2>1. bound.requests \in Nat /\ LinkTypeOK'
    BY <1>0, <1>2, RealmLinkAssumption DEF TypeOK, LinkTypeOK, LinkInv
  <2> QED
    BY <1>0, <1>1, <1>3, <1>6, <2>1 DEF TypeOK
<1> QED
  BY <1>2, <1>5, <1>7, <1>8, <1>9 DEF Inv, LoginInv

\* Initially there is nobody and nothing is under way.
LEMMA InitInv == Init => Inv
<1> SUFFICES ASSUME Init PROVE Inv
  OBVIOUS
<1>1. LinkInv
  BY InitLink
<1>2. /\ multilogin \in BOOLEAN /\ meets \in IF multilogin THEN HashMeets ELSE {{}}
      /\ cl = [c \in Client |-> NoClient] /\ dead = {} /\ chars = Char
      /\ sqlist = {} /\ sqlist_seqno = 0
      /\ sess = [s \in Session |-> [up |-> TRUE, realm |-> FALSE, charname |-> NULL]]
  BY DEF Init
<1>3. \A l \in Links : toD[l] = <<>> /\ toB[l] = <<>>
  BY DEF Init, LinkInit, Links
<1>4. InFlight
  BY <1>3 DEF InFlight, AllFit, Sorted, Before
<1>5. NoClient \in ClientRec /\ NoClient.state = "none" /\ NoClient.charname = NULL /\ NoClient.peer = FALSE
  BY DEF NoClient, ClientRec, Maybe
<1>6. SqOK /\ SummaryOK
  BY <1>2 DEF SqOK, SummaryOK
<1>7. ClientsOK /\ DeadExact
  BY <1>2, <1>5 DEF ClientsOK, DeadExact, Exists
<1>8. TypeOK
  <2>1. bound.requests \in Nat /\ LinkTypeOK
    BY <1>1, RealmLinkAssumption DEF LinkTypeOK, LinkInv
  <2> QED
    BY <1>2, <1>5, <2>1 DEF TypeOK, Maybe
<1> QED
  BY <1>1, <1>4, <1>6, <1>7, <1>8 DEF Inv, LoginInv

\* Every step keeps the invariant.
LEMMA NextInv == Inv /\ [Next]_vars => Inv'
<1> SUFFICES ASSUME Inv, [Next]_vars PROVE Inv'
  OBVIOUS
<1>0. TypeOK /\ LinkInv /\ sess \in [Session -> [up : BOOLEAN, realm : BOOLEAN, charname : Maybe(Char)]]
  BY DEF Inv, TypeOK
<1>1. CASE LinkNext /\ UNCHANGED loginVars
  <2>1. LinkInv' /\ NetEffect
    BY <1>0, <1>1, NextLink
  <2>2. bound' = bound
    BY <1>1
    DEF LinkNext, LinkProgress, bnetd_check_create, conn_handle_connecting, d2cs_read_fails,
        on_bnetd_authreq, on_bnetd_authreply, d2cs_connlist_reap, handle_d2cs_init, on_d2cs_authreply,
        conn_destroy, bnetd_read_fails, ConnectFails, LinkLost, realmlist_reload, Fault
  <2>3. Links' = Links
    BY <1>0, <2>1, <2>2 DEF LinkInv, LinkTypeOK
  <2>4. UNCHANGED <<multilogin, meets, cl, dead, chars, sqlist, sqlist_seqno, sess>>
    BY <1>1 DEF loginVars
  <2> QED
    BY <1>0, <2>1, <2>2, <2>3, <2>4, ClientsSame
<1>2. CASE \E l \in Links : LoginProgress(l)
  BY <1>2, AccountReplyInv, CharReplyInv, BnetdRequestInv DEF LoginProgress
<1>3. CASE \E c \in Client : \/ d2cs_conn_create(c) \/ ClientLeaves(c) \/ connlist_check_timeout(c)
                             \/ conn_handle_read_fails(c) \/ client_reap(c) \/ ClientRequest(c)
  BY <1>3, ConnInv, ClientRequestInv
<1>4. CASE \/ \E s \in Session : _client_realmjoinreq109(s) \/ PlayerLeaves(s)
           \/ sqlist_check_timeout
  BY <1>4, PlayerInv
<1>5. CASE Restart
  BY <1>5, RestartInv
<1>6. CASE UNCHANGED vars
  <2>1. UNCHANGED netVars /\ UNCHANGED <<bound, faults>>
        /\ UNCHANGED <<multilogin, meets, cl, dead, chars, sqlist, sqlist_seqno, sess>>
    BY <1>6 DEF vars, linkVars, loginVars
  <2>2. LinkInv' /\ NetEffect /\ Links' = Links /\ bound' = bound
    BY <1>0, <2>1, SameNet
  <2> QED
    BY <1>0, <2>1, <2>2, ClientsSame
<1> QED
  BY <1>1, <1>2, <1>3, <1>4, <1>5, <1>6 DEF Next

-----------------------------------------------------------------------------
(* The theorems                                                            *)

\* The invariant holds in every state of every behaviour.
THEOREM Invariance == Spec => []Inv
<1>1. Init => Inv
  BY InitInv
<1>2. Inv /\ [Next]_vars => Inv'
  BY NextInv
<1> QED
  BY <1>1, <1>2, PTL DEF Spec

\* The state keeps its types.
THEOREM TypeCorrect == Spec => []TypeOK
<1>1. Inv => TypeOK
  BY DEF Inv
<1> QED
  BY <1>1, Invariance, PTL

\* bnetd serves d2cs on one connection only, the one its realm record names,
\* and the connection of an active realm has not been freed (realm_active,
\* realm_deactive, conn_destroy, realmlist_reload).
THEOREM RealmCorrect == Spec => []RealmLinked
<1>1. Inv => RealmLinked
  BY DEF Inv, LinkInv
<1> QED
  BY <1>1, Invariance, PTL

\* sqlist_find_sq never confuses two requests: an answer on the link in use
\* and the request with its number are about the same client and the same
\* session or character, however requests expired, links were replaced or
\* d2cs restarted.
THEOREM AnswersCorrect == Spec => []AnswersMatch
<1>1. Inv => AnswersMatch
  <2> SUFFICES ASSUME Inv, NEW l \in Links, dstate[l] = "authed", NEW i \in DOMAIN toD[l], NEW q \in sqlist,
                      toD[l][i].type \in {"ACCOUNTLOGINREPLY", "CHARLOGINREPLY"}, toD[l][i].seqno = q.seqno
               PROVE  toD[l][i].client = q.client /\ toD[l][i].arg = q.arg
    BY DEF AnswersMatch
  <2>1. AllFit(toD[l])
    BY DEF Inv, LoginInv, InFlight
  <2>2. Carries(toD[l][i])
    BY DEF Carries
  <2> QED
    BY <2>1, <2>2 DEF AllFit, Fits
<1> QED
  BY <1>1, Invariance, PTL

\* connlist_dead is exact, also after on_bnetd_accountloginreply has taken a
\* connection out of the destroy state.
THEOREM DeadCorrect == Spec => []DeadExact
<1>1. Inv => DeadExact
  BY DEF Inv, LoginInv
<1> QED
  BY <1>1, Invariance, PTL

\* Only on_bnetd_charloginreply gives a connection a character.
LEMMA CharnameStep ==
  ASSUME Inv, [Next]_vars
  PROVE  \/ \A c \in Client : cl'[c].charname \in {cl[c].charname, NULL}
         \/ \E l \in Links : \E q \in Request(l) :
              Answer(l, "CHARLOGINREPLY") /\ CharAccepted(l, q) /\ sqlist' = sqlist \ Request(l)
<1> DEFINE Keeps == \A c \in Client : cl'[c].charname \in {cl[c].charname, NULL}
<1>t. cl \in [Client -> ClientRec]
  BY DEF Inv, TypeOK
<1>u. ASSUME UNCHANGED cl PROVE Keeps
  BY <1>u
<1>b. ASSUME NEW c \in Client, NEW rec, cl' = [cl EXCEPT ![c] = rec], rec.charname \in {cl[c].charname, NULL}
      PROVE  Keeps
  <2>1. \A d \in Client : cl'[d] = IF d = c THEN rec ELSE cl[d]
    BY <1>t, <1>b
  <2> QED
    BY <1>b, <2>1
<1>f. ASSUME NEW c \in Client, Fails(c) PROVE Keeps
  <2>1. cl' = [cl EXCEPT ![c] = [cl[c] EXCEPT !.state = "destroy"]]
    BY <1>f DEF Fails, Becomes
  <2>2. [cl[c] EXCEPT !.state = "destroy"].charname = cl[c].charname
    BY <1>t DEF ClientRec
  <2> QED
    BY <1>b, <2>1, <2>2
<1>c. ASSUME NEW c \in Client, NEW x, conn_set_charinfo(c, x) PROVE Keeps
  <2>1. cl' = [cl EXCEPT ![c] = [cl[c] EXCEPT !.charinfo = x]]
    BY <1>c DEF conn_set_charinfo, Becomes
  <2>2. [cl[c] EXCEPT !.charinfo = x].charname = cl[c].charname
    BY <1>t DEF ClientRec
  <2> QED
    BY <1>b, <2>1, <2>2
<1>1. ASSUME LinkNext /\ UNCHANGED loginVars PROVE Keeps
  BY <1>1, <1>u DEF loginVars
<1>2. ASSUME NEW l \in Links, on_d2cs_accountloginreq(l) \/ on_d2cs_charloginreq(l) PROVE Keeps
  BY <1>2, <1>u DEF on_d2cs_accountloginreq, on_d2cs_charloginreq, loginVars
<1>3. ASSUME NEW l \in Links, on_bnetd_accountloginreply(l) PROVE Keeps
  <2>1. CASE Unanswered
    BY <1>u, <2>1 DEF Unanswered
  <2>2. ASSUME NEW q \in Request(l),
               Becomes(q.client, [cl[q.client] EXCEPT !.account = q.arg, !.state = "authed"])
        PROVE  Keeps
    <3>1. q.client \in Client
      BY DEF Request, Inv, TypeOK, Sq
    <3>2. cl' = [cl EXCEPT ![q.client] = [cl[q.client] EXCEPT !.account = q.arg, !.state = "authed"]]
      BY <2>2 DEF Becomes
    <3>3. [cl[q.client] EXCEPT !.account = q.arg, !.state = "authed"].charname = cl[q.client].charname
      BY <1>t, <3>1 DEF ClientRec
    <3> QED
      BY <1>b, <3>1, <3>2, <3>3
  <2> QED
    BY <1>3, <2>1, <2>2 DEF on_bnetd_accountloginreply
<1>4. ASSUME NEW l \in Links, on_bnetd_charloginreply(l)
      PROVE  Keeps \/ \E q \in Request(l) :
               Answer(l, "CHARLOGINREPLY") /\ CharAccepted(l, q) /\ sqlist' = sqlist \ Request(l)
  BY <1>4, <1>u DEF on_bnetd_charloginreply, CharAccepted, Unanswered
<1>5. ASSUME NEW c \in Client, d2cs_conn_create(c) \/ client_reap(c) PROVE Keeps
  <2>1. PICK rec \in {[NoClient EXCEPT !.state = "connected", !.peer = TRUE], [NoClient EXCEPT !.state = "gone"]} :
          cl' = [cl EXCEPT ![c] = rec]
    BY <1>5 DEF d2cs_conn_create, client_reap
  <2>2. rec.charname = NULL
    BY DEF NoClient
  <2> QED
    BY <1>b, <2>1, <2>2
<1>6. ASSUME NEW c \in Client, ClientLeaves(c) PROVE Keeps
  <2>1. cl' = [cl EXCEPT ![c] = [cl[c] EXCEPT !.peer = FALSE]]
    BY <1>6 DEF ClientLeaves
  <2>2. [cl[c] EXCEPT !.peer = FALSE].charname = cl[c].charname
    BY <1>t DEF ClientRec
  <2> QED
    BY <1>b, <2>1, <2>2
<1>7. ASSUME NEW c \in Client, connlist_check_timeout(c) \/ conn_handle_read_fails(c) PROVE Keeps
  BY <1>7, <1>f DEF connlist_check_timeout, conn_handle_read_fails
<1>8. ASSUME NEW c \in Client, ClientRequest(c) PROVE Keeps
  <2>1. ASSUME NEW s \in Session, on_client_loginreq(c, s) PROVE Keeps
    <3>1. CASE Becomes(c, [cl[c] EXCEPT !.session = s])
      <4>1. cl' = [cl EXCEPT ![c] = [cl[c] EXCEPT !.session = s]]
        BY <3>1 DEF Becomes
      <4>2. [cl[c] EXCEPT !.session = s].charname = cl[c].charname
        BY <1>t DEF ClientRec
      <4> QED
        BY <1>b, <4>1, <4>2
    <3> QED
      BY <1>f, <2>1, <3>1 DEF on_client_loginreq
  <2>2. ASSUME NEW x \in Char, on_client_charloginreq(c, x) \/ on_client_createcharreq(c, x) PROVE Keeps
    BY <1>f, <1>c, <2>2 DEF on_client_charloginreq, on_client_createcharreq
  <2>3. ASSUME NEW x \in Char, on_client_deletecharreq(c, x) PROVE Keeps
    <3>1. CASE Becomes(c, [cl[c] EXCEPT !.charname = NULL])
      <4>1. cl' = [cl EXCEPT ![c] = [cl[c] EXCEPT !.charname = NULL]]
        BY <3>1 DEF Becomes
      <4>2. [cl[c] EXCEPT !.charname = NULL].charname = NULL
        BY <1>t DEF ClientRec
      <4> QED
        BY <1>b, <4>1, <4>2
    <3> QED
      BY <1>f, <2>3, <3>1 DEF on_client_deletecharreq
  <2> QED
    BY <1>8, <2>1, <2>2, <2>3 DEF ClientRequest
<1>9. ASSUME \/ \E s \in Session : _client_realmjoinreq109(s) \/ PlayerLeaves(s)
             \/ sqlist_check_timeout
      PROVE  Keeps
  BY <1>9, <1>u DEF _client_realmjoinreq109, PlayerLeaves, sqlist_check_timeout
<1>10. ASSUME Restart PROVE Keeps
  BY <1>10 DEF Restart, NoClient
<1>11. ASSUME UNCHANGED vars PROVE Keeps
  BY <1>11, <1>u DEF vars, loginVars
<1> HIDE DEF Keeps
<1>12. Keeps \/ \E l \in Links : \E q \in Request(l) :
         Answer(l, "CHARLOGINREPLY") /\ CharAccepted(l, q) /\ sqlist' = sqlist \ Request(l)
  BY <1>1, <1>2, <1>3, <1>4, <1>5, <1>6, <1>7, <1>8, <1>9, <1>10, <1>11 DEF Next, LoginProgress
<1> QED
  BY <1>12 DEF Keeps

\* The summary a connection shows when its latest character request is
\* answered is the one of the character it gets, although the summary was set
\* when the request was made (conn_set_charinfo, d2cs_conn_set_charname).
THEOREM SummaryCorrect == Spec => SummaryOfChar
<1> DEFINE A == \A c \in Client :
                  /\ cl'[c].charname # cl[c].charname /\ cl'[c].charname # NULL
                  /\ ~\E q \in sqlist' : q.client = c /\ q.type = "char"
                  => cl'[c].charinfo = cl'[c].charname
<1>1. Inv /\ [Next]_vars => A
  <2> SUFFICES ASSUME Inv, [Next]_vars, NEW c \in Client,
                      cl'[c].charname # cl[c].charname, cl'[c].charname # NULL,
                      ~\E q \in sqlist' : q.client = c /\ q.type = "char"
               PROVE  cl'[c].charinfo = cl'[c].charname
    OBVIOUS
  <2>1. PICK l \in Links : \E q \in Request(l) :
          Answer(l, "CHARLOGINREPLY") /\ CharAccepted(l, q) /\ sqlist' = sqlist \ Request(l)
    BY CharnameStep
  <2>2. PICK q \in Request(l) :
          Answer(l, "CHARLOGINREPLY") /\ CharAccepted(l, q) /\ sqlist' = sqlist \ Request(l)
    BY <2>1
  <2>3. q \in sqlist /\ Request(l) = {q} /\ q.client \in Client /\ q.type = "char"
    BY <2>2, CharRecord
  <2>4. PICK rec \in ClientRec :
          /\ Becomes(q.client, rec) /\ rec.charname = q.arg /\ rec.charinfo = cl[q.client].charinfo
    BY <2>2, CharRecord
  <2>5. \A d \in Client : cl'[d] = IF d = q.client THEN rec ELSE cl[d]
    BY <2>3, <2>4 DEF Becomes, Inv, TypeOK
  <2>6. c = q.client /\ cl'[c] = rec
    BY <2>5
  <2>7. Latest(q)
    <3>1. \A p \in sqlist : p.client = c /\ p.type = "char" => p = q
      BY <2>2, <2>3
    <3>2. q.seqno \in Nat
      BY <2>3 DEF Inv, TypeOK, Sq
    <3> QED
      BY <2>6, <3>1, <3>2 DEF Latest
  <2>8. UnderWay(q)
    <3>1. dstate[l] = "authed" /\ q.seqno = Head(toD[l]).seqno
      BY DEF Request
    <3>2. toD[l] # <<>> /\ Carries(Head(toD[l])) /\ toD[l] \in Seq(DPacket)
      BY <2>2 DEF Answer, Arrived, Carries, Inv, LinkInv, PacketsOK
    <3>3. 1 \in DOMAIN toD[l] /\ Head(toD[l]) = toD[l][1]
      BY <3>2, TailFacts
    <3>4. Holds(toD[l], q.seqno)
      BY <3>1, <3>2, <3>3 DEF Holds
    <3> QED
      BY <3>1, <3>4 DEF UnderWay
  <2>9. cl[q.client].charinfo = q.arg
    BY <2>2, <2>3, <2>7, <2>8 DEF Inv, LoginInv, SummaryOK, CharAccepted
  <2> QED
    BY <2>4, <2>6, <2>9
<1> QED
  BY <1>1, Invariance, PTL DEF Spec, SummaryOfChar

=============================================================================
