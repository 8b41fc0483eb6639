------------------------------ MODULE RealmLink ------------------------------
(***************************************************************************)
(* The link between a realm server and bnetd.  d2cs opens it and opens it   *)
(* again (src/src/d2cs/bnetd.cpp, s2s.cpp); bnetd accepts it, marks the     *)
(* realm active and keeps the connection in the realm record                *)
(* (src/src/bnetd/handle_d2cs.cpp, realm.cpp, connection.cpp).              *)
(*                                                                         *)
(* A link is a TCP connection.  Its two ends are separate: one side may    *)
(* have dropped it long before the other notices, so two connections of    *)
(* the same d2cs can exist in bnetd.  One realm is modelled; its name and  *)
(* version agree with what bnetd expects.                                  *)
(***************************************************************************)
EXTENDS Integers, Sequences

CONSTANTS
  Bound,    \* bounds: a set of records [links, faults, requests], one chosen
  NULL

ASSUME RealmLinkAssumption ==
  /\ Bound \subseteq [links : Nat, faults : Nat, requests : Nat]
  /\ NULL \notin Nat

VARIABLES
  bound,              \* the bounds this behaviour keeps to
  faults,             \* faults so far
  bnetd_connection,   \* d2cs: the link in use, NULL if there is none
  dstate,             \* d2cs: the state of its end of each link
  bstate,             \* bnetd: the state of its end of each link
  tcp,                \* "none", "up", or "cut" once a side closed or it broke
  toD, toB,           \* packets on their way to d2cs and to bnetd
  realm,              \* bnetd: the realm record
  crealm              \* bnetd: does the connection of a link have the realm?

netVars == <<bnetd_connection, dstate, bstate, tcp, toD, toB, realm, crealm>>
linkVars == <<bound, faults, netVars>>

\* Something goes wrong that the servers cannot help.
Fault == faults < bound.faults /\ faults' = faults + 1 /\ UNCHANGED bound

Links == DOMAIN dstate

\* The state of an end: "closed" once the connection was destroyed.
LinkState == {"none", "connecting", "connected", "authed", "loggedin", "destroy", "closed"}

Pop(queue, l) == [queue EXCEPT ![l] = Tail(@)]
Push(queue, l, m) == [queue EXCEPT ![l] = Append(@, m)]

Arrived(queue, l, type) == queue[l] # <<>> /\ Head(queue[l]).type = type

\* Types of the link's state.
LinkTypeOK ==
  /\ bound \in Bound /\ faults \in 0..bound.faults
  /\ Links = 1..bound.links
  /\ bnetd_connection \in Links \union {NULL}
  /\ dstate \in [Links -> LinkState] /\ bstate \in [Links -> LinkState]
  /\ tcp \in [Links -> {"none", "up", "cut"}]
  /\ DOMAIN toD = Links /\ DOMAIN toB = Links
  /\ realm \in [active : BOOLEAN, conn : Links \union {NULL}]
  /\ crealm \in [Links -> BOOLEAN]

LinkInit ==
  /\ bound \in Bound
  /\ faults = 0
  /\ bnetd_connection = NULL
  /\ dstate = [l \in 1..bound.links |-> "none"]
  /\ bstate = [l \in 1..bound.links |-> "none"]
  /\ tcp = [l \in 1..bound.links |-> "none"]
  /\ toD = [l \in 1..bound.links |-> <<>>]
  /\ toB = [l \in 1..bound.links |-> <<>>]
  /\ realm = [active |-> FALSE, conn |-> NULL]
  /\ crealm = [l \in 1..bound.links |-> FALSE]

-----------------------------------------------------------------------------
(* d2cs                                                                    *)

\* bnetd_check without a connection: s2s_create, whose connect is complete at
\* once (then handle_bnetd_init sends the class byte) or in progress.
bnetd_check_create(l) ==
  /\ bnetd_connection = NULL
  /\ dstate[l] = "none" /\ \A k \in Links : k < l => dstate[k] # "none"
  /\ bnetd_connection' = l
  /\ \/ dstate' = [dstate EXCEPT ![l] = "connecting"] /\ UNCHANGED tcp
     \/ dstate' = [dstate EXCEPT ![l] = "connected"] /\ tcp' = [tcp EXCEPT ![l] = "up"]
  /\ UNCHANGED <<bound, faults, bstate, toD, toB, realm, crealm>>

\* conn_handle_connecting: the socket is writable.
conn_handle_connecting(l) ==
  /\ dstate[l] = "connecting"
  /\ dstate' = [dstate EXCEPT ![l] = "connected"]
  /\ tcp' = [tcp EXCEPT ![l] = "up"]
  /\ UNCHANGED <<bound, faults, bnetd_connection, bstate, toD, toB, realm, crealm>>

\* The connect failed, or bnetd_check found it in progress for too long.
ConnectFails(l) ==
  /\ dstate[l] = "connecting" /\ Fault
  /\ dstate' = [dstate EXCEPT ![l] = "destroy"]
  /\ UNCHANGED <<bnetd_connection, bstate, tcp, toD, toB, realm, crealm>>

\* on_bnetd_authreq.  conn_process_packet drops what does not fit the state.
on_bnetd_authreq(l) ==
  /\ Arrived(toD, l, "AUTHREQ")
  /\ toD' = Pop(toD, l)
  /\ toB' = IF dstate[l] = "connected" /\ tcp[l] = "up" THEN Push(toB, l, [type |-> "AUTHREPLY"])
            ELSE toB
  /\ UNCHANGED <<bound, faults, bnetd_connection, dstate, bstate, tcp, realm, crealm>>

\* on_bnetd_authreply with BNETD_D2CS_AUTHREPLY_SUCCEED.
on_bnetd_authreply(l) ==
  /\ Arrived(toD, l, "AUTHREPLY")
  /\ toD' = Pop(toD, l)
  /\ dstate' = [dstate EXCEPT ![l] = IF @ = "connected" THEN "authed" ELSE @]
  /\ UNCHANGED <<bound, faults, bnetd_connection, bstate, tcp, toB, realm, crealm>>

\* conn_handle_read returns -1: the other side closed and nothing is left to
\* read, or the connection broke.
d2cs_read_fails(l) ==
  /\ tcp[l] = "cut" /\ toD[l] = <<>> /\ dstate[l] \in {"connected", "authed"}
  /\ dstate' = [dstate EXCEPT ![l] = "destroy"]
  /\ UNCHANGED <<bound, faults, bnetd_connection, bstate, tcp, toD, toB, realm, crealm>>

\* Fault: d2cs does not forget the connection it destroys.
ReapKeepsPointer(l) ==
  /\ dstate[l] = "destroy"
  /\ dstate' = [dstate EXCEPT ![l] = "closed"]
  /\ tcp' = [tcp EXCEPT ![l] = IF @ = "up" THEN "cut" ELSE @]
  /\ toD' = [toD EXCEPT ![l] = <<>>]
  /\ UNCHANGED <<bound, faults, bnetd_connection, bstate, toB, realm, crealm>>

\* d2cs_connlist_reap: d2cs_conn_destroy, s2s_destroy, bnetd_destroy.  What
\* d2cs sent before it closed the socket still reaches bnetd.
d2cs_connlist_reap(l) ==
  /\ dstate[l] = "destroy"
  /\ dstate' = [dstate EXCEPT ![l] = "closed"]
  /\ bnetd_connection' = IF bnetd_connection = l THEN NULL ELSE bnetd_connection
  /\ tcp' = [tcp EXCEPT ![l] = IF @ = "up" THEN "cut" ELSE @]
  /\ toD' = [toD EXCEPT ![l] = <<>>]
  /\ UNCHANGED <<bound, faults, bstate, toB, realm, crealm>>

-----------------------------------------------------------------------------
(* bnetd                                                                   *)

\* handle_init_packet for a d2cs, then handle_d2cs_init.
handle_d2cs_init(l) ==
  /\ tcp[l] = "up" /\ bstate[l] = "none"
  /\ bstate' = [bstate EXCEPT ![l] = "connected"]
  /\ toD' = Push(toD, l, [type |-> "AUTHREQ"])
  /\ UNCHANGED <<bound, faults, bnetd_connection, dstate, tcp, toB, realm, crealm>>

\* realm_deactive on a realm record and the states of the connections: the
\* realm's connection is to be destroyed; the pointer to it stays.
realm_deactive(r, states) ==
  IF ~r.active THEN [realm |-> r, bstate |-> states]
  ELSE [realm |-> [r EXCEPT !.active = FALSE],
        bstate |-> IF r.conn = NULL THEN states ELSE [states EXCEPT ![r.conn] = "destroy"]]

\* realm_active for a connection that on_d2cs_authreply has just logged in.
realm_active(l) ==
  LET old == realm_deactive(realm, [bstate EXCEPT ![l] = "loggedin"])
  IN  /\ realm' = [active |-> TRUE, conn |-> l]
      /\ bstate' = old.bstate
      /\ crealm' = [crealm EXCEPT ![l] = TRUE]

\* on_d2cs_authreply; handle_d2cs_packet ignores it in any other state.
on_d2cs_authreply(l) ==
  /\ Arrived(toB, l, "AUTHREPLY")
  /\ toB' = Pop(toB, l)
  /\ \/ /\ bstate[l] = "connected"
        /\ realm_active(l)
        /\ toD' = IF tcp[l] = "up" THEN Push(toD, l, [type |-> "AUTHREPLY"]) ELSE toD
     \/ bstate[l] # "connected" /\ UNCHANGED <<realm, bstate, crealm, toD>>
  /\ UNCHANGED <<bound, faults, bnetd_connection, dstate, tcp>>

\* sd_tcpinput meets the end of the connection: conn_close_read.
bnetd_read_fails(l) ==
  /\ tcp[l] = "cut" /\ toB[l] = <<>> /\ bstate[l] \in {"connected", "loggedin"}
  /\ bstate' = [bstate EXCEPT ![l] = "destroy"]
  /\ UNCHANGED <<bound, faults, bnetd_connection, dstate, tcp, toD, toB, realm, crealm>>

\* Fault: the realm of a destroyed connection stays active.
DestroyKeepsRealm(l) ==
  /\ bstate[l] = "destroy"
  /\ bstate' = [bstate EXCEPT ![l] = "closed"]
  /\ crealm' = [crealm EXCEPT ![l] = FALSE]
  /\ tcp' = [tcp EXCEPT ![l] = "cut"]
  /\ toB' = [toB EXCEPT ![l] = <<>>]
  /\ UNCHANGED <<bound, faults, bnetd_connection, dstate, toD, realm>>

\* connlist_reap when the output queue has drained: conn_destroy deactivates
\* the realm of the connection, even if the realm got another one meanwhile.
conn_destroy(l) ==
  /\ bstate[l] = "destroy"
  /\ LET old == IF crealm[l] THEN realm_deactive(realm, bstate)
                ELSE [realm |-> realm, bstate |-> bstate]
     IN realm' = old.realm /\ bstate' = [old.bstate EXCEPT ![l] = "closed"]
  /\ crealm' = [crealm EXCEPT ![l] = FALSE]
  /\ tcp' = [tcp EXCEPT ![l] = "cut"]
  /\ toB' = [toB EXCEPT ![l] = <<>>]
  /\ UNCHANGED <<bound, faults, bnetd_connection, dstate, toD>>

\* realmlist_reload (SIGHUP) with the realm still in the file: references move
\* to the new record and realm_destroy deactivates the old one.
realmlist_reload ==
  /\ Fault
  /\ bstate' = realm_deactive(realm, bstate).bstate
  /\ realm' = [active |-> FALSE, conn |-> NULL]
  /\ UNCHANGED <<bnetd_connection, dstate, tcp, toD, toB, crealm>>

-----------------------------------------------------------------------------
(* The network                                                             *)

\* A link breaks: what was under way is lost, each side learns it by itself.
LinkLost(l) ==
  /\ tcp[l] = "up" /\ Fault
  /\ tcp' = [tcp EXCEPT ![l] = "cut"]
  /\ toD' = [toD EXCEPT ![l] = <<>>]
  /\ toB' = [toB EXCEPT ![l] = <<>>]
  /\ UNCHANGED <<bnetd_connection, dstate, bstate, realm, crealm>>

\* d2cs crashes and is started again; its sockets are closed for it.
d2cs_restart ==
  /\ Fault
  /\ dstate' = [l \in Links |-> IF dstate[l] = "none" THEN "none" ELSE "closed"]
  /\ tcp' = [l \in Links |-> IF tcp[l] = "up" THEN "cut" ELSE tcp[l]]
  /\ toD' = [l \in Links |-> <<>>]
  /\ bnetd_connection' = NULL
  /\ UNCHANGED <<bstate, toB, realm, crealm>>

-----------------------------------------------------------------------------
\* What a link does by itself.  A broken link that bnetd's side never notices
\* (no packet, no keepalive) stays: bnetd_read_fails is not fair.
LinkProgress(l) ==
  \/ bnetd_check_create(l) \/ conn_handle_connecting(l) \/ d2cs_read_fails(l)
  \/ on_bnetd_authreq(l) \/ on_bnetd_authreply(l) \/ d2cs_connlist_reap(l)
  \/ handle_d2cs_init(l) \/ on_d2cs_authreply(l) \/ conn_destroy(l)

LinkNext ==
  \/ \E l \in Links : LinkProgress(l) \/ bnetd_read_fails(l) \/ ConnectFails(l) \/ LinkLost(l)
  \/ realmlist_reload

-----------------------------------------------------------------------------
(* Properties                                                              *)

\* A connection bnetd serves requests on is the one the realm record names,
\* and the realm is active: a d2cs that reconnects never leaves two served
\* connections behind, nor one the realm does not know of.  And the connection
\* of an active realm has not been freed, though realm->conn is never cleared
\* and realm_deactive and send_d2cs_gameinforeq use it (realm_active,
\* realm_deactive, conn_destroy, realmlist_reload).
RealmLinked ==
  /\ \A l \in Links : bstate[l] = "loggedin" => realm = [active |-> TRUE, conn |-> l]
  /\ realm.active => realm.conn # NULL /\ bstate[realm.conn] \in {"loggedin", "destroy"}

\* The realm is served: both ends agree on the link.
Online ==
  /\ bnetd_connection # NULL /\ dstate[bnetd_connection] = "authed"
  /\ tcp[bnetd_connection] = "up" /\ bstate[bnetd_connection] = "loggedin"

\* Once faults have stopped the realm comes back and stays, although the late
\* destruction of an old connection takes down its successor (conn_destroy):
\* every fault costs at most three reconnects.
RealmComesBack == bound.links > 3 * bound.faults => <>[]Online

=============================================================================
