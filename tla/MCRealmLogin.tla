---------------------------- MODULE MCRealmLogin ----------------------------
(* Small instances of RealmLogin.                                          *)
EXTENDS RealmLogin

CONSTANTS s1, x, y

\* Long chains of reconnects without clients; two clients that log in accounts
\* and characters; requests that expire, clients and players that leave; a link
\* or a d2cs that is replaced under a request.
MCBound == {[links |-> 7, faults |-> 2, requests |-> 0],
            [links |-> 1, faults |-> 0, requests |-> 4],
            [links |-> 1, faults |-> 1, requests |-> 2],
            [links |-> 2, faults |-> 1, requests |-> 1]}

\* The coincidences of hashes: all, where the lookup by character name finds
\* everybody; a lookup that finds nobody is as check_multilogin off.
MCMeets == {Client \X Char}

\* Two clients without faults; hashes of session numbers and of names differ.
MCTwoLogins == {[links |-> 1, faults |-> 0, requests |-> 4]}
MCApart == {{}}
=============================================================================
