----------------------------- MODULE CharFiles -----------------------------
(***************************************************************************)
(* The files of one character name, which d2cs and d2dbs share without     *)
(* coordination.  The save file is found by the name alone, the info file  *)
(* by account and name.  d2cs creates and deletes both                     *)
(* (src/src/d2cs/d2charfile.cpp); d2dbs gives the save file to one game    *)
(* server at a time and replaces both by two renames                       *)
(* (src/src/d2dbs/dbspacket.cpp; the details of one save are in CharSave).  *)
(*                                                                         *)
(* Each process is single-threaded; their calls to the file system         *)
(* interleave, may fail, and either process may end between two of them.   *)
(* The code does not defend itself against some of the things that can     *)
(* happen.  Those are recorded in mishaps when they do, and the properties *)
(* say which of them have to be there before anything goes wrong.          *)
(***************************************************************************)
EXTENDS Integers, FiniteSets

CONSTANTS
  Account,
  Gs,       \* game servers
  MaxVer,   \* bound: creations and loads
  NULL

VARIABLES
  save,     \* the save file: a version, NULL if there is none
  bak,      \* the save file in the backup directory
  info,     \* the accounts with an info file for the name
  op,       \* the create or delete request d2cs works on, or NULL
  task,     \* the save request d2dbs works on, or NULL
  chosen,   \* the accounts with a connection that has chosen the character
  sess,     \* the character in the memory of each game server, or NULL
  lock,     \* the game server that holds the lock, or NULL
  made,     \* the last version made
  mishaps   \* what happened that the code has no defence against

d2cs == <<op, chosen>>
d2dbs == <<task, lock>>
vars == <<save, bak, info, d2cs, d2dbs, sess, made, mishaps>>

\* A version of the character; every creation and every session makes a new
\* one.
Ver == [owner : Account, ver : 1..MaxVer]

Mishap ==
  {"gap",       \* d2cs looked for the save file between the renames of d2dbs
   "in_play",   \* the character was deleted while it was chosen, in a game or being saved
   "unsaved",   \* d2dbs renamed a file to the backup and not the new one to its name
   "half",      \* d2cs left a creation or deletion half done
   "cut"}       \* a game server lost its lock and kept the character

\* A request in work at d2cs, one in work at d2dbs, and a character in the
\* memory of a game server.
Op == [kind : {"create", "delete"}, acct : Account, step : {"info", "save", "bak"}]
Task == [kind : {"charsave", "charinfo"}, acct : Account, char : Ver, step : {"backup", "commit"}]
Held == [acct : Account, char : Ver]

ASSUME CharFilesAssumption == MaxVer \in Nat /\ NULL \notin Gs \cup Ver \cup Op \cup Task \cup Held

Recorded(mishap, happens) == mishaps' = IF happens THEN mishaps \cup {mishap} ELSE mishaps

\* The character is chosen, in a game, or being saved.
InPlay(a) ==
  \/ a \in chosen'
  \/ \E g \in Gs : sess[g] # NULL /\ sess[g].acct = a
  \/ task # NULL /\ task.acct = a

\* Between p_rename(savefile, bakfile) and p_rename(filename, savefile).
Missing ==
  /\ task # NULL /\ task.step = "commit"
  /\ IF task.kind = "charsave" THEN save = NULL ELSE task.acct \notin info

-----------------------------------------------------------------------------
(* d2cs creates a character                                                *)

Doing(kind, step) == op # NULL /\ op.kind = kind /\ op.step = step

\* Fault: the name is not looked for.
CreateBlind(a) ==
  /\ op = NULL
  /\ op' = [kind |-> "create", acct |-> a, step |-> "info"]
  /\ Recorded("gap", Missing /\ task.kind = "charsave")
  /\ UNCHANGED <<save, bak, info, d2dbs, sess, made, chosen>>

\* d2char_create, up to the test with fopen.  When the file is there the
\* request is refused and nothing changes.
d2char_create(a) ==
  /\ op = NULL /\ save = NULL
  /\ op' = [kind |-> "create", acct |-> a, step |-> "info"]
  /\ Recorded("gap", Missing /\ task.kind = "charsave")
  /\ UNCHANGED <<save, bak, info, d2dbs, sess, made, chosen>>

\* file_write(infofile), or its failure, after which the file is removed.
file_write_info ==
  /\ Doing("create", "info")
  /\ \/ info' = info \cup {op.acct} /\ op' = [op EXCEPT !.step = "save"]
     \/ info' = info \ {op.acct} /\ op' = NULL
  /\ UNCHANGED <<save, bak, chosen, d2dbs, sess, made, mishaps>>

\* file_write(savefile); after a failure both files are removed.
file_write_save ==
  /\ Doing("create", "save") /\ made < MaxVer
  /\ op' = NULL
  /\ \/ /\ save' = [owner |-> op.acct, ver |-> made + 1]
        /\ made' = made + 1
        /\ UNCHANGED info
     \/ save' = NULL /\ info' = info \ {op.acct} /\ UNCHANGED made
  /\ UNCHANGED <<bak, chosen, d2dbs, sess, mishaps>>

-----------------------------------------------------------------------------
(* d2cs deletes a character                                                *)

\* on_client_deletecharreq and d2char_delete, up to the removal of the info
\* file; when there is none, or it cannot be removed, the request fails and
\* nothing changes.  The connection that deletes forgets the character,
\* another one of the account does not; the multi-login check, which should
\* refuse this, finds no other connection (RealmLogin).
d2char_delete(a) ==
  /\ op = NULL /\ a \in info
  /\ info' = info \ {a}
  /\ op' = [kind |-> "delete", acct |-> a, step |-> "save"]
  /\ chosen' \in {chosen, chosen \ {a}}
  /\ Recorded("in_play", InPlay(a))
  /\ UNCHANGED <<save, bak, d2dbs, sess, made>>

\* remove(savefile): a failure is only logged.
remove_save ==
  /\ Doing("delete", "save")
  /\ op' = [op EXCEPT !.step = "bak"]
  /\ save' \in {save, NULL}
  /\ Recorded("half", save' # NULL)
  /\ UNCHANGED <<bak, info, chosen, d2dbs, sess, made>>

\* The backups, if they are there; a failure is only logged.  (The backup of
\* the info file, which nothing reads, is left out.)
remove_bak ==
  /\ Doing("delete", "bak")
  /\ op' = NULL
  /\ bak' \in {bak, NULL}
  /\ UNCHANGED <<save, info, chosen, d2dbs, sess, made, mishaps>>

-----------------------------------------------------------------------------
(* d2cs: choosing the character, and the end of the process                *)

\* on_client_charloginreq loads the info file.
on_client_charloginreq(a) ==
  /\ op = NULL /\ a \in info /\ a \notin chosen
  /\ chosen' = chosen \cup {a}
  /\ UNCHANGED <<save, bak, info, op, d2dbs, sess, made, mishaps>>

\* d2cs_conn_destroy of the last connection that has it.
d2cs_conn_destroy(a) ==
  /\ op = NULL /\ a \in chosen
  /\ chosen' = chosen \ {a}
  /\ UNCHANGED <<save, bak, info, op, d2dbs, sess, made, mishaps>>

\* d2cs ends, between two requests or in the middle of one, and is started
\* again.
d2cs_restart ==
  /\ op # NULL \/ chosen # {}
  /\ op' = NULL /\ chosen' = {}
  /\ Recorded("half", op # NULL /\ op.step = "save")
  /\ UNCHANGED <<save, bak, info, d2dbs, sess, made>>

-----------------------------------------------------------------------------
(* d2dbs loads, saves and releases a character                             *)

\* A game server has been told by d2cs that the player comes, and asks for
\* the character.
Asks(g, a) == task = NULL /\ a \in chosen /\ sess[g] = NULL /\ made < MaxVer

Loaded(g, a) ==
  /\ save # NULL /\ a \in info
  /\ lock' = g
  /\ sess' = [sess EXCEPT ![g] = [acct |-> a, char |-> [save EXCEPT !.ver = made + 1]]]
  /\ made' = made + 1

\* A file is missing or the reply does not fit: the lock may stay (Dbs).
NotLoaded(g) == lock' \in {NULL, g} /\ UNCHANGED <<sess, made>>

\* Fault: a locked character is given out.
GetdataUnlocked(g, a) ==
  /\ Asks(g, a)
  /\ Loaded(g, a) \/ NotLoaded(g)
  /\ UNCHANGED <<save, bak, info, d2cs, task, mishaps>>

\* dbs_packet_getdata (datatype charsave); a locked character is refused.
dbs_packet_getdata(g, a) ==
  /\ Asks(g, a) /\ lock = NULL
  /\ Loaded(g, a) \/ NotLoaded(g)
  /\ UNCHANGED <<save, bak, info, d2cs, task, mishaps>>

\* dbs_packet_savedata does not look at the lock.  The temporary file has
\* been written; when that fails nothing changes.
dbs_packet_savedata(g, kind) ==
  /\ task = NULL /\ sess[g] # NULL
  /\ task' = [kind |-> kind, acct |-> sess[g].acct, char |-> sess[g].char, step |-> "backup"]
  /\ UNCHANGED <<save, bak, info, d2cs, lock, sess, made, mishaps>>

\* p_rename(savefile, bakfile), or its failure, which is only logged.
rename_bak ==
  /\ task # NULL /\ task.step = "backup"
  /\ task' = [task EXCEPT !.step = "commit"]
  /\ \/ /\ task.kind = "charsave" /\ save # NULL
        /\ bak' = save /\ save' = NULL /\ UNCHANGED info
     \/ task.kind = "charinfo" /\ info' = info \ {task.acct} /\ UNCHANGED <<save, bak>>
     \/ UNCHANGED <<save, bak, info>>
  /\ UNCHANGED <<d2cs, lock, sess, made, mishaps>>

\* p_rename(filename, savefile), or its failure.
rename_save ==
  /\ task # NULL /\ task.step = "commit"
  /\ task' = NULL
  /\ \/ /\ IF task.kind = "charsave"
           THEN save' = task.char /\ UNCHANGED info
           ELSE info' = info \cup {task.acct} /\ UNCHANGED save
        /\ UNCHANGED mishaps
     \/ Recorded("unsaved", Missing) /\ UNCHANGED <<save, info>>
  /\ UNCHANGED <<bak, d2cs, lock, sess, made>>

\* dbs_packet_charlock when the character leaves its game.
dbs_packet_charlock(g) ==
  /\ task = NULL /\ sess[g] # NULL
  /\ sess' = [sess EXCEPT ![g] = NULL]
  /\ lock' = IF lock = g THEN NULL ELSE lock
  /\ UNCHANGED <<save, bak, info, d2cs, task, made, mishaps>>

\* The game server dies.
GsDies(g) ==
  /\ sess[g] # NULL
  /\ sess' = [sess EXCEPT ![g] = NULL]
  /\ UNCHANGED <<save, bak, info, d2cs, d2dbs, made, mishaps>>

\* d2dbs closes the connection of a game server, dead or only cut off, and
\* removes its locks; one that was cut off connects again.
dbs_server_shutdown_connection(g) ==
  /\ task = NULL /\ lock = g
  /\ lock' = NULL
  /\ Recorded("cut", sess[g] # NULL)
  /\ UNCHANGED <<save, bak, info, d2cs, task, sess, made>>

\* d2dbs ends and is started again, without any lock.
d2dbs_restart ==
  /\ task # NULL \/ lock # NULL
  /\ task' = NULL /\ lock' = NULL
  /\ mishaps' = mishaps \cup (IF Missing THEN {"unsaved"} ELSE {})
                        \cup (IF \E g \in Gs : sess[g] # NULL THEN {"cut"} ELSE {})
  /\ UNCHANGED <<save, bak, info, d2cs, sess, made>>

-----------------------------------------------------------------------------
\* No account has a character of the name yet.
Init ==
  /\ save = NULL /\ bak = NULL /\ info = {}
  /\ op = NULL /\ chosen = {}
  /\ task = NULL /\ lock = NULL
  /\ sess = [g \in Gs |-> NULL]
  /\ made = 0 /\ mishaps = {}

Next ==
  \/ \E a \in Account : \/ d2char_create(a) \/ d2char_delete(a)
                        \/ on_client_charloginreq(a) \/ d2cs_conn_destroy(a)
                        \/ \E g \in Gs : dbs_packet_getdata(g, a)
  \/ file_write_info \/ file_write_save \/ remove_save \/ remove_bak
  \/ \E g \in Gs : \/ \E kind \in {"charsave", "charinfo"} : dbs_packet_savedata(g, kind)
                   \/ dbs_packet_charlock(g) \/ GsDies(g)
                   \/ dbs_server_shutdown_connection(g)
  \/ rename_bak \/ rename_save
  \/ d2cs_restart \/ d2dbs_restart

Spec == Init /\ [][Next]_vars

-----------------------------------------------------------------------------
(* Properties                                                              *)

Spared(set) == mishaps \cap set = {}

\* A name belongs to one account: when both processes are idle, either there
\* are no files of the name, so that it can be given away, or one account has
\* the info file and the save file is its own.  Failing writes and renames,
\* refused requests, lost locks and every other interleaving of d2cs with
\* d2dbs do not break this; only the four mishaps named here do.
FilesMatch ==
  op = NULL /\ task = NULL /\ Spared({"gap", "in_play", "unsaved", "half"}) =>
    \/ info = {} /\ save = NULL
    \/ \E a \in Account : info = {a} /\ save # NULL /\ save.owner = a

\* A save never undoes a later session: what stands in the save file is not
\* older than what stands in the backup, although saves are accepted without
\* a lock (dbs_packet_savedata).  For this a game server must not keep the
\* character when it loses its lock either.
NewestKept ==
  Spared(Mishap) /\ save # NULL /\ bak # NULL => save.ver >= bak.ver
=============================================================================
