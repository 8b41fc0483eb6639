------------------------------ MODULE CharSave ------------------------------
(***************************************************************************)
(* How d2dbs stores one character (src/src/d2dbs/dbspacket.cpp): the save   *)
(* file and the info (portrait) file, each written to a temporary file      *)
(* that is renamed after the old one was renamed to the backup directory.   *)
(*                                                                         *)
(* Every call to the file system is a step of its own and may fail; the    *)
(* process may crash between any two steps and is started again.  Files    *)
(* outlive a crash of the process (a crash of the machine, which may lose  *)
(* what was never synced, is not modelled).  Contents are versions: a game *)
(* server numbers the saves it sends.                                      *)
(***************************************************************************)
EXTENDS Integers

CONSTANTS
  MaxVer,   \* bound: saves a game server sends
  Flush,    \* the outcomes of fclose: is what fwrite buffered on disk?
  NULL

VARIABLES
  file,     \* what each file holds: NULL if there is none
  task,     \* the save request in progress, NULL between requests
  held,     \* has a game server got the character?
  sent,     \* the last version a game server sent
  acked     \* the last version the reply D2DBS_SAVE_DATA_SUCCESS was about

vars == <<file, task, held, sent, acked>>

Kind == {"charsave", "charinfo"}

\* The file itself, the one in the backup directory, .NAME.tmp, and NAME.d2s,
\* the copy of a single-player character put there by hand.
Slot == {"final", "bak", "tmp", "d2s"}

Content == [ver : 0..MaxVer, whole : BOOLEAN]

ASSUME CharSaveAssumption ==
  MaxVer \in Nat /\ Flush \in SUBSET BOOLEAN /\ NULL \notin Content

-----------------------------------------------------------------------------
(* Loading                                                                 *)

\* dbs_packet_getdata_charsave: a missing save file is replaced by the .d2s
\* file; the result of that rename is not looked at.  The backup is not read.
dbs_packet_getdata_charsave ==
  /\ task = NULL
  /\ \/ file["charsave"]["final"] # NULL /\ UNCHANGED file
     \/ /\ file["charsave"]["final"] = NULL /\ file["charsave"]["d2s"] # NULL
        /\ file' = [file EXCEPT !["charsave"]["final"] = file["charsave"]["d2s"],
                                !["charsave"]["d2s"] = NULL]
  /\ held' = TRUE
  /\ UNCHANGED <<task, sent, acked>>

-----------------------------------------------------------------------------
(* Saving                                                                  *)

\* dbs_packet_savedata for a character in play.  high: the charinfo has to be
\* brought up to date with the save (difficulty_hack, level above 99).
dbs_packet_savedata(kind, high) ==
  /\ task = NULL /\ held /\ sent < MaxVer
  /\ task' = [step |-> "fopen", request |-> kind, high |-> high, ver |-> sent + 1,
              kind |-> kind, sound |-> TRUE]
  /\ sent' = sent + 1
  /\ UNCHANGED <<file, held, acked>>

At(step) == task # NULL /\ task.step = step
Goto(step) == task' = [task EXCEPT !.step = step]

\* A failing call: the request is answered D2DBS_SAVE_DATA_FAILED.
Fails == Goto("failed") /\ UNCHANGED <<file, held, sent, acked>>

\* Fault: the file is written in place.
OpenInPlace ==
  \/ /\ At("fopen")
     /\ file' = [file EXCEPT ![task.kind]["final"] = [ver |-> task.ver, whole |-> FALSE]]
     /\ Goto("fwrite")
     /\ UNCHANGED <<held, sent, acked>>
  \/ At("fopen") /\ Fails

\* fopen(.NAME.tmp, "wb") truncates what an earlier attempt left.  A wrong
\* checksum (charsave) ends the request here too, before any file is touched.
fopen ==
  \/ /\ At("fopen")
     /\ file' = [file EXCEPT ![task.kind]["tmp"] = [ver |-> task.ver, whole |-> FALSE]]
     /\ Goto("fwrite")
     /\ UNCHANGED <<held, sent, acked>>
  \/ At("fopen") /\ Fails

\* The loop around fwrite: all of it is accepted, or the temporary file stays
\* as it is.
fwrite ==
  /\ At("fwrite")
  /\ Goto("fclose") \/ Goto("failed")
  /\ UNCHANGED <<file, held, sent, acked>>

\* The result of fclose is not looked at.
fclose ==
  /\ At("fclose")
  /\ \E flushed \in Flush :
       file' = [file EXCEPT ![task.kind]["tmp"] =
                              [ver |-> task.ver, whole |-> flushed /\ task.sound]]
  /\ Goto("backup")
  /\ UNCHANGED <<held, sent, acked>>

\* Fault: a file that cannot be renamed is removed, to make place.
BackupOrRemove ==
  /\ At("backup")
  /\ Goto("commit")
  /\ \E ok \in BOOLEAN :
       file' = [file EXCEPT ![task.kind]["bak"] = IF ok THEN file[task.kind]["final"] ELSE @,
                            ![task.kind]["final"] = NULL]
  /\ UNCHANGED <<held, sent, acked>>

\* p_rename(savefile, bakfile): there may be no file, or no way to rename it
\* (another file system); that is only logged.
rename_bak ==
  /\ At("backup")
  /\ Goto("commit")
  /\ \/ /\ file[task.kind]["final"] # NULL
        /\ file' = [file EXCEPT ![task.kind]["bak"] = file[task.kind]["final"],
                                ![task.kind]["final"] = NULL]
     \/ UNCHANGED file
  /\ UNCHANGED <<held, sent, acked>>

\* Fault: that this rename fails is only logged too.
CommitUnchecked ==
  /\ At("commit")
  /\ \/ file' = [file EXCEPT ![task.kind]["final"] = file[task.kind]["tmp"],
                             ![task.kind]["tmp"] = NULL]
     \/ UNCHANGED file
  /\ Goto("done")
  /\ UNCHANGED <<held, sent, acked>>

\* p_rename(filename, savefile).
rename_save ==
  \/ /\ At("commit")
     /\ file' = [file EXCEPT ![task.kind]["final"] = file[task.kind]["tmp"],
                             ![task.kind]["tmp"] = NULL]
     /\ Goto(IF task.kind = "charsave" /\ task.high THEN "fix" ELSE "done")
     /\ UNCHANGED <<held, sent, acked>>
  \/ At("commit") /\ Fails

\* dbs_packet_fix_charinfo reads the charinfo, whatever its length, and
\* stores it again with the level and status of the save.
dbs_packet_fix_charinfo ==
  /\ At("fix")
  /\ \/ /\ file["charinfo"]["final"] # NULL
        /\ task' = [task EXCEPT !.step = "fopen", !.kind = "charinfo",
                                !.sound = file["charinfo"]["final"].whole]
     \/ Goto("failed")
  /\ UNCHANGED <<file, held, sent, acked>>

\* The reply; without room for it in the write buffer the request is handled
\* again from the start, though it was carried out.
Reply ==
  /\ At("done") \/ At("failed")
  /\ task' = NULL
  /\ acked' = IF At("done") THEN [acked EXCEPT ![task.request] = task.ver] ELSE acked
  /\ UNCHANGED <<file, held, sent>>
Redo ==
  /\ At("done") \/ At("failed")
  /\ task' = [task EXCEPT !.step = "fopen", !.kind = task.request, !.sound = TRUE]
  /\ UNCHANGED <<file, held, sent, acked>>

\* The process ends between two steps.
Crash ==
  /\ task # NULL
  /\ task' = NULL
  /\ UNCHANGED <<file, held, sent, acked>>

-----------------------------------------------------------------------------
Stored == [ver |-> 0, whole |-> TRUE]

\* A character that d2cs created, or one imported by hand.
Init ==
  /\ \E save \in {"final", "d2s"} :
       file = [k \in Kind |-> [s \in Slot |->
                 IF s = (IF k = "charsave" THEN save ELSE "final") THEN Stored ELSE NULL]]
  /\ task = NULL /\ held = FALSE /\ sent = 0
  /\ acked = [k \in Kind |-> 0]

Next ==
  \/ dbs_packet_getdata_charsave
  \/ \E kind \in Kind, high \in BOOLEAN : dbs_packet_savedata(kind, high)
  \/ fopen \/ fwrite \/ fclose \/ rename_bak \/ rename_save
  \/ dbs_packet_fix_charinfo
  \/ Reply \/ Redo \/ Crash

Spec == Init /\ [][Next]_vars

-----------------------------------------------------------------------------
(* Properties                                                              *)

Task == [step : {"fopen", "fwrite", "fclose", "backup", "commit", "fix", "done", "failed"},
         request : Kind, high : BOOLEAN, ver : 0..MaxVer, kind : Kind, sound : BOOLEAN]

\* Types.
TypeOK ==
  /\ file \in [Kind -> [Slot -> Content \cup {NULL}]]
  /\ task \in Task \cup {NULL}
  /\ held \in BOOLEAN
  /\ sent \in 0..MaxVer
  /\ acked \in [Kind -> 0..MaxVer]

\* A save that was acknowledged is never lost, whichever calls fail and
\* wherever the process crashes: that version, or a later one, is whole in its
\* place or in the backup directory (or, if nothing was saved yet, the
\* imported file is there).
Recoverable ==
  \A k \in Kind : \E s \in Slot \ {"tmp"} :
    file[k][s] # NULL /\ file[k][s].whole /\ file[k][s].ver >= acked[k]

\* src/src/d2dbs/README.md, "Atomic Operations": "Prevents partial saves from
\* corrupting character files".
NoPartialSave ==
  \A k \in Kind : \A s \in {"final", "bak"} : file[k][s] # NULL => file[k][s].whole

\* A game server is never given an older character than the one whose save
\* was last acknowledged.
NoRollback ==
  \A k \in Kind : file[k]["final"] # NULL => file[k]["final"].ver >= acked[k]
=============================================================================
