--------------------------- MODULE CharSaveProofs ---------------------------
(***************************************************************************)
(* Proofs about the storage of characters, for any number of saves: if     *)
(* fclose does what its caller takes for granted, an acknowledged save is   *)
(* never lost, and no file is ever partial or older than the last reply.    *)
(***************************************************************************)
EXTENDS CharSave, TLAPS

\* The imported file is there until the character is first loaded, and nothing
\* is saved before.
Imported ==
  /\ file["charsave"]["d2s"] # NULL => ~held /\ file["charsave"]["final"] = NULL
  /\ file["charinfo"]["d2s"] = NULL
  /\ ~held => task = NULL /\ sent = 0
  /\ \A k \in Kind : acked[k] <= sent

\* Every file but the temporary ones is whole.
AllWhole ==
  \A k \in Kind, s \in Slot \ {"tmp"} : file[k][s] # NULL => file[k][s].whole = TRUE

\* What the request in progress has done: its data is whole in the
\* temporary file from fclose on, and in its place from the second rename
\* on, where it stays while the charinfo is brought up to date.
Progress ==
  task # NULL =>
    /\ task.ver = sent /\ task.sound = TRUE
    /\ task.request = "charinfo" => task.kind = "charinfo"
    /\ task.step = "fix" => task.kind = "charsave"
    /\ task.step \in {"backup", "commit"} =>
         file[task.kind]["tmp"] = [ver |-> task.ver, whole |-> TRUE]
    /\ (task.step \in {"fix", "done"} \/ task.kind # task.request) =>
         file[task.request]["final"] = [ver |-> task.ver, whole |-> TRUE]

\* The inductive invariant.
Inv == TypeOK /\ Imported /\ AllWhole /\ Progress /\ NoRollback /\ Recoverable

-----------------------------------------------------------------------------
\* The invariant holds of a character that was created or imported.
LEMMA InitInv == Init => Inv
<1> SUFFICES ASSUME Init PROVE Inv
  OBVIOUS
<1> USE CharSaveAssumption
<1>0. 0 \in 0..MaxVer
  OBVIOUS
<1>1. Stored \in Content /\ Stored # NULL /\ Stored.ver = 0 /\ Stored.whole = TRUE
  <2>1. Stored \in Content
    BY <1>0 DEF Stored, Content
  <2>2. Stored # NULL
    BY <2>1
  <2> QED
    BY <2>1, <2>2 DEF Stored
<1>2. PICK save \in {"final", "d2s"} : \A k \in Kind, s \in Slot :
        file[k][s] = IF s = (IF k = "charsave" THEN save ELSE "final") THEN Stored ELSE NULL
  BY DEF Init
<1>3. TypeOK
  <2>1. file \in [Kind -> [Slot -> Content \cup {NULL}]]
    BY <1>1 DEF Init
  <2> QED
    BY <1>0, <2>1 DEF Init, TypeOK
<1>4. Imported /\ Progress
  BY <1>2 DEF Init, Imported, Progress, Kind, Slot
<1>5. AllWhole /\ NoRollback
  BY <1>1, <1>2 DEF Init, AllWhole, NoRollback, Kind, Slot
<1>6. Recoverable
  <2>1. /\ file["charsave"][save] = Stored /\ file["charinfo"]["final"] = Stored
        /\ acked["charsave"] = 0 /\ acked["charinfo"] = 0
    BY <1>2 DEF Init, Kind, Slot
  <2> QED
    BY <1>1, <2>1 DEF Recoverable, Kind, Slot
<1> QED
  BY <1>3, <1>4, <1>5, <1>6 DEF Inv

\* Steps that change no file.
LEMMA SameFiles ==
  ASSUME Inv, UNCHANGED file, TypeOK', Imported', Progress',
         \A k \in Kind : acked'[k] = acked[k] \/ file[k]["final"] = [ver |-> acked'[k], whole |-> TRUE]
  PROVE  Inv'
<1> USE CharSaveAssumption
<1>1. AllWhole'
  BY DEF Inv, AllWhole
<1>2. ASSUME NEW k \in Kind, file[k]["final"] = [ver |-> acked'[k], whole |-> TRUE]
      PROVE  /\ file[k]["final"] # NULL /\ file[k]["final"].whole
             /\ file[k]["final"].ver = acked'[k] /\ acked'[k] >= acked'[k]
  <2>1. acked'[k] \in 0..MaxVer
    BY DEF TypeOK
  <2>2. [ver |-> acked'[k], whole |-> TRUE] \in Content
    BY <2>1 DEF Content
  <2>3. file[k]["final"] # NULL
    BY <1>2, <2>2
  <2>4. file[k]["final"].whole = TRUE /\ file[k]["final"].ver = acked'[k]
    BY <1>2
  <2> QED
    BY <2>1, <2>3, <2>4
<1>3. NoRollback'
  BY <1>2 DEF Inv, NoRollback
<1>4. Recoverable'
  BY <1>2 DEF Inv, Recoverable, Slot
<1> QED
  BY <1>1, <1>3, <1>4 DEF Inv

\* Steps that write the temporary file.
LEMMA TmpOnly ==
  ASSUME Inv, UNCHANGED <<acked, sent, held>>, TypeOK', Progress', task # NULL,
         \A k \in Kind, s \in Slot \ {"tmp"} : file'[k][s] = file[k][s]
  PROVE  Inv'
<1>1. Imported'
  BY DEF Inv, Imported, Kind, Slot
<1>2. AllWhole'
  BY DEF Inv, AllWhole
<1>3. NoRollback'
  BY DEF Inv, NoRollback, Slot
<1>4. Recoverable'
  BY DEF Inv, Recoverable
<1> QED
  BY <1>1, <1>2, <1>3, <1>4 DEF Inv

\* A failing call.
LEMMA FailsInv ==
  ASSUME Inv, task # NULL, Goto("failed"), UNCHANGED <<file, held, sent, acked>>
  PROVE  Inv'
<1>1. task \in Task /\ task' = [task EXCEPT !.step = "failed"]
  BY DEF Inv, TypeOK, Goto
<1>2. /\ task' \in Task /\ task'.step = "failed" /\ task'.kind = task.kind
      /\ task'.ver = task.ver /\ task'.request = task.request /\ task'.sound = task.sound
  BY <1>1 DEF Task
<1>3. TypeOK'
  BY <1>2 DEF Inv, TypeOK
<1>4. Imported'
  BY DEF Inv, Imported
<1>5. Progress'
  BY <1>2 DEF Inv, Progress
<1> QED
  BY <1>3, <1>4, <1>5, SameFiles

\* All data was written.
LEMMA FwriteInv ==
  ASSUME Inv, task # NULL, UNCHANGED <<file, held, sent, acked>>,
         task.step = "fwrite", Goto("fclose")
  PROVE  Inv'
<1>1. task \in Task /\ task' = [task EXCEPT !.step = "fclose"]
  BY DEF Inv, TypeOK, Goto
<1>2. /\ task' \in Task /\ task'.step = "fclose" /\ task'.kind = task.kind
      /\ task'.ver = task.ver /\ task'.request = task.request /\ task'.sound = task.sound
  BY <1>1 DEF Task
<1>3. TypeOK'
  BY <1>2 DEF Inv, TypeOK
<1>4. Imported'
  BY DEF Inv, Imported
<1>5. Progress'
  BY <1>2 DEF Inv, Progress
<1> QED
  BY <1>3, <1>4, <1>5, SameFiles

\* One file is given a new content.
LEMMA Put ==
  ASSUME NEW k \in Kind, NEW s \in Slot, NEW C, NEW f \in [Kind -> [Slot -> C]], NEW v \in C
  PROVE  /\ [f EXCEPT ![k][s] = v] \in [Kind -> [Slot -> C]]
         /\ [f EXCEPT ![k][s] = v][k][s] = v
         /\ \A j \in Kind, t \in Slot : (j # k \/ t # s) => [f EXCEPT ![k][s] = v][j][t] = f[j][t]
OBVIOUS

\* The data of the request is a content.
LEMMA DataType ==
  ASSUME TypeOK, task # NULL, NEW b \in BOOLEAN
  PROVE  /\ [ver |-> task.ver, whole |-> b] \in Content \cup {NULL}
         /\ [ver |-> task.ver, whole |-> b] # NULL
<1>1. task \in Task
  BY DEF TypeOK
<1>2. task.ver \in 0..MaxVer
  BY <1>1 DEF Task
<1>3. [ver |-> task.ver, whole |-> b] \in Content
  BY <1>2 DEF Content
<1> QED
  BY <1>3, CharSaveAssumption

\* fopen and fclose touch the temporary file only.
LEMMA WriteTmp ==
  ASSUME Inv, task # NULL, task.step \in {"fopen", "fclose"},
         NEW b \in BOOLEAN, NEW step, UNCHANGED <<held, sent, acked>>,
         (step = "fwrite" /\ b = FALSE) \/ (step = "backup" /\ b = TRUE),
         Goto(step), file' = [file EXCEPT ![task.kind]["tmp"] = [ver |-> task.ver, whole |-> b]]
  PROVE  Inv'
<1>1. task \in Task /\ task.kind \in Kind /\ task.request \in Kind
  BY DEF Inv, TypeOK, Task
<1>2. /\ task' \in Task /\ task'.step = step /\ task'.kind = task.kind
      /\ task'.ver = task.ver /\ task'.request = task.request /\ task'.sound = task.sound
  BY <1>1 DEF Task, Goto
<1> DEFINE new == [ver |-> task.ver, whole |-> b]
           C == Content \cup {NULL}
<1>3. new \in C
  BY DataType DEF Inv
<1>4. file \in [Kind -> [Slot -> C]] /\ "tmp" \in Slot /\ "final" \in Slot /\ "final" # "tmp"
  BY DEF Inv, TypeOK, Slot
<1>5. file' = [file EXCEPT ![task.kind]["tmp"] = new]
  OBVIOUS
<1> HIDE DEF new, C
<1>6. /\ file' \in [Kind -> [Slot -> C]]
      /\ file'[task.kind]["tmp"] = new
      /\ \A k \in Kind, s \in Slot \ {"tmp"} : file'[k][s] = file[k][s]
  BY <1>1, <1>3, <1>4, <1>5, Put
<1>7. TypeOK'
  BY <1>2, <1>6 DEF Inv, TypeOK, C
<1>8. Progress'
  <2>1. file'[task.request]["final"] = file[task.request]["final"]
    BY <1>1, <1>4, <1>6
  <2>2. step = "backup" => file'[task'.kind]["tmp"] = [ver |-> task'.ver, whole |-> TRUE]
    BY <1>2, <1>6 DEF new
  <2> QED
    BY <1>1, <1>2, <2>1, <2>2 DEF Inv, Progress
<1> QED
  BY <1>6, <1>7, <1>8, TmpOnly

\* The first rename: the file moves to the backup directory, still whole and
\* no older than the last reply.
LEMMA BackupInv ==
  ASSUME Inv, rename_bak
  PROVE  Inv'
<1>1. /\ task # NULL /\ task \in Task /\ task.kind \in Kind /\ task.request \in Kind
      /\ task.step = "backup"
  BY DEF Inv, TypeOK, Task, rename_bak, At
<1>2. /\ task' \in Task /\ task'.step = "commit" /\ task'.kind = task.kind
      /\ task'.ver = task.ver /\ task'.request = task.request /\ task'.sound = task.sound
  BY <1>1 DEF Task, Goto, rename_bak
<1>3. CASE UNCHANGED file
  <2>1. TypeOK'
    BY <1>2, <1>3 DEF Inv, TypeOK, rename_bak
  <2>2. Imported' /\ Progress'
    BY <1>1, <1>2, <1>3 DEF Inv, Imported, Progress, rename_bak
  <2> QED
    BY <1>3, <2>1, <2>2, SameFiles DEF rename_bak
<1>4. CASE /\ file[task.kind]["final"] # NULL
           /\ file' = [file EXCEPT ![task.kind]["bak"] = file[task.kind]["final"],
                                   ![task.kind]["final"] = NULL]
  <2> DEFINE C == Content \cup {NULL}
             old == file[task.kind]["final"]
             f == [file EXCEPT ![task.kind]["bak"] = old]
  <2>1. /\ file \in [Kind -> [Slot -> C]] /\ "bak" \in Slot /\ "final" \in Slot /\ "tmp" \in Slot
        /\ "bak" # "final" /\ "bak" # "tmp" /\ "final" # "tmp" /\ NULL \in C
    BY DEF Inv, TypeOK, Slot
  <2>2. old \in C
    BY <1>1, <2>1
  <2>3. file' = [f EXCEPT ![task.kind]["final"] = NULL]
    BY <1>4
  <2> HIDE DEF C, f
  <2>4. /\ f \in [Kind -> [Slot -> C]] /\ f[task.kind]["bak"] = old
        /\ \A k \in Kind, s \in Slot : (k # task.kind \/ s # "bak") => f[k][s] = file[k][s]
    BY <1>1, <2>1, <2>2, Put DEF f
  <2>5. /\ file' \in [Kind -> [Slot -> C]] /\ file'[task.kind]["final"] = NULL
        /\ \A k \in Kind, s \in Slot : (k # task.kind \/ s # "final") => file'[k][s] = f[k][s]
    BY <1>1, <2>1, <2>3, <2>4, Put
  <2>6. /\ file'[task.kind]["bak"] = file[task.kind]["final"]
        /\ \A k \in Kind, s \in Slot :
             (k # task.kind \/ s \notin {"final", "bak"}) => file'[k][s] = file[k][s]
    BY <1>1, <2>1, <2>4, <2>5
  <2>7. TypeOK'
    BY <1>2, <2>5 DEF Inv, TypeOK, C, rename_bak
  <2>8. AllWhole'
    BY <1>1, <2>1, <2>5, <2>6 DEF Inv, AllWhole, Slot
  <2>9. NoRollback'
    BY <1>1, <2>1, <2>5, <2>6 DEF Inv, NoRollback, rename_bak
  <2>10. Recoverable'
    <3> SUFFICES ASSUME NEW k \in Kind
                 PROVE  \E s \in Slot \ {"tmp"} : /\ file'[k][s] # NULL /\ file'[k][s].whole
                                                  /\ file'[k][s].ver >= acked'[k]
      BY DEF Recoverable
    <3>1. CASE k = task.kind
      <4>1. old.whole /\ old.ver >= acked[k] /\ old # NULL
        BY <1>4, <2>1, <3>1 DEF Inv, AllWhole, NoRollback
      <4> QED
        BY <2>1, <2>6, <3>1, <4>1 DEF rename_bak
    <3>2. CASE k # task.kind
      <4>1. PICK s \in Slot \ {"tmp"} : file[k][s] # NULL /\ file[k][s].whole /\ file[k][s].ver >= acked[k]
        BY DEF Inv, Recoverable
      <4> QED
        BY <2>6, <3>2, <4>1 DEF rename_bak
    <3> QED
      BY <3>1, <3>2
  <2>11. Imported'
    <3>1. "charsave" \in Kind /\ "charinfo" \in Kind /\ "d2s" \in Slot
      BY DEF Kind, Slot
    <3>2. file'["charsave"]["d2s"] = file["charsave"]["d2s"] /\ file'["charinfo"]["d2s"] = file["charinfo"]["d2s"]
      BY <2>6, <3>1
    <3>3. held /\ held' = held /\ sent' = sent /\ acked' = acked
      BY <1>1 DEF Inv, Imported, rename_bak
    <3> QED
      BY <3>2, <3>3 DEF Inv, Imported
  <2>12. Progress'
    <3>1. file'[task.kind]["tmp"] = file[task.kind]["tmp"]
      BY <1>1, <2>1, <2>6
    <3>2. task.kind # task.request => file'[task.request]["final"] = file[task.request]["final"]
      BY <1>1, <2>1, <2>6
    <3> QED
      BY <1>1, <1>2, <3>1, <3>2 DEF Inv, Progress, rename_bak
  <2> QED
    BY <2>7, <2>8, <2>9, <2>10, <2>11, <2>12 DEF Inv
<1> QED
  BY <1>3, <1>4 DEF rename_bak

\* The second rename: the whole new file takes its place.
LEMMA CommitInv ==
  ASSUME Inv, rename_save
  PROVE  Inv'
<1>1. /\ task # NULL /\ task \in Task /\ task.kind \in Kind /\ task.request \in Kind
      /\ task.step = "commit"
  BY DEF Inv, TypeOK, Task, rename_save, At
<1>2. CASE Fails
  BY <1>1, <1>2, FailsInv DEF Fails
<1>3. CASE /\ file' = [file EXCEPT ![task.kind]["final"] = file[task.kind]["tmp"],
                                   ![task.kind]["tmp"] = NULL]
           /\ Goto(IF task.kind = "charsave" /\ task.high THEN "fix" ELSE "done")
           /\ UNCHANGED <<held, sent, acked>>
  <2> DEFINE C == Content \cup {NULL}
             new == file[task.kind]["tmp"]
             f == [file EXCEPT ![task.kind]["final"] = new]
             step == IF task.kind = "charsave" /\ task.high THEN "fix" ELSE "done"
  <2>1. /\ file \in [Kind -> [Slot -> C]] /\ "bak" \in Slot /\ "final" \in Slot /\ "tmp" \in Slot
        /\ "bak" # "final" /\ "bak" # "tmp" /\ "final" # "tmp" /\ NULL \in C
    BY DEF Inv, TypeOK, Slot
  <2>2. new \in C
    BY <1>1, <2>1
  <2>3. new = [ver |-> task.ver, whole |-> TRUE] /\ new # NULL
    BY <1>1, DataType DEF Inv, Progress
  <2>4. file' = [f EXCEPT ![task.kind]["tmp"] = NULL]
    BY <1>3
  <2>5. /\ task' \in Task /\ task'.step = step /\ task'.kind = task.kind
        /\ task'.ver = task.ver /\ task'.request = task.request /\ task'.sound = task.sound
    BY <1>1, <1>3 DEF Task, Goto
  <2>6. step \in {"fix", "done"} /\ (step = "fix" => task.kind = "charsave")
    OBVIOUS
  <2> HIDE DEF C, f, step
  <2>7. /\ f \in [Kind -> [Slot -> C]] /\ f[task.kind]["final"] = new
        /\ \A k \in Kind, s \in Slot : (k # task.kind \/ s # "final") => f[k][s] = file[k][s]
    BY <1>1, <2>1, <2>2, Put DEF f
  <2>8. /\ file' \in [Kind -> [Slot -> C]] /\ file'[task.kind]["tmp"] = NULL
        /\ \A k \in Kind, s \in Slot : (k # task.kind \/ s # "tmp") => file'[k][s] = f[k][s]
    BY <1>1, <2>1, <2>4, <2>7, Put
  <2> HIDE DEF new
  <2>9. /\ file'[task.kind]["final"] = new
        /\ \A k \in Kind, s \in Slot :
             (k # task.kind \/ s \notin {"final", "tmp"}) => file'[k][s] = file[k][s]
    BY <1>1, <2>1, <2>7, <2>8
  <2>10. TypeOK'
    BY <1>3, <2>5, <2>8 DEF Inv, TypeOK, C
  <2>11. new.whole = TRUE /\ new.ver = sent /\ \A k \in Kind : new.ver >= acked[k]
    <3>1. new.whole = TRUE /\ new.ver = task.ver
      BY <2>3
    <3>2. sent \in 0..MaxVer /\ \A k \in Kind : acked[k] \in 0..MaxVer /\ acked[k] <= sent
      BY DEF Inv, TypeOK, Imported
    <3> QED
      BY <1>1, <3>1, <3>2, CharSaveAssumption DEF Inv, Progress
  <2>12. AllWhole'
    BY <1>1, <2>1, <2>9, <2>11 DEF Inv, AllWhole, Slot
  <2>13. NoRollback'
    BY <1>1, <1>3, <2>1, <2>9, <2>11 DEF Inv, NoRollback
  <2>14. Recoverable'
    <3> SUFFICES ASSUME NEW k \in Kind
                 PROVE  \E s \in Slot \ {"tmp"} : /\ file'[k][s] # NULL /\ file'[k][s].whole
                                                  /\ file'[k][s].ver >= acked'[k]
      BY DEF Recoverable
    <3>1. CASE k = task.kind
      BY <1>3, <2>1, <2>3, <2>9, <2>11, <3>1
    <3>2. CASE k # task.kind
      <4>1. PICK s \in Slot \ {"tmp"} : file[k][s] # NULL /\ file[k][s].whole /\ file[k][s].ver >= acked[k]
        BY DEF Inv, Recoverable
      <4> QED
        BY <1>3, <2>9, <3>2, <4>1
    <3> QED
      BY <3>1, <3>2
  <2>15. Imported'
    <3>1. "charsave" \in Kind /\ "charinfo" \in Kind /\ "d2s" \in Slot
      BY DEF Kind, Slot
    <3>2. file'["charsave"]["d2s"] = file["charsave"]["d2s"] /\ file'["charinfo"]["d2s"] = file["charinfo"]["d2s"]
      BY <2>9, <3>1
    <3>3. held
      BY <1>1 DEF Inv, Imported
    <3> QED
      BY <1>3, <3>2, <3>3 DEF Inv, Imported
  <2>16. Progress'
    <3>1. file'[task.request]["final"] = [ver |-> task.ver, whole |-> TRUE]
      <4>1. CASE task.request = task.kind
        BY <2>3, <2>9, <4>1
      <4>2. CASE task.request # task.kind
        BY <1>1, <2>1, <2>9, <4>2 DEF Inv, Progress
      <4> QED
        BY <4>1, <4>2
    <3> QED
      BY <1>1, <1>3, <2>5, <2>6, <3>1 DEF Inv, Progress
  <2> QED
    BY <2>10, <2>12, <2>13, <2>14, <2>15, <2>16 DEF Inv
<1> QED
  BY <1>2, <1>3 DEF rename_save

\* Loading: the imported file becomes the save file, once.
LEMMA GetInv ==
  ASSUME Inv, dbs_packet_getdata_charsave
  PROVE  Inv'
<1>0. task = NULL /\ task' = NULL /\ held' = TRUE /\ sent' = sent /\ acked' = acked
  BY DEF dbs_packet_getdata_charsave
<1>1. CASE file["charsave"]["final"] # NULL /\ UNCHANGED file
  <2>1. TypeOK' /\ Imported' /\ Progress'
    BY <1>0, <1>1 DEF Inv, TypeOK, Imported, Progress
  <2> QED
    BY <1>0, <1>1, <2>1, SameFiles
<1>2. CASE /\ file["charsave"]["final"] = NULL /\ file["charsave"]["d2s"] # NULL
           /\ file' = [file EXCEPT !["charsave"]["final"] = file["charsave"]["d2s"],
                                   !["charsave"]["d2s"] = NULL]
  <2> DEFINE C == Content \cup {NULL}
             K == "charsave"
             old == file[K]["d2s"]
             f == [file EXCEPT ![K]["final"] = old]
  <2>1. /\ file \in [Kind -> [Slot -> C]] /\ "d2s" \in Slot /\ "final" \in Slot
        /\ "d2s" # "final" /\ "d2s" # "tmp" /\ NULL \in C /\ K \in Kind /\ "charinfo" \in Kind
        /\ "charinfo" # K /\ "final" # "tmp"
    BY DEF Inv, TypeOK, Slot, Kind
  <2>2. old \in C
    BY <2>1
  <2>3. file' = [f EXCEPT ![K]["d2s"] = NULL]
    BY <1>2
  <2>4. old # NULL /\ file["charinfo"]["d2s"] = NULL
    BY <1>2 DEF Inv, Imported
  <2>5. /\ f \in [Kind -> [Slot -> C]] /\ f[K]["final"] = old
        /\ \A k \in Kind, s \in Slot : (k # K \/ s # "final") => f[k][s] = file[k][s]
    <3> HIDE DEF C, K, old
    <3> QED
      BY <2>1, <2>2, Put DEF f
  <2>6. /\ file' \in [Kind -> [Slot -> C]] /\ file'[K]["d2s"] = NULL
        /\ \A k \in Kind, s \in Slot : (k # K \/ s # "d2s") => file'[k][s] = f[k][s]
    <3> HIDE DEF C, K, f
    <3> QED
      BY <2>1, <2>3, <2>5, Put
  <2>7. /\ file'[K]["final"] = old
        /\ \A k \in Kind, s \in Slot : (k # K \/ s \notin {"final", "d2s"}) => file'[k][s] = file[k][s]
    <3> HIDE DEF C, K, f, old
    <3> QED
      BY <2>1, <2>5, <2>6
  <2>8. TypeOK'
    BY <1>0, <2>6 DEF Inv, TypeOK
  <2>9. old.whole = TRUE /\ old.ver >= acked[K]
    <3>1. sent = 0 /\ acked[K] <= sent /\ acked[K] \in 0..MaxVer
      BY <2>1, <2>4 DEF Inv, Imported, TypeOK
    <3>2. old \in Content
      BY <2>2, <2>4
    <3>3. old.ver \in 0..MaxVer
      BY <3>2 DEF Content
    <3>4. old.whole = TRUE
      BY <2>1, <2>4 DEF Inv, AllWhole
    <3> QED
      BY <3>1, <3>3, <3>4, CharSaveAssumption
  <2> HIDE DEF C, K, f, old
  <2>10. AllWhole'
    BY <2>1, <2>6, <2>7, <2>9 DEF Inv, AllWhole
  <2>11. NoRollback'
    BY <1>0, <2>1, <2>7, <2>9 DEF Inv, NoRollback
  <2>12. Recoverable'
    <3> SUFFICES ASSUME NEW k \in Kind
                 PROVE  \E s \in Slot \ {"tmp"} : /\ file'[k][s] # NULL /\ file'[k][s].whole
                                                  /\ file'[k][s].ver >= acked'[k]
      BY DEF Recoverable
    <3>1. CASE k = K
      BY <1>0, <2>1, <2>4, <2>7, <2>9, <3>1
    <3>2. CASE k # K
      <4>1. PICK s \in Slot \ {"tmp"} : file[k][s] # NULL /\ file[k][s].whole /\ file[k][s].ver >= acked[k]
        BY DEF Inv, Recoverable
      <4> QED
        BY <1>0, <2>7, <3>2, <4>1
    <3> QED
      BY <3>1, <3>2
  <2>13. Imported' /\ Progress'
    <3>1. file'["charsave"]["d2s"] = NULL /\ file'["charinfo"]["d2s"] = NULL
      BY <2>1, <2>4, <2>6, <2>7 DEF K
    <3> QED
      BY <1>0, <3>1 DEF Inv, Imported, Progress
  <2> QED
    BY <2>8, <2>10, <2>11, <2>12, <2>13 DEF Inv
<1> QED
  BY <1>1, <1>2 DEF dbs_packet_getdata_charsave

\* A request begins, or begins again.
LEMMA BeginInv ==
  ASSUME Inv, held, UNCHANGED <<file, held, acked>>, sent' \in {sent, sent + 1},
         task' \in Task, task'.step = "fopen", task'.ver = sent', task'.sound = TRUE,
         task'.kind = task'.request
  PROVE  Inv'
<1>1. task'.ver \in 0..MaxVer
  BY DEF Task
<1>2. TypeOK'
  BY <1>1 DEF Inv, TypeOK
<1>3. Imported'
  <2>1. sent \in Int /\ sent <= sent' /\ \A k \in Kind : acked[k] \in Int
    BY CharSaveAssumption DEF Inv, TypeOK
  <2>2. \A k \in Kind : acked'[k] <= sent'
    BY <2>1, CharSaveAssumption DEF Inv, Imported
  <2> QED
    BY <2>2 DEF Inv, Imported
<1>4. Progress'
  BY DEF Progress
<1> QED
  BY <1>2, <1>3, <1>4, SameFiles

\* Every step preserves the invariant.
LEMMA NextInv ==
  ASSUME Flush = {TRUE}, Inv, [Next]_vars
  PROVE  Inv'
<1>1. ASSUME NEW kind \in Kind, NEW high \in BOOLEAN, dbs_packet_savedata(kind, high) PROVE Inv'
  <2>1. sent + 1 \in 0..MaxVer /\ sent' = sent + 1 /\ held /\ UNCHANGED <<file, held, acked>>
    BY <1>1, CharSaveAssumption DEF dbs_packet_savedata, Inv, TypeOK
  <2>2. task' = [step |-> "fopen", request |-> kind, high |-> high, ver |-> sent + 1,
                 kind |-> kind, sound |-> TRUE]
    BY <1>1 DEF dbs_packet_savedata
  <2>3. /\ task' \in Task /\ task'.step = "fopen" /\ task'.ver = sent' /\ task'.sound = TRUE
        /\ task'.kind = task'.request
    BY <2>1, <2>2 DEF Task
  <2> QED
    BY <2>1, <2>3, BeginInv
<1>2. CASE fopen
  <2>1. task # NULL /\ task.step = "fopen"
    BY <1>2 DEF fopen, At
  <2>2. CASE Fails
    BY <2>1, <2>2, FailsInv DEF Fails
  <2>3. CASE ~Fails
    BY <1>2, <2>1, <2>3, WriteTmp DEF fopen
  <2> QED
    BY <2>2, <2>3
<1>3. CASE fwrite
  <2>1. task # NULL /\ task.step = "fwrite" /\ UNCHANGED <<file, held, sent, acked>>
    BY <1>3 DEF fwrite, At
  <2> QED
    BY <1>3, <2>1, FailsInv, FwriteInv DEF fwrite
<1>4. CASE fclose
  <2>1. task # NULL /\ task.step = "fclose" /\ Goto("backup") /\ UNCHANGED <<held, sent, acked>>
    BY <1>4 DEF fclose, At
  <2>2. (TRUE /\ task.sound) = TRUE
    BY <2>1 DEF Inv, Progress
  <2>3. file' = [file EXCEPT ![task.kind]["tmp"] = [ver |-> task.ver, whole |-> TRUE]]
    BY <1>4, <2>2 DEF fclose
  <2> QED
    BY <2>1, <2>3, WriteTmp
<1>5. CASE dbs_packet_fix_charinfo
  <2>1. /\ task # NULL /\ task \in Task /\ task.step = "fix" /\ UNCHANGED <<file, held, sent, acked>>
        /\ task.kind = "charsave"
    BY <1>5 DEF dbs_packet_fix_charinfo, At, Inv, TypeOK, Progress
  <2>2. CASE Goto("failed")
    BY <2>1, <2>2, FailsInv
  <2>3. CASE /\ file["charinfo"]["final"] # NULL
             /\ task' = [task EXCEPT !.step = "fopen", !.kind = "charinfo",
                                     !.sound = file["charinfo"]["final"].whole]
    <3>1. file["charinfo"]["final"].whole = TRUE
      BY <2>3 DEF Inv, AllWhole, Kind, Slot
    <3>2. task' = [task EXCEPT !.step = "fopen", !.kind = "charinfo", !.sound = TRUE]
      BY <2>3, <3>1
    <3>3. /\ task' \in Task /\ task'.step = "fopen" /\ task'.kind = "charinfo"
          /\ task'.ver = task.ver /\ task'.request = task.request /\ task'.sound = TRUE
      BY <2>1, <3>2 DEF Task, Kind
    <3>4. TypeOK' /\ Imported'
      BY <2>1, <3>3 DEF Inv, TypeOK, Imported
    <3>5. Progress'
      BY <2>1, <3>3 DEF Inv, Progress
    <3> QED
      BY <2>1, <3>4, <3>5, SameFiles
  <2> QED
    BY <1>5, <2>2, <2>3 DEF dbs_packet_fix_charinfo
<1>6. CASE Reply
  <2>1. /\ task # NULL /\ task \in Task /\ task' = NULL /\ UNCHANGED <<file, held, sent>>
        /\ task.request \in Kind /\ task.ver \in 0..MaxVer /\ task.ver = sent
    BY <1>6 DEF Reply, At, Inv, TypeOK, Task, Progress
  <2>2. CASE UNCHANGED acked
    <3>1. TypeOK' /\ Imported' /\ Progress'
      BY <2>1, <2>2 DEF Inv, TypeOK, Imported, Progress
    <3> QED
      BY <2>1, <2>2, <3>1, SameFiles
  <2>3. CASE task.step = "done" /\ acked' = [acked EXCEPT ![task.request] = task.ver]
    <3>1. /\ acked' \in [Kind -> 0..MaxVer] /\ acked'[task.request] = task.ver
          /\ \A k \in Kind \ {task.request} : acked'[k] = acked[k]
      BY <2>1, <2>3 DEF Inv, TypeOK
    <3>2. file[task.request]["final"] = [ver |-> task.ver, whole |-> TRUE]
      BY <2>1, <2>3 DEF Inv, Progress
    <3>3. TypeOK' /\ Progress'
      BY <2>1, <3>1 DEF Inv, TypeOK, Progress
    <3>4. held /\ \A k \in Kind : acked'[k] <= sent
      BY <2>1, <3>1, CharSaveAssumption DEF Inv, Imported, TypeOK
    <3>5. Imported'
      BY <2>1, <3>4 DEF Inv, Imported
    <3> QED
      BY <2>1, <3>1, <3>2, <3>3, <3>5, SameFiles
  <2> QED
    BY <1>6, <2>2, <2>3 DEF Reply, At
<1>7. CASE Redo
  <2>1. /\ task # NULL /\ task \in Task /\ UNCHANGED <<file, held, sent, acked>> /\ held
        /\ task.ver = sent
        /\ task' = [task EXCEPT !.step = "fopen", !.kind = task.request, !.sound = TRUE]
    BY <1>7 DEF Redo, At, Inv, TypeOK, Imported, Progress
  <2>2. /\ task' \in Task /\ task'.step = "fopen" /\ task'.ver = task.ver /\ task'.sound = TRUE
        /\ task'.kind = task'.request
    BY <2>1 DEF Task
  <2> QED
    BY <2>1, <2>2, BeginInv
<1>8. CASE Crash \/ UNCHANGED vars
  <2>1. UNCHANGED <<file, held, sent, acked>> /\ task' \in {task, NULL}
    BY <1>8 DEF Crash, vars
  <2>2. TypeOK' /\ Imported' /\ Progress'
    BY <2>1 DEF Inv, TypeOK, Imported, Progress
  <2> QED
    BY <2>1, <2>2, SameFiles
<1> QED
  BY <1>1, <1>2, <1>3, <1>4, <1>5, <1>6, <1>7, <1>8, GetInv, BackupInv, CommitInv DEF Next

-----------------------------------------------------------------------------
(* Theorems                                                                *)

\* The inductive invariant holds in every reachable state.
THEOREM Invariance ==
  ASSUME Flush = {TRUE} PROVE Spec => []Inv
<1>1. Inv /\ [Next]_vars => Inv'
  BY NextInv
<1> QED
  BY <1>1, InitInv, PTL DEF Spec

\* An acknowledged save survives every failing call and every crash.
THEOREM Durability ==
  ASSUME Flush = {TRUE} PROVE Spec => []Recoverable
<1>1. Inv => Recoverable
  BY DEF Inv
<1> QED
  BY <1>1, Invariance, PTL

\* No character file or backup is ever partial.
THEOREM Atomicity ==
  ASSUME Flush = {TRUE} PROVE Spec => []NoPartialSave
<1>1. Inv => NoPartialSave
  BY DEF Inv, AllWhole, NoPartialSave, Slot
<1> QED
  BY <1>1, Invariance, PTL

\* What a game server loads is never older than the last acknowledged save.
THEOREM Monotonicity ==
  ASSUME Flush = {TRUE} PROVE Spec => []NoRollback
<1>1. Inv => NoRollback
  BY DEF Inv
<1> QED
  BY <1>1, Invariance, PTL
=============================================================================
