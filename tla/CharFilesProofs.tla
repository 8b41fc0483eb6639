-------------------------- MODULE CharFilesProofs ---------------------------
(***************************************************************************)
(* Proofs about the files of a character, for any number of accounts, game *)
(* servers and versions.                                                   *)
(***************************************************************************)
EXTENDS CharFiles, TLAPS

-----------------------------------------------------------------------------
(* The inductive invariants                                                *)

Maybe(S) == S \cup {NULL}

\* Types of the state.
TypeOK ==
  /\ save \in Maybe(Ver) /\ bak \in Maybe(Ver) /\ info \subseteq Account
  /\ op \in Maybe(Op) /\ chosen \subseteq Account
  /\ task \in Maybe(Task) /\ lock \in Maybe(Gs)
  /\ sess \in [Gs -> Maybe(Held)]
  /\ made \in 0..MaxVer /\ mishaps \subseteq Mishap

\* Nobody has chosen, plays or saves the character.
Idle == chosen = {} /\ task = NULL /\ \A g \in Gs : sess[g] = NULL

Absent == info = {} /\ save = NULL

\* The character is account a's: whoever plays or saves it does so as a, and
\* a file is missing only while d2dbs is about to put it in place.
Owned(a) ==
  /\ chosen \subseteq {a}
  /\ \A g \in Gs : sess[g] # NULL => sess[g].acct = a /\ sess[g].char.owner = a
  /\ task # NULL => task.acct = a /\ task.char.owner = a
  /\ info = {a} \/ (info = {} /\ task # NULL /\ task.step = "commit" /\ task.kind = "charinfo")
  /\ IF save = NULL THEN task # NULL /\ task.step = "commit" /\ task.kind = "charsave"
     ELSE save.owner = a

\* How far d2cs has come with a creation or a deletion.
Halfway ==
  /\ op.kind = "create" => save = NULL /\ \/ op.step = "info" /\ info = {}
                                          \/ op.step = "save" /\ info = {op.acct}
  /\ op.kind = "delete" => info = {} /\ \/ op.step = "save"
                                        \/ op.step = "bak" /\ save = NULL

Good == {"gap", "in_play", "unsaved", "half"}

\* The files belong together, or d2cs is at work on them and nobody else is.
FilesInv ==
  Spared(Good) =>
    \/ op = NULL /\ Idle /\ Absent
    \/ op = NULL /\ \E a \in Account : Owned(a)
    \/ op # NULL /\ Idle /\ Halfway

\* While no game server is cut off there is one session at most, under the
\* lock, and what it and a save in work hold is the newest version there is.
VersInv ==
  /\ save # NULL => save.ver <= made
  /\ bak # NULL => bak.ver <= made
  /\ task # NULL => task.char.ver <= made
  /\ \A g \in Gs : sess[g] # NULL => sess[g].char.ver <= made
  /\ Spared(Mishap) =>
       /\ \A g \in Gs : sess[g] # NULL =>
            /\ lock = g
            /\ save # NULL => save.ver <= sess[g].char.ver
            /\ bak # NULL => bak.ver <= sess[g].char.ver
            /\ task # NULL => task.char = sess[g].char
       /\ task # NULL => /\ save # NULL => save.ver <= task.char.ver
                         /\ bak # NULL => bak.ver <= task.char.ver
       /\ save # NULL /\ bak # NULL => bak.ver <= save.ver

Inv == TypeOK /\ FilesInv /\ VersInv

-----------------------------------------------------------------------------
(* Types                                                                   *)

\* Files, requests and sessions are told from their absence.
LEMMA Records ==
  /\ \A v \in Ver : v # NULL /\ v.owner \in Account /\ v.ver \in 1..MaxVer /\ v.ver \in Nat
  /\ \A o \in Op : o # NULL /\ o.acct \in Account
  /\ \A t \in Task : t # NULL /\ t.acct \in Account /\ t.char \in Ver
  /\ \A h \in Held : h # NULL /\ h.acct \in Account /\ h.char \in Ver
  /\ \A g \in Gs : g # NULL
BY CharFilesAssumption DEF Ver, Op, Task, Held

\* A mishap that is recorded stays.
LEMMA MishapsKept ==
  ASSUME NEW m, NEW b, Recorded(m, b)
  PROVE  mishaps' = (IF b THEN mishaps \cup {m} ELSE mishaps)
BY DEF Recorded

\* Initially there are no files.
LEMMA InitInv == Init => Inv
<1> SUFFICES ASSUME Init PROVE Inv
  OBVIOUS
<1>1. TypeOK
  BY CharFilesAssumption DEF Init, TypeOK, Maybe
<1>2. FilesInv /\ VersInv
  BY DEF Init, FilesInv, VersInv, Idle, Absent
<1> QED
  BY <1>1, <1>2 DEF Inv

\* Every step keeps the types.
LEMMA TypeStep == TypeOK /\ [Next]_vars => TypeOK'
<1> SUFFICES ASSUME TypeOK, [Next]_vars PROVE TypeOK'
  OBVIOUS
<1> USE DEF TypeOK, Maybe
<1>m. MaxVer \in Nat
  BY CharFilesAssumption
<1>r. \A m \in Mishap : \A b : Recorded(m, b) => mishaps' \subseteq Mishap
  BY DEF Recorded
<1>s. {"gap", "in_play", "unsaved", "half", "cut"} = Mishap
  BY DEF Mishap
<1>1. ASSUME NEW a \in Account, d2char_create(a) PROVE TypeOK'
  <2>1. [kind |-> "create", acct |-> a, step |-> "info"] \in Op
    BY DEF Op
  <2>2. mishaps' \subseteq Mishap
    BY <1>1, <1>r, <1>s DEF d2char_create
  <2> QED
    BY <1>1, <2>1, <2>2 DEF d2char_create, d2dbs
<1>2. ASSUME NEW a \in Account, d2char_delete(a) PROVE TypeOK'
  <2>1. [kind |-> "delete", acct |-> a, step |-> "save"] \in Op
    BY DEF Op
  <2>2. mishaps' \subseteq Mishap
    BY <1>2, <1>r, <1>s DEF d2char_delete
  <2> QED
    BY <1>2, <2>1, <2>2 DEF d2char_delete, d2dbs
<1>3. ASSUME NEW a \in Account, on_client_charloginreq(a) \/ d2cs_conn_destroy(a) PROVE TypeOK'
  BY <1>3 DEF on_client_charloginreq, d2cs_conn_destroy, d2dbs
<1>4. ASSUME NEW a \in Account, NEW g \in Gs, dbs_packet_getdata(g, a) PROVE TypeOK'
  <2>1. CASE Loaded(g, a)
    <3> DEFINE h == [acct |-> a, char |-> [save EXCEPT !.ver = made + 1]]
    <3>1. save \in Ver /\ made + 1 \in 1..MaxVer
      BY <1>4, <1>m, <2>1 DEF Loaded, dbs_packet_getdata, Asks
    <3>2. h \in Held
      BY <3>1 DEF Held, Ver
    <3>3. lock' = g /\ sess' = [sess EXCEPT ![g] = h] /\ made' = made + 1
      BY <2>1 DEF Loaded
    <3> HIDE DEF h
    <3> QED
      BY <1>4, <3>1, <3>2, <3>3 DEF dbs_packet_getdata, d2cs
  <2>2. CASE NotLoaded(g)
    BY <1>4, <2>2 DEF NotLoaded, dbs_packet_getdata, d2cs
  <2> QED
    BY <1>4, <2>1, <2>2 DEF dbs_packet_getdata
<1>5. ASSUME file_write_info PROVE TypeOK'
  <2>1. op \in Op
    BY <1>5 DEF file_write_info, Doing
  <2>2. op.acct \in Account /\ [op EXCEPT !.step = "save"] \in Op
    BY <2>1 DEF Op
  <2> QED
    BY <1>5, <2>2 DEF file_write_info, d2dbs
<1>6. ASSUME file_write_save PROVE TypeOK'
  <2>1. op \in Op /\ made + 1 \in 1..MaxVer
    BY <1>6, <1>m DEF file_write_save, Doing
  <2>2. [owner |-> op.acct, ver |-> made + 1] \in Ver
    BY <2>1 DEF Op, Ver
  <2> QED
    BY <1>6, <2>1, <2>2 DEF file_write_save, d2dbs
<1>7. ASSUME remove_save PROVE TypeOK'
  <2>1. op \in Op
    BY <1>7 DEF remove_save, Doing
  <2>2. [op EXCEPT !.step = "bak"] \in Op
    BY <2>1 DEF Op
  <2>3. mishaps' \subseteq Mishap
    BY <1>7, <1>r, <1>s DEF remove_save
  <2> QED
    BY <1>7, <2>2, <2>3 DEF remove_save, d2dbs
<1>8. ASSUME remove_bak PROVE TypeOK'
  BY <1>8 DEF remove_bak, d2dbs
<1>9. ASSUME NEW g \in Gs, NEW kind \in {"charsave", "charinfo"}, dbs_packet_savedata(g, kind) PROVE TypeOK'
  <2>1. sess[g] \in Held
    BY <1>9 DEF dbs_packet_savedata
  <2>2. [kind |-> kind, acct |-> sess[g].acct, char |-> sess[g].char, step |-> "backup"] \in Task
    BY <2>1 DEF Held, Task
  <2> QED
    BY <1>9, <2>2 DEF dbs_packet_savedata, d2cs
<1>10. ASSUME NEW g \in Gs, dbs_packet_charlock(g) PROVE TypeOK'
  BY <1>10 DEF dbs_packet_charlock, d2cs
<1>11. ASSUME NEW g \in Gs, GsDies(g) PROVE TypeOK'
  BY <1>11 DEF GsDies, d2cs, d2dbs
<1>12. ASSUME NEW g \in Gs, dbs_server_shutdown_connection(g) PROVE TypeOK'
  <2>1. mishaps' \subseteq Mishap
    BY <1>12, <1>r, <1>s DEF dbs_server_shutdown_connection
  <2> QED
    BY <1>12, <2>1 DEF dbs_server_shutdown_connection, d2cs
<1>13. ASSUME rename_bak PROVE TypeOK'
  <2>1. task \in Task
    BY <1>13 DEF rename_bak
  <2>2. [task EXCEPT !.step = "commit"] \in Task
    BY <2>1 DEF Task
  <2> QED
    BY <1>13, <2>2 DEF rename_bak, d2cs
<1>14. ASSUME rename_save PROVE TypeOK'
  <2>1. task \in Task
    BY <1>14 DEF rename_save
  <2>2. task.acct \in Account /\ task.char \in Ver
    BY <2>1 DEF Task
  <2>3. mishaps' \subseteq Mishap
    BY <1>14, <1>r, <1>s DEF rename_save
  <2> QED
    BY <1>14, <2>2, <2>3 DEF rename_save, d2cs
<1>15. ASSUME d2cs_restart PROVE TypeOK'
  <2>1. mishaps' \subseteq Mishap
    BY <1>15, <1>r, <1>s DEF d2cs_restart
  <2> QED
    BY <1>15, <2>1 DEF d2cs_restart, d2dbs
<1>16. ASSUME d2dbs_restart PROVE TypeOK'
  <2>1. mishaps' \subseteq Mishap
    BY <1>16, <1>s DEF d2dbs_restart
  <2> QED
    BY <1>16, <2>1 DEF d2dbs_restart, d2cs
<1>17. ASSUME UNCHANGED vars PROVE TypeOK'
  BY <1>17 DEF vars, d2cs, d2dbs
<1> QED
  BY <1>1, <1>2, <1>3, <1>4, <1>5, <1>6, <1>7, <1>8, <1>9, <1>10, <1>11, <1>12, <1>13, <1>14, <1>15, <1>16, <1>17
  DEF Next

-----------------------------------------------------------------------------
(* The files of a name belong together                                     *)

\* Steps after which the files have to belong together began so.
LEMMA FilesBefore ==
  ASSUME FilesInv, mishaps \subseteq mishaps', Spared(Good)'
  PROVE  /\ Spared(Good)
         /\ \/ op = NULL /\ Idle /\ Absent
            \/ op = NULL /\ \E a \in Account : Owned(a)
            \/ op # NULL /\ Idle /\ Halfway
BY DEF FilesInv, Spared

\* What d2cs does with the files.
LEMMA FilesD2cs ==
  ASSUME TypeOK, FilesInv,
         \/ \E a \in Account : d2char_create(a) \/ d2char_delete(a)
         \/ file_write_info \/ file_write_save \/ remove_save \/ remove_bak \/ d2cs_restart
  PROVE  FilesInv'
<1> SUFFICES ASSUME Spared(Good)'
             PROVE  \/ op' = NULL /\ Idle' /\ Absent'
                    \/ op' = NULL /\ \E a \in Account : Owned(a)'
                    \/ op' # NULL /\ Idle' /\ Halfway'
  BY DEF FilesInv
<1>0. UNCHANGED <<task, lock, sess>> /\ mishaps \subseteq mishaps'
  BY DEF d2char_create, d2char_delete, file_write_info, file_write_save, remove_save, remove_bak,
         d2cs_restart, d2dbs, Recorded
<1>1. \/ op = NULL /\ Idle /\ Absent
      \/ op = NULL /\ \E a \in Account : Owned(a)
      \/ op # NULL /\ Idle /\ Halfway
  BY <1>0, FilesBefore
<1>2. op \in Maybe(Op) /\ save \in Maybe(Ver)
  BY DEF TypeOK
<1>3. ASSUME NEW a \in Account, d2char_create(a)
      PROVE  op' # NULL /\ Idle' /\ Halfway'
  <2>1. /\ op = NULL /\ save = NULL /\ op' = [kind |-> "create", acct |-> a, step |-> "info"]
        /\ Recorded("gap", Missing /\ task.kind = "charsave") /\ UNCHANGED <<save, info, chosen>>
    BY <1>3 DEF d2char_create
  <2>2. ~(Missing /\ task.kind = "charsave")
    BY <2>1 DEF Recorded, Spared, Good
  <2>3. Idle /\ Absent
    BY <1>1, <2>1, <2>2 DEF Owned, Missing
  <2>4. op' \in Op
    BY <2>1 DEF Op
  <2>5. op' # NULL
    BY <2>4, Records
  <2> QED
    BY <1>0, <2>1, <2>3, <2>5 DEF Idle, Absent, Halfway
<1>4. ASSUME NEW a \in Account, d2char_delete(a)
      PROVE  op' # NULL /\ Idle' /\ Halfway'
  <2>1. /\ op = NULL /\ a \in info /\ info' = info \ {a}
        /\ op' = [kind |-> "delete", acct |-> a, step |-> "save"]
        /\ chosen' \in {chosen, chosen \ {a}} /\ Recorded("in_play", InPlay(a))
    BY <1>4 DEF d2char_delete
  <2>2. ~InPlay(a)
    BY <2>1 DEF Recorded, Spared, Good
  <2>3. Owned(a)
    <3>1. PICK b \in Account : Owned(b)
      BY <1>1, <2>1 DEF Absent
    <3> QED
      BY <2>1, <3>1 DEF Owned
  <2>4. Idle' /\ info' = {}
    BY <1>0, <2>1, <2>2, <2>3 DEF Owned, InPlay, Idle
  <2>5. op' \in Op
    BY <2>1 DEF Op
  <2>6. op' # NULL
    BY <2>5, Records
  <2> QED
    BY <2>1, <2>4, <2>6 DEF Halfway
<1>5. ASSUME op # NULL PROVE Idle /\ Halfway /\ op \in Op
  BY <1>1, <1>2, <1>5 DEF Maybe
<1>6. CASE file_write_info
  <2>1. op # NULL /\ op.kind = "create" /\ op.step = "info" /\ UNCHANGED <<save, chosen>>
    BY <1>6 DEF file_write_info, Doing
  <2>2. info = {} /\ save = NULL /\ Idle' /\ op \in Op
    BY <1>0, <1>5, <2>1 DEF Halfway, Idle
  <2>3. CASE info' = info \cup {op.acct} /\ op' = [op EXCEPT !.step = "save"]
    <3>1. op' \in Op /\ op'.acct = op.acct /\ op'.kind = "create" /\ op'.step = "save"
      BY <2>1, <2>2, <2>3 DEF Op
    <3>2. op' # NULL
      BY <3>1, Records
    <3> QED
      BY <2>1, <2>2, <2>3, <3>1, <3>2 DEF Halfway
  <2>4. CASE info' = info \ {op.acct} /\ op' = NULL
    BY <2>1, <2>2, <2>4 DEF Absent
  <2> QED
    BY <1>6, <2>3, <2>4 DEF file_write_info
<1>7. CASE file_write_save
  <2>1. op # NULL /\ op.kind = "create" /\ op.step = "save" /\ op' = NULL /\ UNCHANGED chosen
    BY <1>7 DEF file_write_save, Doing
  <2>2. info = {op.acct} /\ save = NULL /\ Idle' /\ op \in Op
    BY <1>0, <1>5, <2>1 DEF Halfway, Idle
  <2>3. CASE save' = [owner |-> op.acct, ver |-> made + 1] /\ made' = made + 1 /\ UNCHANGED info
    <3>1. PICK a \in Account : a = op.acct
      BY <2>2 DEF Op
    <3>2. save' \in Ver
      BY <1>7, <2>3, <3>1, CharFilesAssumption DEF file_write_save, Ver, TypeOK
    <3>3. save' # NULL /\ save'.owner = a
      BY <2>3, <3>1, <3>2, Records
    <3>4. Owned(a)'
      BY <2>2, <2>3, <3>1, <3>3 DEF Owned, Idle
    <3> QED
      BY <2>1, <3>4
  <2>4. CASE save' = NULL /\ info' = info \ {op.acct}
    BY <2>1, <2>2, <2>4 DEF Absent
  <2> QED
    BY <1>7, <2>3, <2>4 DEF file_write_save
<1>8. CASE remove_save
  <2>1. /\ op # NULL /\ op.kind = "delete" /\ op' = [op EXCEPT !.step = "bak"]
        /\ Recorded("half", save' # NULL) /\ UNCHANGED <<info, chosen>>
    BY <1>8 DEF remove_save, Doing
  <2>2. info = {} /\ Idle' /\ op \in Op /\ save' = NULL
    BY <1>0, <1>5, <2>1 DEF Halfway, Idle, Recorded, Spared, Good
  <2>3. op' \in Op /\ op'.kind = "delete" /\ op'.step = "bak"
    BY <2>1, <2>2 DEF Op
  <2>4. op' # NULL
    BY <2>3, Records
  <2> QED
    BY <2>1, <2>2, <2>3, <2>4 DEF Halfway
<1>9. CASE remove_bak
  <2>1. op # NULL /\ op.kind = "delete" /\ op.step = "bak" /\ op' = NULL /\ UNCHANGED <<save, info, chosen>>
    BY <1>9 DEF remove_bak, Doing
  <2> QED
    BY <1>0, <1>5, <2>1 DEF Halfway, Idle, Absent
<1>10. CASE d2cs_restart
  <2>1. /\ op' = NULL /\ chosen' = {} /\ Recorded("half", op # NULL /\ op.step = "save")
        /\ UNCHANGED <<save, info>>
    BY <1>10 DEF d2cs_restart
  <2>2. CASE op # NULL
    <3>1. op.step # "save" /\ op.kind \in {"create", "delete"}
      BY <1>5, <2>1, <2>2 DEF Recorded, Spared, Good, Op
    <3> QED
      BY <1>0, <1>5, <2>1, <2>2, <3>1 DEF Halfway, Idle, Absent
  <2>3. CASE op = NULL
    <3>1. CASE Idle /\ Absent
      BY <1>0, <2>1, <3>1 DEF Idle, Absent
    <3>2. CASE \E a \in Account : Owned(a)
      <4>1. PICK a \in Account : Owned(a)
        BY <3>2
      <4>2. Owned(a)'
        BY <1>0, <2>1, <4>1 DEF Owned
      <4> QED
        BY <2>1, <4>2
    <3> QED
      BY <1>1, <2>3, <3>1, <3>2
  <2> QED
    BY <2>2, <2>3
<1> QED
  BY <1>3, <1>4, <1>6, <1>7, <1>8, <1>9, <1>10

\* What players, game servers and d2dbs do.
LEMMA FilesDbs ==
  ASSUME TypeOK, FilesInv,
         \/ \E a \in Account : \/ on_client_charloginreq(a) \/ d2cs_conn_destroy(a)
                               \/ \E g \in Gs : dbs_packet_getdata(g, a)
         \/ \E g \in Gs : \/ \E kind \in {"charsave", "charinfo"} : dbs_packet_savedata(g, kind)
                          \/ dbs_packet_charlock(g) \/ GsDies(g)
                          \/ dbs_server_shutdown_connection(g)
         \/ rename_bak \/ rename_save \/ d2dbs_restart
         \/ UNCHANGED vars
  PROVE  FilesInv'
<1> SUFFICES ASSUME Spared(Good)'
             PROVE  \/ op' = NULL /\ Idle' /\ Absent'
                    \/ op' = NULL /\ \E a \in Account : Owned(a)'
                    \/ op' # NULL /\ Idle' /\ Halfway'
  BY DEF FilesInv
<1> USE DEF d2cs, d2dbs
<1>0. op' = op /\ mishaps \subseteq mishaps'
  BY DEF on_client_charloginreq, d2cs_conn_destroy, dbs_packet_getdata, dbs_packet_savedata,
         dbs_packet_charlock, GsDies, dbs_server_shutdown_connection, rename_bak, rename_save,
         d2dbs_restart, Recorded, vars
<1>1. \/ op = NULL /\ Idle /\ Absent
      \/ op = NULL /\ \E a \in Account : Owned(a)
      \/ op # NULL /\ Idle /\ Halfway
  BY <1>0, FilesBefore
<1>t. /\ task \in Maybe(Task) /\ sess \in [Gs -> Maybe(Held)] /\ save \in Maybe(Ver) /\ chosen \subseteq Account
  BY DEF TypeOK
<1>2. CASE Idle /\ (op # NULL \/ Absent)
  <2>1. UNCHANGED <<task, sess, save, info, chosen>>
    <3>1. ASSUME NEW a \in Account, on_client_charloginreq(a) PROVE FALSE
      BY <1>2, <3>1 DEF on_client_charloginreq, Absent
    <3>2. ASSUME NEW a \in Account, NEW g \in Gs, dbs_packet_getdata(g, a) PROVE FALSE
      BY <1>2, <3>2 DEF dbs_packet_getdata, Asks, Idle
    <3> QED
      BY <1>2, <3>1, <3>2
      DEF Idle, d2cs_conn_destroy, dbs_packet_savedata, dbs_packet_charlock, GsDies,
          dbs_server_shutdown_connection, rename_bak, rename_save, d2dbs_restart, vars
  <2> QED
    BY <1>0, <1>1, <1>2, <2>1 DEF Idle, Absent, Halfway
<1>3. ASSUME op = NULL, NEW a \in Account, Owned(a)
      PROVE  Owned(a)'
  <2>1. ASSUME NEW b \in Account, on_client_charloginreq(b) \/ d2cs_conn_destroy(b) PROVE Owned(a)'
    BY <1>3, <2>1 DEF Owned, on_client_charloginreq, d2cs_conn_destroy
  <2>2. ASSUME NEW b \in Account, NEW g \in Gs, dbs_packet_getdata(g, b) PROVE Owned(a)'
    <3>1. CASE Loaded(g, b)
      <4> DEFINE h == [acct |-> b, char |-> [save EXCEPT !.ver = made + 1]]
      <4>1. b = a /\ save \in Ver /\ save.owner = a
        BY <1>3, <1>t, <2>2, <3>1 DEF dbs_packet_getdata, Asks, Loaded, Owned, Maybe
      <4>2. h.acct = a /\ h.char.owner = a
        BY <4>1 DEF Ver
      <4>3. sess' = [sess EXCEPT ![g] = h]
        BY <3>1 DEF Loaded
      <4> HIDE DEF h
      <4>4. \A k \in Gs : sess'[k] # NULL => sess'[k].acct = a /\ sess'[k].char.owner = a
        BY <1>3, <1>t, <4>2, <4>3 DEF Owned
      <4> QED
        BY <1>3, <2>2, <4>4 DEF Owned, dbs_packet_getdata
    <3>2. CASE NotLoaded(g)
      BY <1>3, <2>2, <3>2 DEF Owned, dbs_packet_getdata, NotLoaded
    <3> QED
      BY <2>2, <3>1, <3>2 DEF dbs_packet_getdata
  <2>3. ASSUME NEW g \in Gs, NEW kind \in {"charsave", "charinfo"}, dbs_packet_savedata(g, kind) PROVE Owned(a)'
    <3>1. /\ task = NULL /\ sess[g] # NULL
          /\ task' = [kind |-> kind, acct |-> sess[g].acct, char |-> sess[g].char, step |-> "backup"]
          /\ UNCHANGED <<save, info, chosen, sess>>
      BY <2>3 DEF dbs_packet_savedata
    <3>2. task'.acct = a /\ task'.char.owner = a
      BY <1>3, <3>1 DEF Owned
    <3> QED
      BY <1>3, <3>1, <3>2 DEF Owned
  <2>4. ASSUME NEW g \in Gs, dbs_packet_charlock(g) \/ GsDies(g) PROVE Owned(a)'
    <3>1. UNCHANGED <<task, save, info, chosen>> /\ sess' = [sess EXCEPT ![g] = NULL]
      BY <2>4 DEF dbs_packet_charlock, GsDies
    <3>2. \A k \in Gs : sess'[k] # NULL => sess'[k] = sess[k]
      BY <1>t, <3>1
    <3> QED
      BY <1>3, <3>1, <3>2 DEF Owned
  <2>5. ASSUME NEW g \in Gs, dbs_server_shutdown_connection(g) PROVE Owned(a)'
    BY <1>3, <2>5 DEF Owned, dbs_server_shutdown_connection
  <2>6. ASSUME rename_bak PROVE Owned(a)'
    <3>1. task # NULL /\ task' = [task EXCEPT !.step = "commit"] /\ task.step = "backup" /\ UNCHANGED <<sess, chosen>>
      BY <2>6 DEF rename_bak
    <3>2. task \in Task
      BY <1>t, <3>1 DEF Maybe
    <3>3. /\ task' \in Task /\ task'.step = "commit" /\ task'.kind = task.kind /\ task'.acct = task.acct
          /\ task'.char = task.char
      BY <3>1, <3>2 DEF Task
    <3>4. task' # NULL
      BY <3>3, Records
    <3>5. info = {a} /\ save # NULL /\ save.owner = a /\ task.acct = a /\ task.char.owner = a
      BY <1>3, <3>1 DEF Owned
    <3>6. CASE task.kind = "charsave" /\ save' = NULL /\ UNCHANGED info
      BY <1>3, <3>1, <3>3, <3>4, <3>5, <3>6 DEF Owned
    <3>7. CASE task.kind = "charinfo" /\ info' = info \ {task.acct} /\ UNCHANGED save
      BY <1>3, <3>1, <3>3, <3>4, <3>5, <3>7 DEF Owned
    <3>8. CASE UNCHANGED <<save, info>>
      BY <1>3, <3>1, <3>3, <3>4, <3>5, <3>8 DEF Owned
    <3> QED
      BY <2>6, <3>6, <3>7, <3>8 DEF rename_bak
  <2>7. ASSUME rename_save PROVE Owned(a)'
    <3>1. task # NULL /\ task' = NULL /\ task.step = "commit" /\ UNCHANGED <<sess, chosen>>
      BY <2>7 DEF rename_save
    <3>2. task \in Task
      BY <1>t, <3>1 DEF Maybe
    <3>3. task.acct = a /\ task.char.owner = a /\ task.char # NULL /\ task.kind \in {"charsave", "charinfo"}
      BY <1>3, <3>1, <3>2, Records DEF Owned, Task
    <3>4. CASE task.kind = "charsave" /\ save' = task.char /\ UNCHANGED info
      BY <1>3, <3>1, <3>3, <3>4 DEF Owned
    <3>5. CASE task.kind = "charinfo" /\ info' = info \cup {task.acct} /\ UNCHANGED save
      BY <1>3, <3>1, <3>3, <3>5 DEF Owned
    <3>6. CASE Recorded("unsaved", Missing) /\ UNCHANGED <<save, info>>
      <4>1. ~Missing
        BY <3>6 DEF Recorded, Spared, Good
      <4> QED
        BY <1>3, <3>1, <3>3, <3>6, <4>1 DEF Owned, Missing
    <3> QED
      BY <2>7, <3>3, <3>4, <3>5, <3>6 DEF rename_save
  <2>8. ASSUME d2dbs_restart PROVE Owned(a)'
    <3>1. task' = NULL /\ UNCHANGED <<sess, chosen, save, info>>
      BY <2>8 DEF d2dbs_restart
    <3>2. ~Missing
      BY <2>8 DEF d2dbs_restart, Spared, Good
    <3>3. task # NULL => task.kind \in {"charsave", "charinfo"}
      BY <1>t DEF Task, Maybe
    <3> QED
      BY <1>3, <3>1, <3>2, <3>3 DEF Owned, Missing
  <2>9. ASSUME UNCHANGED vars PROVE Owned(a)'
    BY <1>3, <2>9 DEF Owned, vars
  <2> QED
    BY <2>1, <2>2, <2>3, <2>4, <2>5, <2>6, <2>7, <2>8, <2>9
<1> QED
  BY <1>0, <1>1, <1>2, <1>3

-----------------------------------------------------------------------------
(* A save never undoes a later session                                     *)

\* The part of VersInv that holds while there was no mishap.
Newest ==
  /\ \A g \in Gs : sess[g] # NULL =>
       /\ lock = g
       /\ save # NULL => save.ver <= sess[g].char.ver
       /\ bak # NULL => bak.ver <= sess[g].char.ver
       /\ task # NULL => task.char = sess[g].char
  /\ task # NULL => /\ save # NULL => save.ver <= task.char.ver
                    /\ bak # NULL => bak.ver <= task.char.ver
  /\ save # NULL /\ bak # NULL => bak.ver <= save.ver

\* The part that always holds: no version is newer than the last one made.
Made ==
  /\ save # NULL => save.ver <= made
  /\ bak # NULL => bak.ver <= made
  /\ task # NULL => task.char.ver <= made
  /\ \A g \in Gs : sess[g] # NULL => sess[g].char.ver <= made

\* Steps that make no version and give out none.
LEMMA VersShrink ==
  ASSUME TypeOK, VersInv, mishaps \subseteq mishaps', UNCHANGED made,
         save' \in {save, NULL}, bak' \in {bak, NULL}, task' \in {task, NULL},
         \A g \in Gs : sess'[g] \in {sess[g], NULL},
         Spared(Mishap)' => \A g \in Gs : sess'[g] # NULL => lock' = lock
  PROVE  VersInv'
<1>1. Spared(Mishap)' => Spared(Mishap)
  BY DEF Spared
<1>2. Made /\ (Spared(Mishap) => Newest)
  BY DEF VersInv, Made, Newest
<1>3. Made'
  BY <1>2 DEF Made
<1>4. Spared(Mishap)' => Newest'
  BY <1>1, <1>2 DEF Newest
<1> QED
  BY <1>3, <1>4 DEF VersInv, Made, Newest

\* Every step keeps the versions in order.
LEMMA VersStep ==
  ASSUME TypeOK, TypeOK', FilesInv, VersInv, [Next]_vars
  PROVE  VersInv'
<1> USE DEF d2cs, d2dbs
<1>t. /\ task \in Maybe(Task) /\ sess \in [Gs -> Maybe(Held)] /\ save \in Maybe(Ver) /\ bak \in Maybe(Ver)
      /\ made \in Nat /\ op \in Maybe(Op)
  BY CharFilesAssumption DEF TypeOK
<1>v. Made /\ (Spared(Mishap) => Newest)
  BY DEF VersInv, Made, Newest
<1>w. ASSUME Made', Spared(Mishap)' => Newest' PROVE VersInv'
  BY <1>w DEF VersInv, Made, Newest
<1>g. ASSUME Spared(Mishap) PROVE Spared(Good)
  BY <1>g DEF Spared, Good, Mishap
<1>n. \A v \in Ver : v # NULL /\ v.ver \in Nat
  BY Records
<1>k. /\ \A t \in Task : t # NULL /\ t.char \in Ver /\ t.char.ver \in Nat
      /\ \A h \in Held : h # NULL /\ h.char \in Ver /\ h.char.ver \in Nat
  BY Records
<1>1. ASSUME NEW a \in Account, d2char_create(a) \/ d2char_delete(a) \/ on_client_charloginreq(a) \/ d2cs_conn_destroy(a)
      PROVE  VersInv'
  <2>1. UNCHANGED <<save, bak, task, lock, sess, made>> /\ mishaps \subseteq mishaps'
    BY <1>1 DEF d2char_create, d2char_delete, on_client_charloginreq, d2cs_conn_destroy, Recorded
  <2> QED
    BY <2>1, VersShrink
<1>2. ASSUME NEW a \in Account, NEW g \in Gs, dbs_packet_getdata(g, a)
      PROVE  VersInv'
  <2>1. task = NULL /\ lock = NULL /\ sess[g] = NULL /\ UNCHANGED <<save, bak, task, mishaps>>
    BY <1>2 DEF dbs_packet_getdata, Asks
  <2>2. CASE NotLoaded(g)
    <3>1. Spared(Mishap) => \A k \in Gs : sess[k] = NULL
      BY <1>v, <2>1, Records DEF Newest
    <3>2. Spared(Mishap)' => Spared(Mishap)
      BY <2>1 DEF Spared
    <3> QED
      BY <2>1, <2>2, <3>1, <3>2, VersShrink DEF NotLoaded
  <2>3. CASE Loaded(g, a)
    <3> DEFINE h == [acct |-> a, char |-> [save EXCEPT !.ver = made + 1]]
    <3>1. lock' = g /\ sess' = [sess EXCEPT ![g] = h] /\ made' = made + 1 /\ save # NULL
      BY <2>3 DEF Loaded
    <3>2. h.char.ver = made + 1
      BY <1>t, <3>1 DEF Ver, Maybe
    <3> HIDE DEF h
    <3>3. \A k \in Gs : sess'[k] = IF k = g THEN h ELSE sess[k]
      BY <1>t, <3>1
    <3>4. Made'
      <4>1. \A k \in Gs : sess[k] # NULL => sess[k].char.ver <= made + 1
        BY <1>t, <1>v, <1>k DEF Made, Maybe
      <4>2. \A k \in Gs : sess'[k] # NULL => sess'[k].char.ver <= made + 1
        BY <1>t, <3>2, <3>3, <4>1
      <4>3. (save # NULL => save.ver <= made + 1) /\ (bak # NULL => bak.ver <= made + 1)
        BY <1>t, <1>v, <1>n DEF Made, Maybe
      <4> QED
        BY <2>1, <3>1, <4>2, <4>3 DEF Made
    <3>5. ASSUME Spared(Mishap)' PROVE Newest'
      <4>1. Newest
        BY <1>v, <2>1, <3>5 DEF Spared
      <4>2. \A k \in Gs : k # g => sess'[k] = NULL
        BY <2>1, <3>3, <4>1, Records DEF Newest
      <4>3. (save # NULL => save.ver <= made + 1) /\ (bak # NULL => bak.ver <= made + 1)
        BY <1>t, <1>v, <1>n DEF Made, Maybe
      <4> QED
        BY <2>1, <3>1, <3>2, <3>3, <4>1, <4>2, <4>3 DEF Newest
    <3> QED
      BY <1>w, <3>4, <3>5
  <2> QED
    BY <1>2, <2>2, <2>3 DEF dbs_packet_getdata
<1>3. ASSUME file_write_info \/ remove_save \/ remove_bak \/ d2cs_restart PROVE VersInv'
  <2>1. /\ UNCHANGED <<task, lock, sess, made>> /\ mishaps \subseteq mishaps'
        /\ save' \in {save, NULL} /\ bak' \in {bak, NULL}
    BY <1>3 DEF file_write_info, remove_save, remove_bak, d2cs_restart, Recorded
  <2> QED
    BY <2>1, VersShrink
<1>4. ASSUME file_write_save PROVE VersInv'
  <2>1. op # NULL /\ UNCHANGED <<bak, task, lock, sess, mishaps>>
    BY <1>4 DEF file_write_save, Doing
  <2>2. CASE save' = NULL /\ UNCHANGED made
    BY <2>1, <2>2, VersShrink
  <2>3. CASE save' = [owner |-> op.acct, ver |-> made + 1] /\ made' = made + 1
    <3>1. save'.ver = made + 1 /\ (bak # NULL => bak.ver <= made + 1)
      BY <1>t, <1>v, <1>n, <2>3 DEF Made, Maybe
    <3>2. \A g \in Gs : sess[g] # NULL => sess[g].char.ver <= made + 1
      BY <1>t, <1>v, <1>k DEF Made, Maybe
    <3>3. task # NULL => task.char.ver <= made + 1
      BY <1>t, <1>v, <1>k DEF Made, Maybe
    <3>4. Made'
      BY <1>t, <2>1, <2>3, <3>1, <3>2, <3>3 DEF Made
    <3>5. ASSUME Spared(Mishap)' PROVE Newest'
      <4>1. Idle
        BY <1>g, <2>1, <3>5 DEF FilesInv, Spared
      <4> QED
        BY <2>1, <3>1, <4>1 DEF Newest, Idle
    <3> QED
      BY <1>w, <3>4, <3>5
  <2> QED
    BY <1>4, <2>2, <2>3 DEF file_write_save
<1>5. ASSUME NEW g \in Gs, NEW kind \in {"charsave", "charinfo"}, dbs_packet_savedata(g, kind) PROVE VersInv'
  <2>1. /\ task = NULL /\ sess[g] # NULL /\ UNCHANGED <<save, bak, lock, sess, made, mishaps>>
        /\ task' = [kind |-> kind, acct |-> sess[g].acct, char |-> sess[g].char, step |-> "backup"]
    BY <1>5 DEF dbs_packet_savedata
  <2>2. task'.char = sess[g].char
    BY <2>1
  <2>3. Made'
    BY <1>v, <2>1, <2>2 DEF Made
  <2>4. ASSUME Spared(Mishap)' PROVE Newest'
    <3>1. Newest
      BY <1>v, <2>1, <2>4 DEF Spared
    <3>2. \A k \in Gs : sess[k] # NULL => k = g
      BY <2>1, <3>1 DEF Newest
    <3> QED
      BY <2>1, <2>2, <3>1, <3>2 DEF Newest
  <2> QED
    BY <1>w, <2>3, <2>4
<1>6. ASSUME NEW g \in Gs, dbs_packet_charlock(g) \/ GsDies(g) PROVE VersInv'
  <2>1. /\ UNCHANGED <<save, bak, task, made, mishaps>> /\ sess' = [sess EXCEPT ![g] = NULL]
        /\ lock' \in {lock, IF lock = g THEN NULL ELSE lock}
    BY <1>6 DEF dbs_packet_charlock, GsDies
  <2>2. \A k \in Gs : sess'[k] = IF k = g THEN NULL ELSE sess[k]
    BY <1>t, <2>1
  <2>3. Spared(Mishap)' => \A k \in Gs : sess'[k] # NULL => lock' = lock
    BY <1>v, <2>1, <2>2 DEF Newest, Spared
  <2> QED
    BY <2>1, <2>2, <2>3, VersShrink
<1>7. ASSUME NEW g \in Gs, dbs_server_shutdown_connection(g) PROVE VersInv'
  <2>1. /\ lock = g /\ Recorded("cut", sess[g] # NULL) /\ UNCHANGED <<save, bak, task, sess, made>>
    BY <1>7 DEF dbs_server_shutdown_connection
  <2>2. mishaps \subseteq mishaps' /\ (Spared(Mishap)' => sess[g] = NULL)
    BY <2>1 DEF Recorded, Spared, Mishap
  <2>3. Spared(Mishap)' => \A k \in Gs : sess'[k] = NULL
    <3>1. Spared(Mishap)' => Newest
      BY <1>v, <2>2 DEF Spared
    <3> QED
      BY <2>1, <2>2, <3>1 DEF Newest
  <2> QED
    BY <2>1, <2>2, <2>3, VersShrink
<1>8. ASSUME rename_bak PROVE VersInv'
  <2>1. /\ task # NULL /\ task' = [task EXCEPT !.step = "commit"] /\ UNCHANGED <<lock, sess, made, mishaps>>
        /\ \/ bak' = save /\ save' = NULL
           \/ UNCHANGED <<save, bak>>
    BY <1>8 DEF rename_bak
  <2>2. task \in Task
    BY <1>t, <2>1 DEF Maybe
  <2>3. task'.char = task.char
    BY <2>1, <2>2 DEF Task
  <2>4. Made'
    BY <1>v, <2>1, <2>3 DEF Made
  <2>5. ASSUME Spared(Mishap)' PROVE Newest'
    <3>1. Newest
      BY <1>v, <2>1, <2>5 DEF Spared
    <3> QED
      BY <2>1, <2>3, <3>1 DEF Newest
  <2> QED
    BY <1>w, <2>4, <2>5
<1>9. ASSUME rename_save PROVE VersInv'
  <2>1. task # NULL /\ task' = NULL /\ UNCHANGED <<bak, lock, sess, made>> /\ mishaps \subseteq mishaps'
    BY <1>9 DEF rename_save, Recorded
  <2>2. CASE UNCHANGED save
    BY <2>1, <2>2, VersShrink
  <2>3. CASE save' = task.char
    <3>1. task \in Task
      BY <1>t, <2>1 DEF Maybe
    <3>2. task.char.ver \in Nat
      BY <1>k, <3>1
    <3>3. Made'
      BY <1>v, <2>1, <2>3 DEF Made
    <3>4. ASSUME Spared(Mishap)' PROVE Newest'
      <4>1. Newest
        BY <1>v, <2>1, <3>4 DEF Spared
      <4> QED
        BY <2>1, <2>3, <3>2, <4>1 DEF Newest
    <3> QED
      BY <1>w, <3>3, <3>4
  <2> QED
    BY <1>9, <2>2, <2>3 DEF rename_save
<1>10. ASSUME d2dbs_restart PROVE VersInv'
  <2>1. task' = NULL /\ UNCHANGED <<save, bak, sess, made>> /\ mishaps \subseteq mishaps'
    BY <1>10 DEF d2dbs_restart
  <2>2. Spared(Mishap)' => \A g \in Gs : sess'[g] = NULL
    BY <1>10, <2>1 DEF d2dbs_restart, Spared, Mishap
  <2> QED
    BY <2>1, <2>2, VersShrink
<1>11. ASSUME UNCHANGED vars PROVE VersInv'
  BY <1>11, VersShrink DEF vars
<1> QED
  BY <1>1, <1>2, <1>3, <1>4, <1>5, <1>6, <1>7, <1>8, <1>9, <1>10, <1>11 DEF Next

-----------------------------------------------------------------------------
(* The theorems                                                            *)

\* Every step keeps the invariant.
LEMMA NextInv == Inv /\ [Next]_vars => Inv'
<1> SUFFICES ASSUME Inv, [Next]_vars PROVE Inv'
  OBVIOUS
<1>0. TypeOK /\ FilesInv /\ VersInv
  BY DEF Inv
<1>1. TypeOK'
  BY <1>0, TypeStep
<1>2. FilesInv'
  BY <1>0, FilesD2cs, FilesDbs DEF Next
<1>3. VersInv'
  BY <1>0, <1>1, VersStep
<1> QED
  BY <1>1, <1>2, <1>3 DEF Inv

\* The invariant holds in every state of every behaviour.
LEMMA Invariance == Spec => []Inv
BY InitInv, NextInv, PTL DEF Spec

\* A name belongs to one account: unless one of four mishaps happened, the
\* files of an idle name are all there and one account's, or all gone
\* (d2char_create, d2char_delete, dbs_packet_savedata).
THEOREM FilesCorrect == Spec => []FilesMatch
<1>1. Inv => FilesMatch
  <2> SUFFICES ASSUME Inv, op = NULL, task = NULL, Spared(Good) PROVE
                 \/ info = {} /\ save = NULL
                 \/ \E a \in Account : info = {a} /\ save # NULL /\ save.owner = a
    BY DEF FilesMatch, Good
  <2>1. (Idle /\ Absent) \/ (\E a \in Account : Owned(a))
    BY DEF Inv, FilesInv
  <2> QED
    BY <2>1 DEF Absent, Owned
<1> QED
  BY <1>1, Invariance, PTL

\* A save never undoes a later session: unless a mishap happened, the save
\* file is not older than the backup (dbs_packet_savedata, dbs_packet_getdata).
THEOREM NewestCorrect == Spec => []NewestKept
<1>1. Inv => NewestKept
  <2> SUFFICES ASSUME Inv, Spared(Mishap), save # NULL, bak # NULL PROVE save.ver >= bak.ver
    BY DEF NewestKept
  <2>1. save \in Ver /\ bak \in Ver
    BY DEF Inv, TypeOK, Maybe
  <2>2. bak.ver <= save.ver
    BY DEF Inv, VersInv
  <2> QED
    BY <2>1, <2>2, Records
<1> QED
  BY <1>1, Invariance, PTL

=============================================================================
