--------------------------- MODULE RecoveryProofs ---------------------------
(***************************************************************************)
(* What holds of Recovery for every number of processes, rows, files and   *)
(* corruptions, and for every set of failures.                             *)
(***************************************************************************)
EXTENDS Recovery, NumberFacts, TLAPS

\* Copies of the history table stay tables.
LEMMA PlusTable == ASSUME NEW t \in Table, NEW b \in Table
                   PROVE  Plus(t, b) \in Table
BY DEF Plus, Table

LEMMA InsertTable == ASSUME NEW t \in Table, NEW r \in Row
                     PROVE  Insert(t, r) \in Table
BY DEF Insert, Table

LEMMA NoImageType == NoImage \in Image /\ NoRows \in Table
BY BoundsAssumption DEF NoImage, Image, NoRows, Table, Time

LEMMA TypeInit == Init => TypeOK
BY BoundsAssumption, NoImageType
   DEF Init, TypeOK, File, NoFile, NoStamp, Time, Crumbs, AllKinds

\* The file that OpenAt creates, and the handle it returns.
LEMMA TypeOpen == ASSUME TypeOK, NEW p \in Proc, NEW l, OpenAt(p, l)
                  PROVE  /\ path' \in File \union {NoFile}
                         /\ nfiles' \in 0 .. MaxFiles
                         /\ handle' \in [Proc -> File \union {NoFile}]
                         /\ UNCHANGED <<corrupt, hist, stamp, kept, kind,
                                       now, found, bak, tmp, crumb, clock,
                                       damage, committed, backed>>
<1> USE BoundsAssumption DEF kept, dir, side, env
<1>1. CASE path # NoFile /\ handle' = [handle EXCEPT ![p] = path] /\ UNCHANGED dir
  BY <1>1 DEF OpenAt, TypeOK
<1>2. CASE /\ nfiles < MaxFiles
           /\ nfiles' = nfiles + 1
           /\ path' = nfiles + 1
           /\ handle' = [handle EXCEPT ![p] = nfiles + 1]
           /\ UNCHANGED <<corrupt, hist, stamp, kept>>
  <2>1. nfiles + 1 \in File /\ nfiles + 1 \in 0 .. MaxFiles
    BY <1>2 DEF TypeOK, File
  <2> QED BY <1>2, <2>1 DEF OpenAt, TypeOK
<1> QED BY <1>1, <1>2 DEF OpenAt

\* The file that a main file becomes without its sidecar.
LEMMA Separates ==
  ASSUME TypeOK, NEW s \in SUBSET Row, NEW t \in Time \union {NoStamp},
         Separate(s, t)
  PROVE  /\ nfiles + 1 \in File /\ nfiles' = nfiles + 1 /\ nfiles' \in 0 .. MaxFiles
         /\ path \in File
         /\ hist' \in [File -> Table]
         /\ \A f \in File : f # nfiles + 1 => hist'[f] = hist[f]
         /\ stamp' \in [File -> Time \union {NoStamp}]
         /\ stamp'[nfiles + 1] = t /\ t <= stamp[path]
         /\ \A f \in File : f # nfiles + 1 => stamp'[f] = stamp[f]
         /\ corrupt' \subseteq File
         /\ corrupt \subseteq corrupt' /\ corrupt' \subseteq corrupt \union {nfiles + 1}
         /\ path \in corrupt => nfiles + 1 \in corrupt'
<1>1. /\ nfiles + 1 \in File /\ nfiles' = nfiles + 1 /\ nfiles' \in 0 .. MaxFiles
      /\ path \in File
  BY BoundsAssumption DEF Separate, TypeOK, File
<1>2. Part(hist[path], s) \in Table
  BY <1>1 DEF Part, Table, TypeOK
<1> QED BY <1>1, <1>2 DEF Separate, TypeOK

\* The parts of TypeOK about the processes, for the ways a step leaves them.
LEMMA TypeExit == ASSUME TypeOK, NEW p \in Proc, Exit(p)
                  PROVE  /\ pc' \in [Proc -> {"idle", "open", "quarantine",
                              "setaside", "reopen", "heal", "mark", "ready",
                              "vacuum", "rename", "stamp", "clear", "print",
                              "printed"}]
                         /\ kind' \in [Proc -> AllKinds]
                         /\ now' \in [Proc -> Time]
                         /\ handle' \in [Proc -> File \union {NoFile}]
                         /\ found' \in [Proc -> Crumbs \union {"none"}]
BY BoundsAssumption DEF TypeOK, Exit, AllKinds, Time

LEMMA TypeNext == TypeOK /\ [Next]_vars => TypeOK'
<1> SUFFICES ASSUME TypeOK, [Next]_vars PROVE TypeOK'
  OBVIOUS
<1> USE BoundsAssumption DEF kept, dir, side, env
<1>1. ASSUME NEW p \in Proc, Start(p) PROVE TypeOK'
  BY <1>1, KindsAssumption DEF Start, TypeOK
<1>2. ASSUME NEW p \in Proc, OpenStep(p) PROVE TypeOK'
  <2>1. CASE OpenOk(p)
    BY <2>1, TypeOpen DEF OpenOk, OpenAt, TypeOK
  <2>2. CASE OpenCorrupt(p)
    BY <2>2 DEF OpenCorrupt, Goto, TypeOK
  <2>3. CASE Quarantine(p) \/ NoSidecar(p)
    BY <2>3 DEF Quarantine, NoSidecar, Goto, TypeOK
  <2>8. CASE SidecarAside(p)
    <3>1. PICK s \in SUBSET Row, t \in Time \union {NoStamp} : Separate(s, t)
      BY <2>8 DEF SidecarAside
    <3>2. /\ nfiles + 1 \in File /\ nfiles' \in 0 .. MaxFiles /\ path \in File
          /\ hist' \in [File -> Table]
          /\ stamp' \in [File -> Time \union {NoStamp}]
          /\ corrupt' \subseteq File
      BY <3>1, Separates
    <3>3. <<path, nfiles + 1>> \in File \X File
      BY <3>2
    <3>4. /\ path' \in File \union {NoFile} /\ quarantined' \subseteq File
          /\ aside' \subseteq File \X File /\ lost' \subseteq File \X File
      BY <2>8, <3>2, <3>3 DEF SidecarAside, TypeOK
    <3>5. pc' \in [Proc -> {"idle", "open", "quarantine", "setaside", "reopen",
                           "heal", "mark", "ready", "vacuum", "rename",
                           "stamp", "clear", "print", "printed"}]
          /\ UNCHANGED <<kind, now, handle, found, bak, tmp, crumb, clock, damage,
                         committed, backed>>
      BY <2>8 DEF SidecarAside, Goto, TypeOK
    <3> QED BY <3>2, <3>4, <3>5 DEF TypeOK
  <2>9. CASE QuarantineLeaves(p)
    <3>1. PICK s \in SUBSET Row, t \in Time \union {NoStamp} : Separate(s, t)
      BY <2>9 DEF QuarantineLeaves
    <3>2. /\ nfiles + 1 \in File /\ nfiles' \in 0 .. MaxFiles /\ path \in File
          /\ hist' \in [File -> Table]
          /\ stamp' \in [File -> Time \union {NoStamp}]
          /\ corrupt' \subseteq File
      BY <3>1, Separates
    <3>3. <<path, nfiles + 1>> \in File \X File
      BY <3>2
    <3>4. /\ path' \in File \union {NoFile} /\ quarantined' \subseteq File
          /\ aside' \subseteq File \X File /\ lost' \subseteq File \X File
      BY <2>9, <3>2, <3>3 DEF QuarantineLeaves, TypeOK
    <3>5. pc' \in [Proc -> {"idle", "open", "quarantine", "setaside", "reopen",
                           "heal", "mark", "ready", "vacuum", "rename",
                           "stamp", "clear", "print", "printed"}]
          /\ UNCHANGED <<kind, now, handle, found, bak, tmp, crumb, clock, damage,
                         committed, backed>>
      BY <2>9 DEF QuarantineLeaves, Goto, TypeOK
    <3> QED BY <3>2, <3>4, <3>5 DEF TypeOK
  <2>4. CASE Reopen(p)
    BY <2>4, TypeOpen DEF Reopen, OpenAt, TypeOK
  <2>5. CASE Restore(p)
    <3>1. \A f \in File : Plus(hist[f], bak.rows) \in Table
      BY PlusTable DEF TypeOK, Image
    <3>2. hist' \in [File -> Table]
      BY <2>5, <3>1 DEF Restore, TypeOK
    <3> QED BY <2>5, <3>2 DEF Restore, TypeOK, Crumbs
  <2>6. CASE NothingToRestore(p)
    BY <2>6 DEF NothingToRestore, TypeOK, Crumbs
  <2>7. CASE Mark(p)
    BY <2>7 DEF Mark, TypeOK
  <2> QED BY <1>2, <2>1, <2>2, <2>3, <2>4, <2>5, <2>6, <2>7, <2>8, <2>9
             DEF OpenStep
<1>3. ASSUME NEW p \in Proc, CommandStep(p) PROVE TypeOK'
  <2>1. CASE Capture(p)
    <3>1. PICK r \in Row \ committed :
             /\ hist' = [hist EXCEPT ![handle[p]] = Insert(@, r)]
             /\ committed' = committed \union {r}
      BY <2>1 DEF Capture
    <3>2. \A f \in File : Insert(hist[f], r) \in Table
      BY InsertTable DEF TypeOK
    <3>3. hist' \in [File -> Table]
      BY <3>1, <3>2 DEF TypeOK
    <3> QED BY <2>1, <3>1, <3>3, TypeExit DEF Capture, TypeOK
  <2>2. CASE CaptureSkips(p)
    BY <2>2, TypeExit DEF CaptureSkips, TypeOK
  <2>3. CASE BackupGated(p)
    BY <2>3, TypeExit DEF BackupGated, TypeOK
  <2>4. CASE BackupStarts(p)
    <3>1. [state |-> "partial", rows |-> hist[handle[p]], at |-> now[p]]
             \in Image
      BY <2>4 DEF BackupStarts, TypeOK, Image
    <3> QED BY <2>4, <3>1 DEF BackupStarts, Goto, TypeOK
  <2>5. CASE VacuumEnds(p)
    <3>1. [tmp[p] EXCEPT !.state = "complete"] \in Image
      BY DEF TypeOK, Image
    <3> QED BY <2>5, <3>1 DEF VacuumEnds, Goto, TypeOK
  <2>6. CASE RenameBak(p)
    <3>1. backed' \subseteq Row
      BY <2>6 DEF RenameBak, RowsOf, TypeOK
    <3> QED BY <2>6, <3>1, NoImageType DEF RenameBak, Goto, TypeOK
  <2>7. CASE StampBackup(p)
    BY <2>7, TypeExit DEF StampBackup, TypeOK
  <2>8. CASE ReadNotice(p) \/ PrintNotice(p)
    BY <2>8 DEF ReadNotice, PrintNotice, TypeOK
  <2>9. CASE NoNotice(p)
    BY <2>9, TypeExit DEF NoNotice, TypeOK
  <2>10. CASE ClearNotice(p) \/ Printed(p)
    BY <2>10, TypeExit DEF ClearNotice, Printed, Goto, TypeOK
  <2>11. CASE CheckNotice(p)
    BY <2>11, TypeExit DEF CheckNotice, TypeOK
  <2> QED BY <1>3, <2>1, <2>2, <2>3, <2>4, <2>5, <2>6, <2>7, <2>8, <2>9,
             <2>10, <2>11 DEF CommandStep
<1>4. ASSUME NEW p \in Proc, FaultStep(p) PROVE TypeOK'
  <2>1. CASE OpenTransient(p)
    BY <2>1 DEF OpenTransient, NoStore, TypeOK
  <2>2. CASE QuarantineFails(p)
    BY <2>2 DEF QuarantineFails, NoStore, TypeOK
  <2>3. CASE ReopenFails(p)
    BY <2>3 DEF ReopenFails, NoStore, TypeOK
  <2>4. CASE RestoreFails(p)
    BY <2>4 DEF RestoreFails, TypeOK, Crumbs
  <2>5. CASE MarkFails(p)
    BY <2>5 DEF MarkFails, TypeOK
  <2>6. CASE VacuumFails(p)
    BY <2>6, TypeExit, NoImageType DEF VacuumFails, TypeOK
  <2>7. CASE RenameBakFails(p)
    BY <2>7, TypeExit DEF RenameBakFails, TypeOK
  <2>8. CASE StampFails(p)
    BY <2>8, TypeExit DEF StampFails, TypeOK
  <2>9. CASE Die(p)
    BY <2>9, TypeExit DEF Die, TypeOK
  <2>10. CASE SidecarRemoved(p)
    <3>1. PICK s \in SUBSET Row, t \in Time \union {NoStamp} : Separate(s, t)
      BY <2>10 DEF SidecarRemoved
    <3>2. /\ nfiles + 1 \in File /\ nfiles' \in 0 .. MaxFiles /\ path \in File
          /\ hist' \in [File -> Table]
          /\ stamp' \in [File -> Time \union {NoStamp}]
          /\ corrupt' \subseteq File
      BY <3>1, Separates
    <3>3. <<path, nfiles + 1>> \in File \X File
      BY <3>2
    <3>4. /\ path' \in File \union {NoFile} /\ quarantined' \subseteq File
          /\ aside' \subseteq File \X File /\ lost' \subseteq File \X File
      BY <2>10, <3>2, <3>3 DEF SidecarRemoved, TypeOK
    <3>5. pc' \in [Proc -> {"idle", "open", "quarantine", "setaside", "reopen",
                           "heal", "mark", "ready", "vacuum", "rename",
                           "stamp", "clear", "print", "printed"}]
          /\ UNCHANGED <<kind, now, handle, found, bak, tmp, crumb, clock, damage,
                         committed, backed>>
      BY <2>10 DEF SidecarRemoved, Goto, TypeOK
    <3> QED BY <3>2, <3>4, <3>5 DEF TypeOK
  <2> QED BY <1>4, <2>1, <2>2, <2>3, <2>4, <2>5, <2>6, <2>7, <2>8, <2>9,
             <2>10 DEF FaultStep
<1>5. CASE Tick
  BY <1>5 DEF Tick, TypeOK, Time
<1>6. CASE Damage
  BY <1>6 DEF Damage, TypeOK
<1>7. CASE UNCHANGED vars
  BY <1>7 DEF vars, TypeOK
<1> QED BY <1>1, <1>2, <1>3, <1>4, <1>5, <1>6, <1>7 DEF Next

\* Every state the store can reach is well typed, for any number of processes.
THEOREM TypeCorrect == Spec => []TypeOK
BY TypeInit, TypeNext, PTL DEF Spec

-----------------------------------------------------------------------------
(***************************************************************************)
(* No row is destroyed.  NoRowDestroyed is not inductive: it needs to know *)
(* that every file ever created is still under some name, or has become    *)
(* another, newer one without its sidecar, and that a handle is on one of  *)
(* them.  Of the files with a row the newest is then the one to look at.   *)
(***************************************************************************)
Created == 1 .. nfiles

EveryFileNamed ==
  /\ path \in Created \union {NoFile}
  /\ quarantined \subseteq Created
  /\ \A x \in aside \union lost : x[2] \in Created /\ x[1] < x[2]
  /\ \A f \in Created : \/ f = path \/ f \in quarantined
                         \/ \E x \in aside \union lost : x[1] = f

HandlesCreated == \A p \in Proc : handle[p] \in Created \union {NoFile}

RowsKept == \A r \in committed : \E f \in Created : hist[f][r] > 0

KeptInv == TypeOK /\ EveryFileNamed /\ HandlesCreated /\ RowsKept

LEMMA CreatedFiles == TypeOK => Created \subseteq File
BY BoundsAssumption DEF TypeOK, Created, File

LEMMA KeptInit == Init => KeptInv
<1> SUFFICES ASSUME Init PROVE KeptInv
  OBVIOUS
<1>1. TypeOK
  BY TypeInit
<1>2. EveryFileNamed /\ HandlesCreated /\ RowsKept
  BY DEF Init, EveryFileNamed, HandlesCreated, RowsKept, Created
<1> QED BY <1>1, <1>2 DEF KeptInv

\* A step that creates no file, moves none and changes no history keeps it.
LEMMA KeptStutter ==
  ASSUME KeptInv, TypeOK',
         UNCHANGED <<path, nfiles, hist, kept, committed>>,
         \A p \in Proc : handle'[p] \in {handle[p], NoFile}
  PROVE  KeptInv'
BY DEF kept, KeptInv, EveryFileNamed, HandlesCreated, RowsKept, Created

\* A new file: the name is free before, and the new file is under it.
LEMMA KeptOpen == ASSUME KeptInv, TypeOK', NEW p \in Proc, NEW l, OpenAt(p, l)
                  PROVE  KeptInv'
<1> USE BoundsAssumption DEF kept, dir, side, env
<1>1. CASE path # NoFile /\ handle' = [handle EXCEPT ![p] = path] /\ UNCHANGED dir
  BY <1>1 DEF OpenAt, KeptInv, TypeOK, EveryFileNamed, HandlesCreated,
              RowsKept, Created
<1>2. CASE /\ path = NoFile
           /\ nfiles < MaxFiles
           /\ nfiles' = nfiles + 1
           /\ path' = nfiles + 1
           /\ handle' = [handle EXCEPT ![p] = nfiles + 1]
           /\ UNCHANGED <<corrupt, hist, stamp, kept>>
  <2>1. nfiles \in Nat /\ NoFile \notin Created
    BY DEF KeptInv, TypeOK, Created, NoFile
  <2>2. Created' = Created \union {nfiles + 1}
    BY <1>2, <2>1 DEF Created
  <2>3. UNCHANGED committed
    BY DEF OpenAt
  <2>4. EveryFileNamed'
    BY <1>2, <2>1, <2>2 DEF KeptInv, EveryFileNamed
  <2>5. HandlesCreated'
    BY <1>2, <2>2 DEF KeptInv, TypeOK, HandlesCreated
  <2>6. RowsKept'
    BY <1>2, <2>2, <2>3 DEF KeptInv, RowsKept
  <2> QED BY <2>4, <2>5, <2>6 DEF KeptInv
<1> QED BY <1>1, <1>2 DEF OpenAt

\* A main file without its sidecar: the file it was is what has been separated.
LEMMA KeptSeparate ==
  ASSUME KeptInv, TypeOK', NEW s \in SUBSET Row, NEW t \in Time \union {NoStamp},
         Separate(s, t), UNCHANGED <<committed, handle>>,
         (aside \union lost)' = (aside \union lost) \union {<<path, nfiles + 1>>},
         \/ path' = nfiles + 1 /\ quarantined' = quarantined
         \/ path' = NoFile /\ quarantined' = quarantined \union {nfiles + 1}
  PROVE  KeptInv'
<1>0. TypeOK /\ nfiles \in Nat
  BY DEF KeptInv, TypeOK
<1>1. /\ nfiles' = nfiles + 1 /\ path \in File
      /\ \A f \in File : f # nfiles + 1 => hist'[f] = hist[f]
  BY <1>0, Separates
<1>2. Created' = Created \union {nfiles + 1} /\ nfiles + 1 \notin Created
  BY <1>0, <1>1 DEF Created
<1>3. path \in Created /\ path < nfiles + 1
  BY <1>0, <1>1 DEF KeptInv, EveryFileNamed, Created, File, NoFile
<1>4. \A f \in Created : hist'[f] = hist[f]
  BY <1>0, <1>1, <1>2, CreatedFiles
<1>5. EveryFileNamed'
  <2>1. path' \in Created' \union {NoFile} /\ quarantined' \subseteq Created'
    BY <1>2 DEF KeptInv, EveryFileNamed
  <2>2. \A x \in (aside \union lost)' : x[2] \in Created' /\ x[1] < x[2]
    BY <1>2, <1>3 DEF KeptInv, EveryFileNamed
  <2>3. \A f \in Created' : \/ f = path' \/ f \in quarantined'
                           \/ \E x \in (aside \union lost)' : x[1] = f
    <3>1. ASSUME NEW f \in Created
          PROVE  \/ f \in quarantined'
                 \/ \E x \in (aside \union lost)' : x[1] = f
      <4>1. <<path, nfiles + 1>> \in (aside \union lost)' /\ <<path, nfiles + 1>>[1] = path
        OBVIOUS
      <4>2. CASE f = path
        BY <4>1, <4>2
      <4>3. CASE f \in quarantined
        BY <4>3
      <4>4. CASE \E x \in aside \union lost : x[1] = f
        BY <4>4
      <4> QED BY <3>1, <4>2, <4>3, <4>4 DEF KeptInv, EveryFileNamed
    <3>2. nfiles + 1 = path' \/ nfiles + 1 \in quarantined'
      OBVIOUS
    <3> QED BY <1>2, <3>1, <3>2
  <2> QED BY <2>1, <2>2, <2>3 DEF EveryFileNamed
<1>6. HandlesCreated'
  BY <1>2 DEF KeptInv, HandlesCreated
<1>7. RowsKept'
  BY <1>2, <1>4 DEF KeptInv, RowsKept
<1> QED BY <1>5, <1>6, <1>7 DEF KeptInv

LEMMA KeptNext == KeptInv /\ [Next]_vars => KeptInv'
<1> SUFFICES ASSUME KeptInv, [Next]_vars PROVE KeptInv'
  OBVIOUS
<1> USE DEF kept, dir, side, env
<1>0. TypeOK /\ TypeOK'
  BY TypeNext DEF KeptInv
<1>1. ASSUME NEW p \in Proc, Start(p) PROVE KeptInv'
  BY <1>0, <1>1, KeptStutter DEF Start
<1>2. ASSUME NEW p \in Proc, OpenStep(p) PROVE KeptInv'
  <2>1. CASE OpenOk(p)
    BY <1>0, <2>1, KeptOpen DEF OpenOk
  <2>2. CASE OpenCorrupt(p)
    BY <1>0, <2>2, KeptStutter DEF OpenCorrupt, Goto
  <2>3. CASE Quarantine(p)
    BY <1>0, <2>3 DEF Quarantine, Goto, KeptInv, EveryFileNamed,
                      HandlesCreated, RowsKept, Created
  <2>8. CASE SidecarAside(p)
    <3>1. PICK s \in SUBSET Row, t \in Time \union {NoStamp} : Separate(s, t)
      BY <2>8 DEF SidecarAside
    <3> QED BY <1>0, <2>8, <3>1, KeptSeparate DEF SidecarAside, Goto
  <2>9. CASE QuarantineLeaves(p)
    <3>1. PICK s \in SUBSET Row, t \in Time \union {NoStamp} : Separate(s, t)
      BY <2>9 DEF QuarantineLeaves
    <3> QED BY <1>0, <2>9, <3>1, KeptSeparate DEF QuarantineLeaves, Goto
  <2>10. CASE NoSidecar(p)
    BY <1>0, <2>10, KeptStutter DEF NoSidecar, Goto
  <2>4. CASE Reopen(p)
    BY <1>0, <2>4, KeptOpen DEF Reopen
  <2>5. CASE Restore(p)
    <3>1. \A f \in Created, r \in Row : hist'[f][r] >= hist[f][r]
      BY <1>0, <2>5, CreatedFiles DEF Restore, TypeOK, Plus, Table, Image
    <3>2. RowsKept'
      BY <1>0, <2>5, <3>1, CreatedFiles
         DEF Restore, KeptInv, RowsKept, TypeOK, Table, Created
    <3> QED BY <1>0, <2>5, <3>2
            DEF Restore, KeptInv, EveryFileNamed, HandlesCreated, Created
  <2>6. CASE NothingToRestore(p)
    BY <1>0, <2>6, KeptStutter DEF NothingToRestore
  <2>7. CASE Mark(p)
    BY <1>0, <2>7, KeptStutter DEF Mark
  <2> QED BY <1>2, <2>1, <2>2, <2>3, <2>4, <2>5, <2>6, <2>7, <2>8, <2>9,
             <2>10 DEF OpenStep
<1>3. ASSUME NEW p \in Proc, CommandStep(p) PROVE KeptInv'
  <2>1. CASE Capture(p)
    <3>1. PICK r \in Row \ committed :
             /\ hist' = [hist EXCEPT ![handle[p]] = Insert(@, r)]
             /\ committed' = committed \union {r}
      BY <2>1 DEF Capture
    <3>2. handle[p] \in Created /\ handle[p] \in File
      BY <1>0, <2>1, CreatedFiles DEF Capture, KeptInv, HandlesCreated
    <3>3. \A f \in Created, s \in Row : hist'[f][s] >= hist[f][s]
      BY <1>0, <3>1, CreatedFiles DEF TypeOK, Insert, Table
    <3>4. hist'[handle[p]][r] > 0
      BY <1>0, <3>1, <3>2 DEF TypeOK, Insert, Table
    <3>5. RowsKept'
      <4>1. UNCHANGED nfiles
        BY <2>1 DEF Capture
      <4>2. \A s \in committed : \E f \in Created : hist'[f][s] > 0
        BY <1>0, <3>3, CreatedFiles DEF KeptInv, RowsKept, TypeOK, Table
      <4> QED BY <3>1, <3>2, <3>4, <4>1, <4>2 DEF RowsKept, Created
    <3>6. EveryFileNamed' /\ HandlesCreated'
      BY <1>0, <2>1 DEF Capture, Exit, KeptInv, EveryFileNamed, HandlesCreated,
                        TypeOK, Created
    <3> QED BY <1>0, <3>5, <3>6 DEF KeptInv
  <2>2. CASE CaptureSkips(p)
    BY <1>0, <2>2, KeptStutter DEF CaptureSkips, Exit, TypeOK
  <2>3. CASE BackupGated(p)
    BY <1>0, <2>3, KeptStutter DEF BackupGated, Exit, TypeOK
  <2>4. CASE BackupStarts(p)
    BY <1>0, <2>4, KeptStutter DEF BackupStarts, Goto
  <2>5. CASE VacuumEnds(p)
    BY <1>0, <2>5, KeptStutter DEF VacuumEnds, Goto
  <2>6. CASE RenameBak(p)
    BY <1>0, <2>6, KeptStutter DEF RenameBak, Goto
  <2>7. CASE StampBackup(p)
    BY <1>0, <2>7, KeptStutter DEF StampBackup, Exit, TypeOK
  <2>8. CASE ReadNotice(p) \/ PrintNotice(p)
    BY <1>0, <2>8, KeptStutter DEF ReadNotice, PrintNotice
  <2>9. CASE NoNotice(p)
    BY <1>0, <2>9, KeptStutter DEF NoNotice, Exit, TypeOK
  <2>10. CASE ClearNotice(p) \/ Printed(p)
    BY <1>0, <2>10, KeptStutter DEF ClearNotice, Printed, Goto, Exit, TypeOK
  <2>11. CASE CheckNotice(p)
    BY <1>0, <2>11, KeptStutter DEF CheckNotice, Exit, TypeOK
  <2> QED BY <1>3, <2>1, <2>2, <2>3, <2>4, <2>5, <2>6, <2>7, <2>8, <2>9,
             <2>10, <2>11 DEF CommandStep
<1>4. ASSUME NEW p \in Proc, FaultStep(p) PROVE KeptInv'
  <2>1. CASE SidecarRemoved(p)
    <3>1. PICK s \in SUBSET Row, t \in Time \union {NoStamp} : Separate(s, t)
      BY <2>1 DEF SidecarRemoved
    <3> QED BY <1>0, <2>1, <3>1, KeptSeparate DEF SidecarRemoved, Goto
  <2>2. CASE ~ SidecarRemoved(p)
    BY <1>0, <1>4, <2>2, KeptStutter
       DEF FaultStep, OpenTransient, QuarantineFails, ReopenFails, NoStore,
           RestoreFails, MarkFails, VacuumFails, RenameBakFails, StampFails,
           Die, Exit, TypeOK
  <2> QED BY <2>1, <2>2
<1>5. CASE Tick
  BY <1>0, <1>5, KeptStutter DEF Tick
<1>6. CASE Damage
  BY <1>0, <1>6, KeptStutter DEF Damage
<1>7. CASE UNCHANGED vars
  BY <1>0, <1>7, KeptStutter DEF vars
<1> QED BY <1>1, <1>2, <1>3, <1>4, <1>5, <1>6, <1>7 DEF Next

LEMMA KeptImplies == KeptInv => NoRowDestroyed
<1> SUFFICES ASSUME KeptInv, NEW r \in committed
             PROVE  \/ path # NoFile /\ hist[path][r] > 0
                    \/ \E f \in quarantined : hist[f][r] > 0
                    \/ \E x \in aside \union lost : r \in Logged(x)
  BY DEF NoRowDestroyed
<1> DEFINE S == {f \in Created : hist[f][r] > 0}
<1>1. S \subseteq Nat /\ S # {} /\ nfiles \in Nat /\ \A f \in S : f <= nfiles
  BY DEF KeptInv, RowsKept, TypeOK, Created
<1>2. Max(S) \in S /\ \A f \in S : f <= Max(S)
  BY <1>1, MaxIsIn
<1>3. PICK m \in S : \A f \in S : f <= m
  BY <1>2
<1>4. m \in Created /\ hist[m][r] > 0 /\ m # NoFile /\ m \in Nat
  BY <1>1 DEF Created, NoFile
<1>5. ASSUME NEW x \in aside \union lost, x[1] = m PROVE r \in Logged(x)
  <2>1. x[2] \in Created /\ m < x[2] /\ x[2] \in Nat /\ r \in Row
    BY <1>5 DEF KeptInv, EveryFileNamed, TypeOK, Created
  <2>2. ~ hist[x[2]][r] > 0
    BY <1>3, <1>4, <2>1
  <2> QED BY <1>4, <1>5, <2>1, <2>2 DEF Logged, RowsOf
<1>6. m = path \/ m \in quarantined \/ \E x \in aside \union lost : x[1] = m
  BY <1>4 DEF KeptInv, EveryFileNamed
<1> QED BY <1>4, <1>5, <1>6

\* A committed history row is in the live file, in a quarantined one or in what
\* a separated sidecar held and no main file did, in every interleaving of any
\* number of processes, failures and corruptions.
THEOREM RowsSurvive == Spec => []NoRowDestroyed
BY KeptInit, KeptNext, KeptImplies, PTL DEF Spec


-----------------------------------------------------------------------------
(***************************************************************************)
(* The backup is genuine.  What is about to be renamed over .bak is a      *)
(* finished image, and every table anywhere holds committed rows only.     *)
(***************************************************************************)
TablesCommitted == \A f \in File : RowsOf(hist[f]) \subseteq committed
ImagesCommitted == /\ RowsOf(bak.rows) \subseteq committed
                   /\ \A p \in Proc : RowsOf(tmp[p].rows) \subseteq committed
RenamesComplete == /\ bak.state \in {"absent", "complete"}
                   /\ \A p \in Proc : pc[p] = "rename" => tmp[p].state = "complete"

GenuineInv == TypeOK /\ TablesCommitted /\ ImagesCommitted /\ RenamesComplete

LEMMA NoRowsEmpty == RowsOf(NoRows) = {}
BY DEF RowsOf, NoRows

LEMMA GenuineInit == Init => GenuineInv
<1> SUFFICES ASSUME Init PROVE GenuineInv
  OBVIOUS
<1>1. TypeOK
  BY TypeInit
<1>2. TablesCommitted /\ ImagesCommitted /\ RenamesComplete
  BY NoRowsEmpty DEF Init, TablesCommitted, ImagesCommitted, RenamesComplete,
                     NoImage
<1> QED BY <1>1, <1>2 DEF GenuineInv

\* A step that leaves tables and images alone and renames nothing keeps it.
LEMMA GenuineStutter ==
  ASSUME GenuineInv, TypeOK', UNCHANGED <<hist, bak, tmp, committed>>,
         \A p \in Proc : pc'[p] = "rename" => pc[p] = "rename"
  PROVE  GenuineInv'
BY DEF GenuineInv, TablesCommitted, ImagesCommitted, RenamesComplete

\* A main file without its sidecar has a part of the rows.
LEMMA GenuineSeparate ==
  ASSUME GenuineInv, TypeOK', NEW s \in SUBSET Row, NEW t \in Time \union {NoStamp},
         Separate(s, t), UNCHANGED <<bak, tmp, committed>>,
         \A p \in Proc : pc'[p] = "rename" => pc[p] = "rename"
  PROVE  GenuineInv'
<1>1. TypeOK /\ path \in File /\ nfiles + 1 \in File
  BY Separates DEF GenuineInv
<1>2. hist'[nfiles + 1] = Part(hist[path], s)
  BY <1>1 DEF Separate, TypeOK
<1>3. RowsOf(Part(hist[path], s)) \subseteq RowsOf(hist[path])
  BY DEF RowsOf, Part
<1>4. \A f \in File : f # nfiles + 1 => hist'[f] = hist[f]
  BY <1>1, Separates
<1>5. TablesCommitted'
  BY <1>1, <1>2, <1>3, <1>4 DEF GenuineInv, TablesCommitted
<1> QED BY <1>5 DEF GenuineInv, ImagesCommitted, RenamesComplete

LEMMA GenuineNext == GenuineInv /\ [Next]_vars => GenuineInv'
<1> SUFFICES ASSUME GenuineInv, [Next]_vars PROVE GenuineInv'
  OBVIOUS
<1> USE DEF kept, dir, side, env
<1>0. TypeOK /\ TypeOK'
  BY TypeNext DEF GenuineInv
<1>1. ASSUME NEW p \in Proc, Start(p) PROVE GenuineInv'
  BY <1>0, <1>1, GenuineStutter DEF Start, TypeOK
<1>2. ASSUME NEW p \in Proc, OpenStep(p) PROVE GenuineInv'
  <2>1. CASE OpenOk(p)
    BY <1>0, <2>1, GenuineStutter DEF OpenOk, OpenAt, TypeOK
  <2>2. CASE OpenCorrupt(p)
    BY <1>0, <2>2, GenuineStutter DEF OpenCorrupt, Goto, TypeOK
  <2>3. CASE Quarantine(p) \/ NoSidecar(p)
    BY <1>0, <2>3, GenuineStutter DEF Quarantine, NoSidecar, Goto, TypeOK
  <2>8. CASE SidecarAside(p)
    <3>1. PICK s \in SUBSET Row, t \in Time \union {NoStamp} : Separate(s, t)
      BY <2>8 DEF SidecarAside
    <3> QED BY <1>0, <2>8, <3>1, GenuineSeparate DEF SidecarAside, Goto, TypeOK
  <2>9. CASE QuarantineLeaves(p)
    <3>1. PICK s \in SUBSET Row, t \in Time \union {NoStamp} : Separate(s, t)
      BY <2>9 DEF QuarantineLeaves
    <3> QED BY <1>0, <2>9, <3>1, GenuineSeparate
            DEF QuarantineLeaves, Goto, TypeOK
  <2>4. CASE Reopen(p)
    BY <1>0, <2>4, GenuineStutter DEF Reopen, OpenAt, TypeOK
  <2>5. CASE Restore(p)
    <3>1. \A f \in File : RowsOf(Plus(hist[f], bak.rows)) \subseteq committed
      BY <1>0 DEF GenuineInv, TablesCommitted, ImagesCommitted, RowsOf, Plus,
                  TypeOK, Table, Image
    <3>2. TablesCommitted'
      BY <1>0, <2>5, <3>1 DEF Restore, TypeOK, GenuineInv, TablesCommitted
    <3>3. ImagesCommitted' /\ RenamesComplete'
      BY <1>0, <2>5 DEF Restore, GenuineInv, ImagesCommitted, RenamesComplete,
                        TypeOK
    <3> QED BY <1>0, <3>2, <3>3 DEF GenuineInv
  <2>6. CASE NothingToRestore(p)
    BY <1>0, <2>6, GenuineStutter DEF NothingToRestore, TypeOK
  <2>7. CASE Mark(p)
    BY <1>0, <2>7, GenuineStutter DEF Mark, TypeOK
  <2> QED BY <1>2, <2>1, <2>2, <2>3, <2>4, <2>5, <2>6, <2>7, <2>8, <2>9
             DEF OpenStep
<1>3. ASSUME NEW p \in Proc, CommandStep(p) PROVE GenuineInv'
  <2>1. CASE Capture(p)
    <3>1. PICK r \in Row \ committed :
             /\ hist' = [hist EXCEPT ![handle[p]] = Insert(@, r)]
             /\ committed' = committed \union {r}
      BY <2>1 DEF Capture
    <3>2. \A f \in File : RowsOf(Insert(hist[f], r)) \subseteq committed \union {r}
      BY <1>0 DEF GenuineInv, TablesCommitted, RowsOf, Insert, TypeOK, Table
    <3>3. TablesCommitted'
      BY <1>0, <3>1, <3>2 DEF GenuineInv, TablesCommitted, TypeOK
    <3>4. ImagesCommitted' /\ RenamesComplete'
      BY <1>0, <2>1, <3>1 DEF Capture, Exit, GenuineInv, ImagesCommitted,
                              RenamesComplete, TypeOK
    <3> QED BY <1>0, <3>3, <3>4 DEF GenuineInv
  <2>2. CASE CaptureSkips(p)
    BY <1>0, <2>2, GenuineStutter DEF CaptureSkips, Exit, TypeOK
  <2>3. CASE BackupGated(p)
    BY <1>0, <2>3, GenuineStutter DEF BackupGated, Exit, TypeOK
  <2>4. CASE BackupStarts(p)
    <3>1. handle[p] \in File
      BY <1>0, <2>4 DEF BackupStarts, TypeOK
    <3>2. ImagesCommitted'
      BY <1>0, <2>4, <3>1 DEF BackupStarts, GenuineInv, TablesCommitted,
                              ImagesCommitted, TypeOK
    <3>3. TablesCommitted' /\ RenamesComplete'
      BY <1>0, <2>4 DEF BackupStarts, Goto, GenuineInv, TablesCommitted,
                        RenamesComplete, TypeOK
    <3> QED BY <1>0, <3>2, <3>3 DEF GenuineInv
  <2>5. CASE VacuumEnds(p)
    <3>1. tmp'[p].state = "complete" /\ tmp'[p].rows = tmp[p].rows
      BY <1>0, <2>5 DEF VacuumEnds, TypeOK, Image
    <3>2. \A q \in Proc \ {p} : tmp'[q] = tmp[q] /\ pc'[q] = pc[q]
      BY <1>0, <2>5 DEF VacuumEnds, Goto, TypeOK
    <3> QED BY <1>0, <2>5, <3>1, <3>2
            DEF VacuumEnds, GenuineInv, TablesCommitted, ImagesCommitted,
                RenamesComplete
  <2>6. CASE RenameBak(p)
    <3>1. bak'.state = "complete" /\ RowsOf(bak'.rows) \subseteq committed
      BY <2>6 DEF RenameBak, GenuineInv, ImagesCommitted, RenamesComplete
    <3>2. \A q \in Proc : RowsOf(tmp'[q].rows) \subseteq committed
      BY <1>0, <2>6, NoRowsEmpty
         DEF RenameBak, GenuineInv, ImagesCommitted, TypeOK, NoImage
    <3>3. \A q \in Proc : pc'[q] = "rename" => pc[q] = "rename" /\ q # p
      BY <1>0, <2>6 DEF RenameBak, Goto, TypeOK
    <3>4. \A q \in Proc \ {p} : tmp'[q] = tmp[q]
      BY <1>0, <2>6 DEF RenameBak, TypeOK
    <3> QED BY <1>0, <2>6, <3>1, <3>2, <3>3, <3>4
            DEF RenameBak, GenuineInv, TablesCommitted, ImagesCommitted,
                RenamesComplete
  <2>7. CASE StampBackup(p)
    BY <1>0, <2>7, GenuineStutter DEF StampBackup, Exit, TypeOK
  <2>8. CASE ReadNotice(p) \/ PrintNotice(p)
    BY <1>0, <2>8, GenuineStutter DEF ReadNotice, PrintNotice, TypeOK
  <2>9. CASE NoNotice(p)
    BY <1>0, <2>9, GenuineStutter DEF NoNotice, Exit, TypeOK
  <2>10. CASE ClearNotice(p) \/ Printed(p)
    BY <1>0, <2>10, GenuineStutter DEF ClearNotice, Printed, Goto, Exit, TypeOK
  <2>11. CASE CheckNotice(p)
    BY <1>0, <2>11, GenuineStutter DEF CheckNotice, Exit, TypeOK
  <2> QED BY <1>3, <2>1, <2>2, <2>3, <2>4, <2>5, <2>6, <2>7, <2>8, <2>9,
             <2>10, <2>11 DEF CommandStep
<1>4. ASSUME NEW p \in Proc, FaultStep(p) PROVE GenuineInv'
  <2>1. CASE VacuumFails(p)
    <3>1. \A q \in Proc : RowsOf(tmp'[q].rows) \subseteq committed
      BY <1>0, <2>1, NoRowsEmpty
         DEF VacuumFails, GenuineInv, ImagesCommitted, TypeOK, NoImage
    <3>2. \A q \in Proc : pc'[q] = "rename" => q # p /\ pc[q] = "rename"
      BY <1>0, <2>1 DEF VacuumFails, Exit, TypeOK
    <3>3. \A q \in Proc \ {p} : tmp'[q] = tmp[q]
      BY <1>0, <2>1 DEF VacuumFails, TypeOK
    <3> QED BY <1>0, <2>1, <3>1, <3>2, <3>3
            DEF VacuumFails, GenuineInv, TablesCommitted, ImagesCommitted,
                RenamesComplete
  <2>2. CASE OpenTransient(p) \/ QuarantineFails(p) \/ ReopenFails(p)
    BY <1>0, <2>2, GenuineStutter
       DEF OpenTransient, QuarantineFails, ReopenFails, NoStore, TypeOK
  <2>3. CASE RestoreFails(p) \/ MarkFails(p)
    BY <1>0, <2>3, GenuineStutter DEF RestoreFails, MarkFails, TypeOK
  <2>4. CASE RenameBakFails(p) \/ StampFails(p) \/ Die(p)
    BY <1>0, <2>4, GenuineStutter DEF RenameBakFails, StampFails, Die, Exit,
                                      TypeOK
  <2>5. CASE SidecarRemoved(p)
    <3>1. PICK s \in SUBSET Row, t \in Time \union {NoStamp} : Separate(s, t)
      BY <2>5 DEF SidecarRemoved
    <3> QED BY <1>0, <2>5, <3>1, GenuineSeparate DEF SidecarRemoved, Goto, TypeOK
  <2> QED BY <1>4, <2>1, <2>2, <2>3, <2>4, <2>5 DEF FaultStep
<1>5. CASE Tick
  BY <1>0, <1>5, GenuineStutter DEF Tick
<1>6. CASE Damage
  BY <1>0, <1>6, GenuineStutter DEF Damage
<1>7. CASE UNCHANGED vars
  BY <1>0, <1>7, GenuineStutter DEF vars
<1> QED BY <1>1, <1>2, <1>3, <1>4, <1>5, <1>6, <1>7 DEF Next

\* .bak is always a finished image of committed rows, whichever backups race,
\* fail or die while they replace it.
THEOREM BackupGenuine == Spec => []BakIsGenuine
<1>1. GenuineInv => BakIsGenuine
  BY DEF GenuineInv, BakIsGenuine, ImagesCommitted, RenamesComplete
<1> QED BY <1>1, GenuineInit, GenuineNext, PTL DEF Spec

-----------------------------------------------------------------------------
(***************************************************************************)
(* The breadcrumb.                                                         *)
(***************************************************************************)
NoticeInv == /\ TypeOK
             /\ \A p \in Proc : pc[p] = "clear" => kind[p] = "status"
             /\ \A p \in Proc : pc[p] = "mark" => found[p] # "none"

LEMMA NoticeNext == NoticeInv /\ [Next]_vars => NoticeInv'
<1> SUFFICES ASSUME NoticeInv, [Next]_vars PROVE NoticeInv'
  OBVIOUS
<1> USE DEF kept, dir, side, env
<1>0. TypeOK /\ TypeOK'
  BY TypeNext DEF NoticeInv
<1>1. ASSUME NEW p \in Proc, Start(p) PROVE NoticeInv'
  BY <1>0, <1>1 DEF Start, NoticeInv, TypeOK
<1>2. ASSUME NEW p \in Proc, OpenStep(p) PROVE NoticeInv'
  BY <1>0, <1>2
     DEF OpenStep, OpenOk, OpenAt, OpenCorrupt, SidecarAside, NoSidecar,
         Quarantine, QuarantineLeaves, Reopen, Restore, NothingToRestore, Mark, Goto, NoticeInv, TypeOK
<1>3. ASSUME NEW p \in Proc, CommandStep(p) PROVE NoticeInv'
  BY <1>0, <1>3
     DEF CommandStep, Capture, CaptureSkips, BackupGated, BackupStarts,
         VacuumEnds, RenameBak, StampBackup, ReadNotice, NoNotice,
         ClearNotice, PrintNotice, Printed, CheckNotice, Goto, Exit, NoticeInv, TypeOK
<1>4. ASSUME NEW p \in Proc, FaultStep(p) PROVE NoticeInv'
  <2>1. CASE \/ OpenTransient(p) \/ SidecarRemoved(p) \/ QuarantineFails(p)
             \/ ReopenFails(p)
    BY <1>0, <2>1
       DEF OpenTransient, SidecarRemoved, QuarantineFails, ReopenFails, NoStore,
           Goto, NoticeInv, TypeOK
  <2>2. CASE RestoreFails(p) \/ MarkFails(p)
    BY <1>0, <2>2 DEF RestoreFails, MarkFails, NoticeInv, TypeOK
  <2>3. CASE VacuumFails(p) \/ RenameBakFails(p) \/ StampFails(p) \/ Die(p)
    BY <1>0, <2>3
       DEF VacuumFails, RenameBakFails, StampFails, Die, Exit, NoticeInv, TypeOK
  <2> QED BY <1>4, <2>1, <2>2, <2>3 DEF FaultStep
<1>5. CASE Tick \/ Damage \/ UNCHANGED vars
  BY <1>0, <1>5 DEF Tick, Damage, vars, NoticeInv
<1> QED BY <1>1, <1>2, <1>3, <1>4, <1>5 DEF Next

\* The step of a process that removes the breadcrumb is status clearing it.
LEMMA ClearStep ==
  ASSUME NoticeInv, [Next]_vars, crumb # "none", crumb' = "none"
  PROVE  \E p \in Proc : pc[p] = "clear" /\ kind[p] = "status"
<1> USE DEF kept, dir, side, env
<1>1. ASSUME NEW p \in Proc, Mark(p) PROVE FALSE
  BY <1>1 DEF Mark, NoticeInv, TypeOK
<1>2. ASSUME NEW p \in Proc, OpenStep(p), ~ Mark(p) PROVE crumb' = crumb
  BY <1>2 DEF OpenStep, OpenOk, OpenAt, OpenCorrupt, SidecarAside, NoSidecar,
              Quarantine, QuarantineLeaves, Reopen, Restore, NothingToRestore
<1>3. ASSUME NEW p \in Proc, CommandStep(p), ~ ClearNotice(p)
      PROVE  crumb' = crumb
  BY <1>3 DEF CommandStep, Capture, CaptureSkips, BackupGated, BackupStarts,
              VacuumEnds, RenameBak, StampBackup, ReadNotice, NoNotice,
              PrintNotice, Printed, CheckNotice
<1>4. ASSUME NEW p \in Proc, FaultStep(p) PROVE crumb' = crumb
  BY <1>4 DEF FaultStep, OpenTransient, SidecarRemoved, QuarantineFails, ReopenFails,
              RestoreFails, MarkFails, VacuumFails, RenameBakFails,
              StampFails, Die
<1>5. ASSUME NEW p \in Proc, ClearNotice(p)
      PROVE  pc[p] = "clear" /\ kind[p] = "status"
  BY <1>5 DEF ClearNotice, NoticeInv
<1>6. ASSUME NEW p \in Proc, Start(p) PROVE crumb' = crumb
  BY <1>6 DEF Start
<1>7. CASE Tick \/ Damage \/ UNCHANGED vars
  BY <1>7 DEF Tick, Damage, vars
<1> QED BY <1>1, <1>2, <1>3, <1>4, <1>5, <1>6, <1>7 DEF Next

\* Only a status that has read a notice removes the breadcrumb: no loop of
\* check, no render and no heal consumes it.
THEOREM NoticeKept == Spec => OnlyStatusClears
<1>1. Init => NoticeInv
  BY TypeInit DEF Init, NoticeInv
<1>2. NoticeInv /\ [Next]_vars =>
        [crumb # "none" /\ crumb' = "none" =>
           \E p \in Proc : pc[p] = "clear" /\ kind[p] = "status"]_vars
  BY ClearStep
<1> QED BY <1>1, <1>2, NoticeNext, PTL DEF Spec, OnlyStatusClears

-----------------------------------------------------------------------------
(***************************************************************************)
(* What holds when one process runs at a time and no step inside the heal  *)
(* fails: the promise of HistoryPromise is kept, for every number of rows, *)
(* files, corruptions and clock values, whatever fails or dies outside of  *)
(* the heal and of a status about to print the notice.                     *)
(***************************************************************************)
OneAtATime == \A p, q \in Proc : p = q
Gentle     == Faults \intersect {"reopen", "restore", "mark", "crash", "unseen"} = {}
Alone      == OneAtATime /\ Gentle

Quiet == \A p \in Proc : pc[p] \notin {"reopen", "heal"}

OnPath == \A p \in Proc :
  /\ handle[p] \in {NoFile, path}
  /\ pc[p] \in {"idle", "open", "quarantine", "setaside", "reopen"} =>
       handle[p] = NoFile
  /\ pc[p] \in {"heal", "vacuum", "rename", "stamp"} => handle[p] # NoFile
  /\ pc[p] \in {"quarantine", "setaside"} => ProbeFails
  /\ pc[p] = "reopen" => path = NoFile
  /\ pc[p] = "heal" => hist[path] = NoRows

NewFilesEmpty ==
  /\ path <= nfiles
  /\ \A f \in File : f > nfiles => /\ hist[f] = NoRows
                                   /\ stamp[f] = NoStamp
                                   /\ f \notin corrupt

BackupHeld ==
  /\ Saved = backed
  /\ Quiet /\ path = NoFile => backed = {}
  /\ Quiet /\ path # NoFile /\ path \notin corrupt =>
       backed \subseteq RowsOf(hist[path])
  /\ \A p \in Proc : pc[p] \in {"vacuum", "rename"} =>
       tmp[p].rows = hist[handle[p]] /\ tmp[p].at = now[p]
  /\ \A p \in Proc : pc[p] = "rename" => backed \subseteq RowsOf(tmp[p].rows)

Dated ==
  /\ bak.at <= clock
  /\ \A p \in Proc : now[p] <= clock /\ (pc[p] # "idle" => bak.at <= now[p])
  /\ \A p \in Proc :
       pc[p] = "stamp" => bak.state = "complete" /\ bak.at = now[p]
  /\ StampHasBackup

Shows == \A p \in Proc : pc[p] = "clear" => crumb # "none"

SeqInv == Alone /\ OnPath /\ NewFilesEmpty /\ BackupHeld /\ Dated /\ Shows

LEMMA Solo == ASSUME Alone, NEW p \in Proc
              PROVE  \A q \in Proc : q = p
BY DEF Alone, OneAtATime

\* The faults that Alone excludes.
LEMMA NoHealFault == ASSUME Alone
                     PROVE  /\ "reopen" \notin Faults /\ "restore" \notin Faults
                            /\ "mark" \notin Faults /\ "crash" \notin Faults
                            /\ "unseen" \notin Faults
BY DEF Alone, Gentle

LEMMA SeqInit == Init /\ Alone => SeqInv
<1> SUFFICES ASSUME Init, Alone PROVE SeqInv
  OBVIOUS
<1> USE BoundsAssumption DEF Init
<1>1. OnPath
  BY DEF OnPath
<1>2. NewFilesEmpty
  BY DEF NewFilesEmpty, NoFile
<1>4. BackupHeld
  BY DEF BackupHeld, Saved, NoImage
<1>5. Dated
  BY DEF Dated, StampHasBackup, NoImage
<1>6. Shows
  BY DEF Shows
<1> QED BY <1>1, <1>2, <1>4, <1>5, <1>6 DEF SeqInv

\* The step of OpenAt, by what it finds.
LEMMA OpensPath ==
  ASSUME TypeOK, SeqInv, NEW p \in Proc, NEW l, OpenAt(p, l)
  PROVE  /\ pc'[p] = l
         /\ \/ /\ path # NoFile /\ path \notin corrupt
               /\ handle'[p] = path
               /\ UNCHANGED dir
            \/ /\ path = NoFile
               /\ path' = nfiles + 1 /\ nfiles' = nfiles + 1
               /\ path' \in File /\ path' # NoFile /\ path' \notin corrupt
               /\ hist[path'] = NoRows /\ stamp[path'] = NoStamp
               /\ handle'[p] = path'
               /\ UNCHANGED <<corrupt, hist, stamp, kept>>
<1> USE BoundsAssumption DEF kept, dir, side, env
<1>1. pc'[p] = l
  BY DEF OpenAt, TypeOK
<1>2. CASE path # NoFile /\ handle' = [handle EXCEPT ![p] = path] /\ UNCHANGED dir
  BY <1>1, <1>2 DEF OpenAt, TypeOK, ProbeFails
<1>3. CASE /\ path = NoFile
           /\ nfiles < MaxFiles
           /\ nfiles' = nfiles + 1
           /\ path' = nfiles + 1
           /\ handle' = [handle EXCEPT ![p] = nfiles + 1]
           /\ UNCHANGED <<corrupt, hist, stamp, kept>>
  <2>1. nfiles + 1 \in File /\ nfiles + 1 > nfiles /\ nfiles + 1 # NoFile
    BY <1>3 DEF TypeOK, File, NoFile
  <2>2. hist[nfiles + 1] = NoRows /\ stamp[nfiles + 1] = NoStamp
        /\ nfiles + 1 \notin corrupt
    BY <2>1 DEF SeqInv, NewFilesEmpty
  <2> QED BY <1>1, <1>3, <2>1, <2>2 DEF TypeOK
<1> QED BY <1>2, <1>3 DEF OpenAt

\* The step of a sidecar, with one process: a corrupt file takes the place of a
\* corrupt one.
Separation(p) == SidecarAside(p) \/ SidecarRemoved(p)

LEMMA SeparatesPath ==
  ASSUME TypeOK, SeqInv, NEW p \in Proc, Separation(p)
  PROVE  /\ pc[p] = "quarantine" /\ pc'[p] = "setaside"
         /\ path # NoFile /\ path \in corrupt /\ path \in File
         /\ path' = nfiles + 1 /\ nfiles' = nfiles + 1
         /\ path' \in File /\ path' # NoFile /\ path' \in corrupt'
         /\ corrupt' = corrupt \union {nfiles + 1}
         /\ \A f \in File : f # nfiles + 1 => hist'[f] = hist[f] /\ stamp'[f] = stamp[f]
         /\ stamp'[path'] <= stamp[path] /\ stamp'[path'] \in Time \union {NoStamp}
         /\ UNCHANGED <<kind, now, handle, found, bak, tmp, crumb, clock, damage,
                        committed, backed>>
<1> USE DEF kept, dir, side, env
<1>1. PICK s \in SUBSET Row, t \in Time \union {NoStamp} : Separate(s, t)
  BY DEF Separation, SidecarAside, SidecarRemoved
<1>2. /\ pc[p] = "quarantine" /\ pc'[p] = "setaside" /\ path' = nfiles + 1
      /\ UNCHANGED <<kind, now, handle, found, bak, tmp, crumb, clock, damage,
                     committed, backed>>
  BY DEF Separation, SidecarAside, SidecarRemoved, Goto, TypeOK
<1>3. path # NoFile /\ path \in corrupt
  BY <1>2 DEF SeqInv, OnPath, ProbeFails
<1>4. /\ nfiles + 1 \in File /\ nfiles' = nfiles + 1 /\ path \in File
      /\ stamp'[nfiles + 1] = t /\ t <= stamp[path]
      /\ \A f \in File : f # nfiles + 1 => hist'[f] = hist[f]
      /\ \A f \in File : f # nfiles + 1 => stamp'[f] = stamp[f]
  BY <1>1, Separates
<1>5. corrupt' = corrupt \union {nfiles + 1}
  BY <1>1, <1>3 DEF Separate
<1>6. path' # NoFile
  BY <1>2, <1>4 DEF File, NoFile
<1> QED BY <1>2, <1>3, <1>4, <1>5, <1>6

\* Nobody has the corrupt file open.
LEMMA LeavesNothing ==
  ASSUME TypeOK, SeqInv, NEW p \in Proc PROVE ~ QuarantineLeaves(p)
<1>1. \A q \in Proc : q = p
  BY Solo DEF SeqInv
<1> QED BY <1>1 DEF QuarantineLeaves, InUse, SeqInv, OnPath

-----------------------------------------------------------------------------
(***************************************************************************)
(* One lemma per part of the invariant.                                    *)
(***************************************************************************)
LEMMA OnPathNext == ASSUME TypeOK, TypeOK', SeqInv, [Next]_vars PROVE OnPath'
<1> USE DEF kept, dir, side, env
<1>1. ASSUME NEW p \in Proc, Start(p) PROVE OnPath'
  BY <1>1, Solo DEF Start, SeqInv, OnPath, TypeOK
<1>2. ASSUME NEW p \in Proc, OpenStep(p) PROVE OnPath'
  <2>0. \A q \in Proc : q = p
    BY Solo DEF SeqInv
  <2>1. CASE OpenOk(p)
    BY <2>0, <2>1, OpensPath DEF OpenOk, OnPath
  <2>2. CASE Reopen(p)
    BY <2>0, <2>2, OpensPath DEF Reopen, OnPath, SeqInv
  <2>3. CASE OpenCorrupt(p)
    BY <2>0, <2>3 DEF OpenCorrupt, Goto, SeqInv, OnPath, TypeOK, ProbeFails
  <2>4. CASE Quarantine(p)
    BY <2>0, <2>4 DEF Quarantine, Goto, SeqInv, OnPath, TypeOK
  <2>6. CASE SidecarAside(p)
    BY <2>0, <2>6, SeparatesPath DEF Separation, OnPath, SeqInv, ProbeFails
  <2>7. CASE NoSidecar(p)
    BY <2>0, <2>7 DEF NoSidecar, Goto, SeqInv, OnPath, TypeOK, ProbeFails
  <2>5. CASE Restore(p) \/ NothingToRestore(p) \/ Mark(p)
    BY <2>0, <2>5 DEF Restore, NothingToRestore, Mark, SeqInv, OnPath, TypeOK
  <2> QED BY <1>2, <2>1, <2>2, <2>3, <2>4, <2>5, <2>6, <2>7, LeavesNothing
          DEF OpenStep
<1>3. ASSUME NEW p \in Proc, CommandStep(p) PROVE OnPath'
  <2>0. \A q \in Proc : q = p
    BY Solo DEF SeqInv
  <2> QED BY <1>3, <2>0
     DEF CommandStep, Capture, CaptureSkips, BackupGated, BackupStarts,
         VacuumEnds, RenameBak, StampBackup, ReadNotice, NoNotice,
         ClearNotice, PrintNotice, Printed, CheckNotice, Goto, Exit, SeqInv,
         OnPath, TypeOK
<1>4. ASSUME NEW p \in Proc, FaultStep(p) PROVE OnPath'
  <2>0. \A q \in Proc : q = p
    BY Solo DEF SeqInv
  <2>1. CASE SidecarRemoved(p)
    BY <2>0, <2>1, SeparatesPath DEF Separation, OnPath, SeqInv, ProbeFails
  <2>2. CASE ~ SidecarRemoved(p)
    BY <1>4, <2>0, <2>2
       DEF FaultStep, OpenTransient, QuarantineFails, ReopenFails, RestoreFails,
           MarkFails, VacuumFails, RenameBakFails, StampFails, Die, NoStore,
           Exit, SeqInv, OnPath, TypeOK
  <2> QED BY <2>1, <2>2
<1>5. CASE Tick \/ UNCHANGED vars
  BY <1>5 DEF Tick, vars, SeqInv, OnPath, ProbeFails
<1>6. CASE Damage
  BY <1>6 DEF Damage, SeqInv, OnPath, ProbeFails
<1> QED BY <1>1, <1>2, <1>3, <1>4, <1>5, <1>6 DEF Next

LEMMA NewFilesNext ==
  ASSUME TypeOK, TypeOK', SeqInv, [Next]_vars PROVE NewFilesEmpty'
<1> USE BoundsAssumption DEF kept, dir, side, env
<1>1. ASSUME NEW p \in Proc, OpenStep(p) PROVE NewFilesEmpty'
  <2>1. CASE OpenOk(p) \/ Reopen(p)
    BY <2>1 DEF OpenOk, Reopen, OpenAt, SeqInv, NewFilesEmpty, TypeOK, File
  <2>2. CASE Quarantine(p)
    BY <2>2 DEF Quarantine, SeqInv, NewFilesEmpty, TypeOK, NoFile
  <2>3. CASE Restore(p)
    <3>1. handle[p] = path
      BY <2>3 DEF Restore, SeqInv, OnPath
    <3> QED BY <2>3, <3>1 DEF Restore, SeqInv, NewFilesEmpty, TypeOK, File, NoFile
  <2>4. CASE OpenCorrupt(p) \/ NoSidecar(p) \/ NothingToRestore(p) \/ Mark(p)
    BY <2>4 DEF OpenCorrupt, NoSidecar, NothingToRestore, Mark, SeqInv,
                NewFilesEmpty
  <2>5. CASE SidecarAside(p)
    BY <2>5, SeparatesPath DEF Separation, SeqInv, NewFilesEmpty, TypeOK, File
  <2> QED BY <1>1, <2>1, <2>2, <2>3, <2>4, <2>5, LeavesNothing DEF OpenStep
<1>2. ASSUME NEW p \in Proc, CommandStep(p) PROVE NewFilesEmpty'
  <2>1. CASE Capture(p)
    <3>1. handle[p] = path /\ path \in File
      BY <2>1 DEF Capture, SeqInv, OnPath, TypeOK
    <3> QED BY <2>1, <3>1 DEF Capture, SeqInv, NewFilesEmpty, TypeOK, File
  <2>2. CASE StampBackup(p)
    <3>1. handle[p] = path /\ path \in File
      BY <2>2 DEF StampBackup, SeqInv, OnPath, TypeOK
    <3> QED BY <2>2, <3>1 DEF StampBackup, SeqInv, NewFilesEmpty, TypeOK, File
  <2>3. CASE ~ Capture(p) /\ ~ StampBackup(p)
    BY <1>2, <2>3
       DEF CommandStep, CaptureSkips, BackupGated, BackupStarts, VacuumEnds,
           RenameBak, ReadNotice, NoNotice, ClearNotice, PrintNotice, Printed,
           CheckNotice, SeqInv, NewFilesEmpty
  <2> QED BY <2>1, <2>2, <2>3
<1>6. ASSUME NEW p \in Proc, SidecarRemoved(p) PROVE NewFilesEmpty'
  BY <1>6, SeparatesPath DEF Separation, SeqInv, NewFilesEmpty, TypeOK, File
<1>3. ASSUME NEW p \in Proc, Start(p) \/ FaultStep(p), ~ SidecarRemoved(p)
      PROVE  NewFilesEmpty'
  BY <1>3
     DEF Start, FaultStep, OpenTransient, QuarantineFails, ReopenFails,
         RestoreFails, MarkFails, VacuumFails, RenameBakFails, StampFails, Die,
         SeqInv, NewFilesEmpty
<1>4. CASE Tick \/ UNCHANGED vars
  BY <1>4 DEF Tick, vars, SeqInv, NewFilesEmpty
<1>5. CASE Damage
  BY <1>5 DEF Damage, SeqInv, NewFilesEmpty, TypeOK, File, NoFile
<1> QED BY <1>1, <1>2, <1>3, <1>4, <1>5, <1>6 DEF Next

\* A step of one process that changes neither files nor images, and opens or
\* quits no heal, leaves the backup where it is.
LEMMA HeldStutter ==
  ASSUME SeqInv, UNCHANGED <<path, hist, bak, backed>>, corrupt \subseteq corrupt',
         Quiet' => Quiet,
         \A p \in Proc : pc'[p] \in {"vacuum", "rename"} =>
           /\ pc'[p] = pc[p]
           /\ tmp'[p] = tmp[p] /\ handle'[p] = handle[p] /\ now'[p] = now[p]
  PROVE  BackupHeld'
<1>1. Saved' = Saved
  BY DEF Saved
<1> QED BY <1>1 DEF SeqInv, BackupHeld

\* Neither does a corrupt file that takes the place of a corrupt one.
LEMMA HeldSeparation ==
  ASSUME TypeOK, SeqInv, NEW p \in Proc, Separation(p) PROVE BackupHeld'
<1>1. \A q \in Proc : q = p
  BY Solo DEF SeqInv
<1>2. Saved' = Saved /\ backed' = backed /\ pc'[p] = "setaside"
      /\ path' # NoFile /\ path' \in corrupt'
  BY SeparatesPath DEF Saved
<1> QED BY <1>1, <1>2 DEF SeqInv, BackupHeld

LEMMA HeldOpenStep ==
  ASSUME TypeOK, TypeOK', GenuineInv, SeqInv, NEW p \in Proc, OpenStep(p)
  PROVE  BackupHeld'
<1> USE DEF kept, dir, side, env
<1>0. \A q \in Proc : q = p
  BY Solo DEF SeqInv
<1>1. CASE OpenOk(p)
  <2>1. Quiet /\ Saved' = Saved /\ backed' = backed /\ UNCHANGED hist
    BY <1>0, <1>1 DEF OpenOk, OpenAt, Quiet, Saved
  <2>2. pc'[p] = "ready"
    BY <1>1, OpensPath DEF OpenOk
  <2> QED BY <1>0, <1>1, <2>1, <2>2, OpensPath DEF OpenOk, SeqInv, BackupHeld
<1>2. CASE Reopen(p)
  <2>1. Saved' = Saved /\ backed' = backed
    BY <1>2 DEF Reopen, OpenAt, Saved
  <2>2. pc'[p] = "heal" /\ ~ Quiet'
    BY <1>2, OpensPath DEF Reopen, Quiet
  <2> QED BY <1>0, <2>1, <2>2 DEF SeqInv, BackupHeld
<1>3. CASE Quarantine(p)
  <2>1. Saved' = Saved /\ backed' = backed
    BY <1>3 DEF Quarantine, Saved
  <2>2. pc'[p] = "reopen" /\ ~ Quiet'
    BY <1>3 DEF Quarantine, Goto, TypeOK, Quiet
  <2> QED BY <1>0, <2>1, <2>2 DEF SeqInv, BackupHeld
<1>4. CASE Restore(p)
  <2>1. handle[p] = path /\ path # NoFile /\ path \in File
        /\ hist[path] = NoRows
    BY <1>4 DEF Restore, SeqInv, OnPath, TypeOK
  <2>2. hist'[path] = Plus(NoRows, bak.rows)
    BY <1>4, <2>1 DEF Restore, TypeOK
  <2>3. RowsOf(Plus(NoRows, bak.rows)) = RowsOf(bak.rows)
    BY DEF RowsOf, Plus, NoRows, TypeOK, Image, Table
  <2>4. RowsOf(bak.rows) = backed
    BY <1>4 DEF Restore, GenuineInv, RenamesComplete, SeqInv, BackupHeld, Saved
  <2>5. Saved' = Saved /\ backed' = backed /\ path' = path
    BY <1>4 DEF Restore, Saved
  <2>6. pc'[p] = "mark"
    BY <1>4 DEF Restore, TypeOK
  <2> QED BY <1>0, <2>1, <2>2, <2>3, <2>4, <2>5, <2>6 DEF SeqInv, BackupHeld
<1>5. CASE NothingToRestore(p)
  <2>1. backed = {}
    BY <1>5 DEF NothingToRestore, SeqInv, BackupHeld, Saved
  <2>2. Saved' = Saved /\ backed' = backed
    BY <1>5 DEF NothingToRestore, Saved
  <2>3. pc'[p] = "mark"
    BY <1>5 DEF NothingToRestore, TypeOK
  <2> QED BY <1>0, <2>1, <2>2, <2>3 DEF SeqInv, BackupHeld
<1>6. CASE OpenCorrupt(p) \/ NoSidecar(p) \/ Mark(p)
  BY <1>0, <1>6, HeldStutter DEF OpenCorrupt, NoSidecar, Mark, Goto, TypeOK, Quiet
<1>7. CASE SidecarAside(p)
  BY <1>7, HeldSeparation DEF Separation
<1> QED BY <1>1, <1>2, <1>3, <1>4, <1>5, <1>6, <1>7, LeavesNothing DEF OpenStep

LEMMA HeldCommandStep ==
  ASSUME TypeOK, TypeOK', GenuineInv, SeqInv, NEW p \in Proc, CommandStep(p)
  PROVE  BackupHeld'
<1> USE DEF kept, dir, side, env
<1>0. \A q \in Proc : q = p
  BY Solo DEF SeqInv
<1>1. CASE Capture(p)
  <2>1. PICK r \in Row \ committed :
           hist' = [hist EXCEPT ![handle[p]] = Insert(@, r)]
    BY <1>1 DEF Capture
  <2>2. \A f \in File : RowsOf(hist[f]) \subseteq RowsOf(hist'[f])
    BY <2>1 DEF RowsOf, Insert, TypeOK, Table
  <2>3. Saved' = Saved /\ backed' = backed /\ path' = path /\ corrupt' = corrupt
    BY <1>1 DEF Capture, Saved
  <2>4. Quiet /\ pc'[p] = "idle"
    BY <1>0, <1>1 DEF Capture, Exit, Quiet, TypeOK
  <2> QED BY <1>0, <2>2, <2>3, <2>4 DEF SeqInv, BackupHeld, TypeOK
<1>2. CASE BackupStarts(p)
  <2>1. pc'[p] = "vacuum" /\ Quiet
    BY <1>0, <1>2 DEF BackupStarts, Goto, Quiet, TypeOK
  <2>2. /\ tmp'[p].rows = hist[handle[p]] /\ tmp'[p].at = now[p]
        /\ handle'[p] = handle[p] /\ now'[p] = now[p]
    BY <1>2 DEF BackupStarts, Goto, TypeOK
  <2>3. Saved' = Saved /\ UNCHANGED <<backed, path, corrupt, hist>>
    BY <1>2 DEF BackupStarts, Saved
  <2> QED BY <1>0, <2>1, <2>2, <2>3 DEF SeqInv, BackupHeld
<1>3. CASE VacuumEnds(p)
  <2>1. pc'[p] = "rename" /\ Quiet
    BY <1>0, <1>3 DEF VacuumEnds, Goto, Quiet, TypeOK
  <2>2. /\ tmp'[p].rows = tmp[p].rows /\ tmp'[p].at = tmp[p].at
        /\ handle'[p] = handle[p] /\ now'[p] = now[p]
    BY <1>3 DEF VacuumEnds, Goto, TypeOK, Image
  <2>3. Saved' = Saved /\ UNCHANGED <<backed, path, corrupt, hist>>
    BY <1>3 DEF VacuumEnds, Saved
  <2>4. handle[p] = path /\ path # NoFile /\ path \notin corrupt
    BY <1>3 DEF VacuumEnds, SeqInv, OnPath
  <2>5. tmp[p].rows = hist[path] /\ tmp[p].at = now[p]
    BY <1>3, <2>4 DEF VacuumEnds, SeqInv, BackupHeld
  <2> QED BY <1>0, <2>1, <2>2, <2>3, <2>4, <2>5 DEF SeqInv, BackupHeld
<1>4. CASE RenameBak(p)
  <2>1. bak' = tmp[p] /\ tmp[p].state = "complete"
    BY <1>4 DEF RenameBak, GenuineInv, RenamesComplete
  <2>2. backed \subseteq RowsOf(tmp[p].rows) /\ backed' = RowsOf(tmp[p].rows)
    BY <1>4 DEF RenameBak, SeqInv, BackupHeld
  <2>3. handle[p] = path /\ path # NoFile /\ tmp[p].rows = hist[path]
    BY <1>4 DEF RenameBak, SeqInv, OnPath, BackupHeld
  <2>4. pc'[p] = "stamp" /\ UNCHANGED <<path, corrupt, hist>>
    BY <1>4 DEF RenameBak, Goto, TypeOK
  <2> QED BY <1>0, <2>1, <2>2, <2>3, <2>4 DEF BackupHeld, Saved
<1>5. CASE \/ CaptureSkips(p) \/ BackupGated(p) \/ StampBackup(p)
           \/ ReadNotice(p) \/ NoNotice(p) \/ ClearNotice(p) \/ PrintNotice(p)
           \/ Printed(p) \/ CheckNotice(p)
  BY <1>0, <1>5, HeldStutter
     DEF CaptureSkips, BackupGated, StampBackup, ReadNotice, NoNotice,
         ClearNotice, PrintNotice, Printed, CheckNotice, Goto, Exit, TypeOK, Quiet
<1> QED BY <1>1, <1>2, <1>3, <1>4, <1>5 DEF CommandStep

LEMMA HeldFaultStep ==
  ASSUME TypeOK, TypeOK', SeqInv, NEW p \in Proc, FaultStep(p)
  PROVE  BackupHeld'
<1> USE DEF kept, dir, side, env
<1>0. \A q \in Proc : q = p
  BY Solo DEF SeqInv
<1>1. CASE RestoreFails(p)
  <2>1. path \in corrupt /\ path # NoFile
    BY <1>1, NoHealFault DEF RestoreFails, SeqInv, OnPath
  <2>2. pc'[p] = "mark" /\ Saved' = Saved /\ UNCHANGED <<path, corrupt, backed>>
    BY <1>1 DEF RestoreFails, TypeOK, Saved
  <2> QED BY <1>0, <2>1, <2>2 DEF SeqInv, BackupHeld
<1>2. CASE ReopenFails(p)
  BY <1>2, NoHealFault DEF ReopenFails, SeqInv, OnPath, ProbeFails
<1>3. CASE Die(p)
  <2>1. Quiet
    BY <1>0, <1>3, NoHealFault DEF Die, Healing, SeqInv, Quiet
  <2> QED BY <1>0, <1>3, <2>1, HeldStutter DEF Die, Exit, TypeOK
<1>4. CASE \/ OpenTransient(p) \/ QuarantineFails(p) \/ MarkFails(p)
           \/ VacuumFails(p) \/ RenameBakFails(p) \/ StampFails(p)
  BY <1>0, <1>4, HeldStutter
     DEF OpenTransient, QuarantineFails, MarkFails, VacuumFails,
         RenameBakFails, StampFails, NoStore, Exit, TypeOK, Quiet
<1>5. CASE SidecarRemoved(p)
  BY <1>5, HeldSeparation DEF Separation
<1> QED BY <1>1, <1>2, <1>3, <1>4, <1>5 DEF FaultStep

LEMMA HeldNext ==
  ASSUME TypeOK, TypeOK', GenuineInv, SeqInv, [Next]_vars PROVE BackupHeld'
<1> USE DEF kept, dir, side, env
<1>1. ASSUME NEW p \in Proc, Start(p) PROVE BackupHeld'
  BY <1>1, Solo, HeldStutter DEF Start, SeqInv, TypeOK, Quiet
<1>2. CASE Tick \/ Damage \/ UNCHANGED vars
  BY <1>2, HeldStutter DEF Tick, Damage, vars, Quiet
<1> QED BY <1>1, <1>2, HeldOpenStep, HeldCommandStep, HeldFaultStep DEF Next

\* A step that leaves files' stamps and the backup alone leaves their dates.
LEMMA DatedStutter ==
  ASSUME SeqInv, TypeOK, TypeOK', clock <= clock',
         UNCHANGED <<path, stamp, bak>>,
         \A p \in Proc : now'[p] <= clock',
         \A p \in Proc : pc'[p] # "idle" => bak.at <= now'[p],
         \A p \in Proc : pc'[p] = "stamp" => pc[p] = "stamp" /\ now'[p] = now[p]
  PROVE  Dated'
BY DEF SeqInv, Dated, StampHasBackup, TypeOK, Image, Time

LEMMA DatedSeparation ==
  ASSUME TypeOK, SeqInv, NEW p \in Proc, Separation(p) PROVE Dated'
<1>0. \A q \in Proc : q = p
  BY Solo DEF SeqInv
<1>1. /\ pc[p] = "quarantine" /\ pc'[p] = "setaside" /\ path # NoFile
      /\ path \in File /\ stamp'[path'] <= stamp[path]
      /\ stamp'[path'] \in Time \union {NoStamp}
      /\ UNCHANGED <<bak, now, clock>>
  BY SeparatesPath
<1>2. stamp[path] \in Time \union {NoStamp} /\ bak.at \in Time
  BY <1>1 DEF TypeOK, Image
<1>3. StampHasBackup
  BY DEF SeqInv, Dated
<1>4. StampHasBackup'
  BY <1>1, <1>2, <1>3, BoundsAssumption DEF StampHasBackup, Time, NoStamp
<1> QED BY <1>0, <1>1, <1>4 DEF SeqInv, Dated

LEMMA DatedNext ==
  ASSUME TypeOK, TypeOK', GenuineInv, SeqInv, [Next]_vars PROVE Dated'
<1> USE BoundsAssumption DEF kept, dir, side, env
<1>0. clock \in Int /\ bak.at \in Int /\ \A p \in Proc : now[p] \in Int
  BY DEF TypeOK, Image, Time
<1>1. ASSUME NEW p \in Proc, Start(p) PROVE Dated'
  BY <1>0, <1>1, DatedStutter DEF Start, SeqInv, Dated, TypeOK
<1>2. ASSUME NEW p \in Proc, OpenStep(p) PROVE Dated'
  <2>0. \A q \in Proc : q = p
    BY Solo DEF SeqInv
  <2>1. CASE OpenOk(p) \/ Reopen(p)
    <3>1. UNCHANGED <<now, bak, clock>> /\ pc[p] # "idle" /\ pc'[p] # "stamp"
      BY <2>1 DEF OpenOk, Reopen, OpenAt, TypeOK
    <3>2. \/ path' = path /\ stamp' = stamp
          \/ stamp'[path'] = NoStamp
      BY <2>1, OpensPath DEF OpenOk, Reopen
    <3> QED BY <2>0, <3>1, <3>2 DEF SeqInv, Dated, StampHasBackup
  <2>2. CASE Quarantine(p)
    BY <2>0, <2>2 DEF Quarantine, Goto, SeqInv, Dated, StampHasBackup, TypeOK
  <2>3. CASE Restore(p) \/ NothingToRestore(p) \/ Mark(p)
    BY <1>0, <2>0, <2>3, DatedStutter
       DEF Restore, NothingToRestore, Mark, SeqInv, Dated, TypeOK
  <2>4. CASE OpenCorrupt(p) \/ NoSidecar(p)
    BY <1>0, <2>0, <2>4, DatedStutter
       DEF OpenCorrupt, NoSidecar, Goto, SeqInv, Dated, TypeOK
  <2>5. CASE SidecarAside(p)
    BY <2>5, DatedSeparation DEF Separation
  <2> QED BY <1>2, <2>1, <2>2, <2>3, <2>4, <2>5, LeavesNothing DEF OpenStep
<1>3. ASSUME NEW p \in Proc, CommandStep(p) PROVE Dated'
  <2>0. \A q \in Proc : q = p
    BY Solo DEF SeqInv
  <2>1. CASE RenameBak(p)
    <3>1. bak'.state = "complete" /\ bak'.at = now[p]
      BY <2>1 DEF RenameBak, GenuineInv, RenamesComplete, SeqInv, BackupHeld
    <3>2. pc[p] # "idle" /\ bak.at <= now[p] /\ now[p] <= clock
      BY <2>1 DEF RenameBak, SeqInv, Dated
    <3>3. UNCHANGED <<now, clock, path, stamp>>
      BY <2>1 DEF RenameBak, Goto
    <3>4. path # NoFile /\ stamp[path] # NoStamp => stamp[path] <= bak.at
      BY DEF SeqInv, Dated, StampHasBackup
    <3>5. path # NoFile => stamp[path] \in Int
      BY DEF TypeOK, Time, NoStamp
    <3>6. StampHasBackup'
      BY <1>0, <3>1, <3>2, <3>3, <3>4, <3>5 DEF StampHasBackup
    <3> QED BY <1>0, <2>0, <3>1, <3>2, <3>3, <3>6 DEF Dated
  <2>2. CASE StampBackup(p)
    <3>1. /\ handle[p] = path /\ path \in File
          /\ bak.state = "complete" /\ bak.at = now[p]
      BY <2>2 DEF StampBackup, SeqInv, OnPath, Dated, TypeOK
    <3>2. stamp'[path] = now[p] /\ UNCHANGED <<path, bak, clock>>
      BY <2>2, <3>1 DEF StampBackup, TypeOK
    <3>3. pc'[p] = "idle" /\ now'[p] = 0 /\ clock >= 0
      BY <2>2 DEF StampBackup, Exit, TypeOK, Time
    <3>4. StampHasBackup'
      BY <1>0, <3>1, <3>2 DEF StampHasBackup
    <3> QED BY <1>0, <2>0, <3>2, <3>3, <3>4 DEF SeqInv, Dated
  <2>3. CASE ~ RenameBak(p) /\ ~ StampBackup(p)
    <3>1. /\ UNCHANGED <<path, stamp, bak, clock>>
          /\ pc[p] # "idle"
          /\ pc'[p] # "stamp"
          /\ \/ now'[p] = now[p]
             \/ now'[p] = 0 /\ pc'[p] = "idle"
      BY <1>3, <2>3
         DEF CommandStep, Capture, CaptureSkips, BackupGated, BackupStarts,
             VacuumEnds, ReadNotice, NoNotice, ClearNotice, PrintNotice, Printed,
             CheckNotice, Goto, Exit, TypeOK
    <3>2. bak.at <= now[p] /\ now[p] <= clock /\ 0 <= clock
      BY <3>1 DEF SeqInv, Dated, TypeOK, Time
    <3> QED BY <1>0, <2>0, <3>1, <3>2, DatedStutter
  <2> QED BY <2>1, <2>2, <2>3
<1>6. ASSUME NEW p \in Proc, SidecarRemoved(p) PROVE Dated'
  BY <1>6, DatedSeparation DEF Separation
<1>4. ASSUME NEW p \in Proc, FaultStep(p), ~ SidecarRemoved(p) PROVE Dated'
  <2>0. \A q \in Proc : q = p
    BY Solo DEF SeqInv
  <2>1. /\ UNCHANGED <<path, stamp, bak, clock>>
        /\ pc[p] # "idle"
        /\ pc'[p] # "stamp"
        /\ \/ now'[p] = now[p]
           \/ now'[p] = 0 /\ pc'[p] = "idle"
    BY <1>4
       DEF FaultStep, OpenTransient, QuarantineFails, ReopenFails,
           RestoreFails, MarkFails, VacuumFails, RenameBakFails, StampFails,
           Die, NoStore, Exit, TypeOK
  <2>2. bak.at <= now[p] /\ now[p] <= clock /\ 0 <= clock
    BY <2>1 DEF SeqInv, Dated, TypeOK, Time
  <2> QED BY <1>0, <2>0, <2>1, <2>2, DatedStutter
<1>5. CASE Tick \/ Damage \/ UNCHANGED vars
  BY <1>0, <1>5, DatedStutter DEF Tick, Damage, vars, SeqInv, Dated
<1> QED BY <1>1, <1>2, <1>3, <1>4, <1>5, <1>6 DEF Next

LEMMA ShowsNext ==
  ASSUME TypeOK, TypeOK', SeqInv, [Next]_vars PROVE Shows'
<1> USE DEF kept, dir, side, env
<1>1. ASSUME NEW p \in Proc, pc'[p] # "clear" PROVE Shows'
  BY <1>1, Solo DEF SeqInv, Shows
<1>2. ASSUME NEW p \in Proc, Start(p) PROVE Shows'
  BY <1>1, <1>2 DEF Start, TypeOK
<1>3. ASSUME NEW p \in Proc, OpenStep(p) PROVE Shows'
  <2>1. pc'[p] # "clear"
    BY <1>3 DEF OpenStep, OpenOk, OpenAt, OpenCorrupt, SidecarAside, NoSidecar,
                Quarantine, QuarantineLeaves, Reopen, Restore,
                NothingToRestore, Mark, Goto, TypeOK
  <2> QED BY <1>1, <2>1
<1>4. ASSUME NEW p \in Proc, CommandStep(p) PROVE Shows'
  <2>1. CASE ReadNotice(p)
    BY <2>1, Solo DEF ReadNotice, SeqInv, Shows
  <2>2. CASE ~ ReadNotice(p)
    <3>1. pc'[p] # "clear"
      BY <1>4, <2>2
         DEF CommandStep, Capture, CaptureSkips, BackupGated, BackupStarts,
             VacuumEnds, RenameBak, StampBackup, NoNotice, ClearNotice,
             PrintNotice, Printed, CheckNotice, Goto, Exit, TypeOK
    <3> QED BY <1>1, <3>1
  <2> QED BY <2>1, <2>2
<1>5. ASSUME NEW p \in Proc, FaultStep(p) PROVE Shows'
  <2>1. pc'[p] # "clear"
    BY <1>5 DEF FaultStep, OpenTransient, SidecarRemoved, QuarantineFails,
         ReopenFails, RestoreFails, MarkFails, VacuumFails, RenameBakFails,
         StampFails, Die, NoStore, Goto, Exit, TypeOK
  <2> QED BY <1>1, <2>1
<1>6. CASE Tick \/ Damage \/ UNCHANGED vars
  BY <1>6 DEF Tick, Damage, vars, SeqInv, Shows
<1> QED BY <1>2, <1>3, <1>4, <1>5, <1>6 DEF Next

LEMMA SeqNext == GenuineInv /\ SeqInv /\ [Next]_vars => SeqInv'
<1> SUFFICES ASSUME GenuineInv, SeqInv, [Next]_vars PROVE SeqInv'
  OBVIOUS
<1>1. TypeOK /\ TypeOK'
  BY TypeNext DEF GenuineInv
<1>2. Alone'
  BY DEF SeqInv, Alone, OneAtATime, Gentle
<1> QED BY <1>1, <1>2, OnPathNext, NewFilesNext, HeldNext, DatedNext, ShowsNext
        DEF SeqInv

-----------------------------------------------------------------------------
(***************************************************************************)
(* What follows from the invariant.                                        *)
(***************************************************************************)
AloneInv == GenuineInv /\ NoticeInv /\ SeqInv

LEMMA AloneInvariant == Alone /\ Spec => []AloneInv
<1>1. Alone /\ Init => AloneInv
  BY GenuineInit, SeqInit, TypeInit DEF AloneInv, NoticeInv, Init
<1>2. AloneInv /\ [Next]_vars => AloneInv'
  BY GenuineNext, NoticeNext, SeqNext DEF AloneInv
<1> QED BY <1>1, <1>2, PTL DEF Spec

\* One process at a time, no step of the heal cut short: what was once in .bak
\* stays in it.
THEOREM BackupNeverGoesBack == Alone /\ Spec => []LastKnownGood
<1>1. AloneInv => LastKnownGood
  BY DEF AloneInv, SeqInv, BackupHeld, LastKnownGood
<1> QED BY <1>1, AloneInvariant, PTL

\* One process at a time, no step of the heal cut short: backed-up rows are in
\* the live database, or a heal or a notice is under way.
THEOREM NoLossInSilence == Alone /\ Spec => []NoSilentLoss
<1>1. AloneInv => NoSilentLoss
  BY DEF AloneInv, SeqInv, BackupHeld, Quiet, Healing, NoSilentLoss
<1> QED BY <1>1, AloneInvariant, PTL

\* One process at a time, no step of the heal cut short: last_backup dates a
\* backup that is there and is no older.
THEOREM StampsHaveBackups == Alone /\ Spec => []StampHasBackup
<1>1. AloneInv => StampHasBackup
  BY DEF AloneInv, SeqInv, Dated
<1> QED BY <1>1, AloneInvariant, PTL

-----------------------------------------------------------------------------
(***************************************************************************)
(* The refinement: what a reader is going to find, what is owed and shown. *)
(***************************************************************************)
Live    == IF Settled THEN RowsOf(hist[path]) ELSE Saved
Owed    == Unsettled \/ Owing
Showing == \E p \in Proc : pc[p] = "printed"

PromiseVars == <<Live, Saved, committed, Owed, Showing>>

\* The files are settled when the one at the path is readable and no heal is
\* on; with one process that is known from the process alone.
LEMMA SettledSolo ==
  ASSUME Alone, NEW p \in Proc
  PROVE  /\ Settled = (path # NoFile /\ path \notin corrupt
                       /\ pc[p] \notin {"reopen", "heal"})
         /\ Unsettled = (ProbeFails \/ Healing(p))
         /\ Owing = (crumb # "none" \/ pc[p] = "print")
         /\ Showing = (pc[p] = "printed")
BY Solo DEF Settled, Unsettled, Owing, Showing

\* A step that moves no file and keeps tables, .bak and the breadcrumb, of a
\* process that is neither healing nor printing.
LEMMA PromiseStutter ==
  ASSUME SeqInv, NEW p \in Proc,
         UNCHANGED <<path, corrupt, hist, bak, crumb, committed>>,
         ~ Healing(p), ~ Healing(p)',
         pc[p] \notin {"print", "printed"}, pc'[p] \notin {"print", "printed"}
  PROVE  UNCHANGED PromiseVars
<1>1. Saved' = Saved /\ ProbeFails' = ProbeFails
  BY DEF Saved, ProbeFails
<1>2. \A q \in Proc : q = p
  BY Solo DEF SeqInv
<1>3. Settled' = Settled /\ Unsettled' = Unsettled
  BY <1>1, <1>2 DEF Settled, Unsettled, Healing
<1>4. Showing' = Showing /\ Owing' = Owing
  BY <1>2 DEF Showing, Owing
<1> QED BY <1>1, <1>3, <1>4 DEF PromiseVars, Live, Owed

\* A corrupt file that takes the place of a corrupt one changes nothing.
LEMMA PromiseSeparation ==
  ASSUME TypeOK, SeqInv, NEW p \in Proc, Separation(p)
  PROVE  UNCHANGED PromiseVars
<1>0. \A q \in Proc : q = p
  BY Solo DEF SeqInv
<1>1. /\ pc[p] = "quarantine" /\ pc'[p] = "setaside"
      /\ path # NoFile /\ path \in corrupt /\ path' # NoFile /\ path' \in corrupt'
      /\ UNCHANGED <<bak, crumb, committed>>
  BY SeparatesPath
<1>2. Saved' = Saved /\ ~ Settled /\ ~ Settled' /\ Unsettled /\ Unsettled'
  BY <1>1 DEF Saved, Settled, Unsettled, ProbeFails
<1>3. Showing' = Showing
  BY <1>0, <1>1 DEF Showing
<1> QED BY <1>1, <1>2, <1>3 DEF PromiseVars, Live, Owed

LEMMA PromiseOpenStep ==
  ASSUME TypeOK, TypeOK', GenuineInv, NoticeInv, SeqInv, SeqInv',
         NEW p \in Proc, OpenStep(p)
  PROVE  UNCHANGED PromiseVars
<1> USE DEF kept, dir, side, env
<1>0. \A q \in Proc : q = p
  BY Solo DEF SeqInv
<1>1. CASE OpenOk(p)
  <2>1. /\ pc[p] = "open" /\ pc'[p] = "ready" /\ ~ Healing(p) /\ ~ Healing(p)'
        /\ UNCHANGED <<bak, crumb, committed>>
    BY <1>1, OpensPath DEF OpenOk, OpenAt, Healing
  <2>2. CASE UNCHANGED dir
    BY <2>1, <2>2, PromiseStutter
  <2>3. CASE path = NoFile /\ path' # NoFile /\ path' \notin corrupt'
             /\ hist'[path'] = NoRows
    <3>1. Quiet
      BY <1>0, <2>1 DEF Quiet
    <3>2. Saved = {} /\ Saved' = Saved
      BY <2>1, <2>3, <3>1 DEF SeqInv, BackupHeld, Saved
    <3>3. Live = {} /\ Live' = {}
      BY <2>3, <3>2, NoRowsEmpty DEF Live, Settled
    <3>4. Unsettled' = Unsettled
      BY <1>0, <2>1, <2>3 DEF Unsettled, ProbeFails
    <3>5. Showing' = Showing /\ Owing' = Owing
      BY <1>0, <2>1 DEF Showing, Owing
    <3> QED BY <2>1, <3>2, <3>3, <3>4, <3>5 DEF PromiseVars, Owed
  <2> QED BY <1>1, <2>2, <2>3, OpensPath DEF OpenOk
<1>2. CASE Reopen(p)
  <2>1. /\ pc[p] = "reopen" /\ pc'[p] = "heal"
        /\ UNCHANGED <<bak, crumb, committed>>
    BY <1>2, OpensPath DEF Reopen, OpenAt
  <2>2. Saved' = Saved /\ ~ Settled /\ ~ Settled'
    BY <2>1 DEF Saved, Settled
  <2>3. Unsettled /\ Unsettled'
    BY <2>1 DEF Unsettled, Healing
  <2>4. Showing' = Showing
    BY <1>0, <2>1 DEF Showing
  <2> QED BY <2>1, <2>2, <2>3, <2>4 DEF PromiseVars, Live, Owed
<1>3. CASE OpenCorrupt(p) \/ NoSidecar(p)
  BY <1>3, PromiseStutter DEF OpenCorrupt, NoSidecar, Goto, TypeOK, Healing
<1>7. CASE SidecarAside(p)
  BY <1>7, PromiseSeparation DEF Separation
<1>4. CASE Quarantine(p)
  <2>1. /\ pc[p] = "setaside" /\ pc'[p] = "reopen" /\ path' = NoFile
        /\ UNCHANGED <<bak, crumb, committed>>
    BY <1>4 DEF Quarantine, Goto, TypeOK
  <2>2. ProbeFails
    BY <2>1 DEF SeqInv, OnPath
  <2>3. Saved' = Saved /\ ~ Settled /\ ~ Settled'
    BY <2>1, <2>2 DEF Saved, Settled, ProbeFails
  <2>4. Unsettled /\ Unsettled'
    BY <2>1, <2>2 DEF Unsettled, Healing
  <2>5. Showing' = Showing
    BY <1>0, <2>1 DEF Showing
  <2> QED BY <2>1, <2>3, <2>4, <2>5 DEF PromiseVars, Live, Owed
<1>5. CASE Restore(p) \/ NothingToRestore(p)
  <2>1. /\ pc[p] = "heal" /\ pc'[p] = "mark"
        /\ UNCHANGED <<path, corrupt, bak, crumb, committed, backed>>
    BY <1>5 DEF Restore, NothingToRestore, TypeOK
  <2>2. Saved' = Saved /\ ~ Settled
    BY <2>1 DEF Saved, Settled
  <2>3. Unsettled /\ Unsettled'
    BY <2>1 DEF Unsettled, Healing
  <2>4. Showing' = Showing
    BY <1>0, <2>1 DEF Showing
  <2>5. CASE ~ Settled'
    BY <2>1, <2>2, <2>3, <2>4, <2>5 DEF PromiseVars, Live, Owed
  <2>6. CASE Settled'
    <3>1. RowsOf(hist'[path]) = Saved
      <4>1. handle[p] = path /\ path # NoFile /\ path \in File
            /\ hist[path] = NoRows
        BY <2>1 DEF SeqInv, OnPath, TypeOK
      <4>2. CASE Restore(p)
        <5>1. hist'[path] = Plus(NoRows, bak.rows)
          BY <4>1, <4>2 DEF Restore, TypeOK
        <5>2. RowsOf(Plus(NoRows, bak.rows)) = RowsOf(bak.rows)
          BY DEF RowsOf, Plus, NoRows, TypeOK, Image, Table
        <5>3. Saved = RowsOf(bak.rows)
          BY <4>2 DEF Restore, GenuineInv, RenamesComplete, Saved
        <5> QED BY <5>1, <5>2, <5>3
      <4>3. CASE NothingToRestore(p)
        BY <4>1, <4>3, NoRowsEmpty DEF NothingToRestore, Saved
      <4> QED BY <1>5, <4>2, <4>3
    <3> QED BY <2>1, <2>2, <2>3, <2>4, <2>6, <3>1 DEF PromiseVars, Live, Owed
  <2> QED BY <2>5, <2>6
<1>6. CASE Mark(p)
  <2>1. /\ pc[p] = "mark" /\ pc'[p] = "ready" /\ crumb' = found[p]
        /\ UNCHANGED <<path, corrupt, hist, bak, committed>>
    BY <1>6 DEF Mark, TypeOK
  <2>2. Owed /\ Owed'
    BY <2>1 DEF NoticeInv, Owed, Owing, Unsettled, Healing
  <2>3. Saved' = Saved
    BY <2>1 DEF Saved
  <2>4. Settled' = Settled /\ Showing' = Showing
    BY <1>0, <2>1 DEF Settled, Showing
  <2> QED BY <2>1, <2>2, <2>3, <2>4 DEF PromiseVars, Live
<1> QED BY <1>1, <1>2, <1>3, <1>4, <1>5, <1>6, <1>7, LeavesNothing DEF OpenStep

LEMMA PromiseCommandStep ==
  ASSUME TypeOK, TypeOK', GenuineInv, SeqInv, SeqInv',
         NEW p \in Proc, CommandStep(p)
  PROVE  [Promise!Next]_PromiseVars
<1> USE DEF kept, dir, side, env
<1>0. \A q \in Proc : q = p
  BY Solo DEF SeqInv
<1>1. CASE Capture(p)
  <2>1. PICK r \in Row \ committed :
          /\ hist' = [hist EXCEPT ![handle[p]] = Insert(@, r)]
          /\ committed' = committed \union {r}
    BY <1>1 DEF Capture
  <2>2. /\ pc[p] = "ready" /\ pc'[p] = "idle" /\ handle[p] = path
        /\ path # NoFile /\ path \in File
        /\ UNCHANGED <<path, corrupt, bak, crumb>>
    BY <1>1 DEF Capture, Exit, SeqInv, OnPath, TypeOK
  <2>3. Saved' = Saved /\ ProbeFails' = ProbeFails
    BY <2>2 DEF Saved, ProbeFails
  <2>4. /\ Settled' = Settled /\ Unsettled' = Unsettled
        /\ Showing' = Showing /\ Owing' = Owing
    BY <1>0, <2>2, <2>3 DEF Settled, Unsettled, Showing, Owing, Healing
  <2>5. RowsOf(Insert(hist[path], r)) = RowsOf(hist[path]) \union {r}
    BY <2>1, <2>2 DEF RowsOf, Insert, TypeOK, Table
  <2>6. hist'[path] = Insert(hist[path], r)
    BY <2>1, <2>2 DEF TypeOK
  <2>7. Live' = Live \union {r} \/ (Owed /\ Live' = Live)
    BY <1>0, <2>2, <2>3, <2>4, <2>5, <2>6
       DEF Live, Owed, Settled, Unsettled, ProbeFails
  <2>8. Owed' = Owed
    BY <2>2, <2>4 DEF Owed
  <2>9. Promise!Capture(r)
    BY <2>1, <2>3, <2>4, <2>7, <2>8
       DEF Promise!Capture, Live, Owed, Showing
  <2> QED BY <2>1, <2>9 DEF Promise!Next
<1>2. CASE RenameBak(p)
  <2> DEFINE s == RowsOf(tmp[p].rows)
  <2>1. bak' = tmp[p] /\ tmp[p].state = "complete"
    BY <1>2 DEF RenameBak, GenuineInv, RenamesComplete
  <2>2. Saved \subseteq s /\ s \subseteq committed /\ Saved' = s
    BY <1>2, <2>1 DEF RenameBak, SeqInv, BackupHeld, GenuineInv,
                      ImagesCommitted, Saved
  <2>3. /\ handle[p] = path /\ path # NoFile /\ tmp[p].rows = hist[path]
        /\ UNCHANGED <<path, corrupt, hist, crumb, committed>>
    BY <1>2 DEF RenameBak, SeqInv, OnPath, BackupHeld
  <2>4. pc[p] = "rename" /\ pc'[p] = "stamp"
    BY <1>2 DEF RenameBak, Goto, TypeOK
  <2>5. /\ Settled' = Settled /\ Unsettled' = Unsettled
        /\ Showing' = Showing /\ Owing' = Owing
    BY <1>0, <2>3, <2>4 DEF Settled, Unsettled, Showing, Owing, Healing, ProbeFails
  <2>6. Live' = Live \union s
    BY <2>2, <2>3, <2>5 DEF Live
  <2>7. Owed' = Owed
    BY <2>3, <2>5 DEF Owed
  <2>8. Promise!Save(s)
    BY <2>2, <2>3, <2>5, <2>6, <2>7
       DEF Promise!Save, Live, Owed, Showing
  <2> QED BY <2>2, <2>8 DEF Promise!Next
<1>3. CASE PrintNotice(p)
  <2>1. /\ pc[p] = "print" /\ pc'[p] = "printed"
        /\ UNCHANGED <<path, corrupt, hist, bak, crumb, committed>>
    BY <1>3 DEF PrintNotice, TypeOK
  <2>2. Saved' = Saved /\ Settled' = Settled
    BY <1>0, <2>1 DEF Saved, Settled
  <2>3. Live' = Live /\ Owed /\ ~ Showing /\ Showing'
    BY <1>0, <2>1, <2>2 DEF Live, Owed, Owing, Showing
  <2>4. Owed' \in {Owed, FALSE}
    BY <2>3 DEF Owed, Owing, Unsettled
  <2>5. Promise!Show
    BY <2>1, <2>2, <2>3, <2>4 DEF Promise!Show, Live, Owed, Showing
  <2> QED BY <2>5 DEF Promise!Next
<1>4. CASE Printed(p)
  <2>1. /\ pc[p] = "printed" /\ pc'[p] = "idle"
        /\ UNCHANGED <<path, corrupt, hist, bak, crumb, committed>>
    BY <1>4 DEF Printed, Exit, TypeOK
  <2>2. /\ Saved' = Saved /\ Settled' = Settled /\ Unsettled' = Unsettled
        /\ Owing' = Owing
    BY <1>0, <2>1 DEF Saved, Settled, Unsettled, Owing, Healing, ProbeFails
  <2>3. Live' = Live /\ Owed' = Owed /\ Showing /\ ~ Showing'
    BY <1>0, <2>1, <2>2 DEF Live, Owed, Showing
  <2>4. Promise!Shown
    BY <2>1, <2>2, <2>3 DEF Promise!Shown, Live, Owed, Showing
  <2> QED BY <2>4 DEF Promise!Next
<1>6. CASE ClearNotice(p)
  <2>1. /\ pc[p] = "clear" /\ pc'[p] = "print" /\ crumb # "none"
        /\ UNCHANGED <<path, corrupt, hist, bak, committed>>
    BY <1>6 DEF ClearNotice, Goto, SeqInv, Shows, TypeOK
  <2>2. Saved' = Saved /\ Settled' = Settled
    BY <1>0, <2>1 DEF Saved, Settled
  <2>3. Owed /\ Owed' /\ Showing' = Showing /\ Live' = Live
    BY <1>0, <2>1, <2>2 DEF Owed, Owing, Showing, Live
  <2> QED BY <2>1, <2>2, <2>3 DEF PromiseVars
<1>5. CASE \/ CaptureSkips(p) \/ BackupGated(p) \/ BackupStarts(p)
           \/ VacuumEnds(p) \/ StampBackup(p) \/ ReadNotice(p)
           \/ NoNotice(p) \/ CheckNotice(p)
  <2>1. /\ UNCHANGED <<path, corrupt, hist, bak, crumb, committed>>
        /\ ~ Healing(p) /\ ~ Healing(p)'
        /\ pc[p] \notin {"print", "printed"} /\ pc'[p] \notin {"print", "printed"}
    BY <1>5
       DEF CaptureSkips, BackupGated, BackupStarts, VacuumEnds, StampBackup,
           ReadNotice, NoNotice, CheckNotice, Goto, Exit, TypeOK, Healing
  <2> QED BY <2>1, PromiseStutter
<1> QED BY <1>1, <1>2, <1>3, <1>4, <1>5, <1>6 DEF CommandStep

LEMMA PromiseFaultStep ==
  ASSUME TypeOK, TypeOK', SeqInv, NEW p \in Proc, FaultStep(p)
  PROVE  [Promise!Next]_PromiseVars
<1> USE DEF kept, dir, side, env
<1>0. \A q \in Proc : q = p
  BY Solo DEF SeqInv
<1>1. CASE RestoreFails(p)
  <2>1. /\ pc[p] = "heal" /\ pc'[p] = "mark" /\ handle[p] = path
        /\ path \in corrupt
        /\ UNCHANGED <<path, corrupt, hist, bak, crumb, committed>>
    BY <1>1, NoHealFault DEF RestoreFails, SeqInv, OnPath, TypeOK
  <2>2. Saved' = Saved /\ ~ Settled /\ ~ Settled'
    BY <2>1 DEF Saved, Settled
  <2>3. Owed /\ Owed' /\ Showing' = Showing
    BY <1>0, <2>1 DEF Owed, Owing, Unsettled, Healing, Showing
  <2> QED BY <2>1, <2>2, <2>3 DEF PromiseVars, Live
<1>2. CASE ReopenFails(p)
  BY <1>2, NoHealFault DEF ReopenFails, SeqInv, OnPath, ProbeFails
<1>3. CASE MarkFails(p)
  BY <1>3, NoHealFault DEF MarkFails, SeqInv
<1>4. CASE Die(p)
  <2>1. /\ ~ Healing(p) /\ pc[p] # "print" /\ pc'[p] = "idle"
        /\ UNCHANGED <<path, corrupt, hist, bak, crumb, committed>>
    BY <1>4, NoHealFault DEF Die, Exit, SeqInv, TypeOK
  <2>2. CASE pc[p] # "printed"
    BY <2>1, <2>2, PromiseStutter DEF Healing
  <2>3. CASE pc[p] = "printed"
    <3>1. /\ Saved' = Saved /\ Settled' = Settled /\ Unsettled' = Unsettled
          /\ Owing' = Owing
      BY <1>0, <2>1, <2>3 DEF Saved, Settled, Unsettled, Owing, Healing, ProbeFails
    <3>2. Live' = Live /\ Owed' = Owed /\ Showing /\ ~ Showing'
      BY <1>0, <2>1, <2>3, <3>1 DEF Live, Owed, Showing
    <3>3. Promise!Shown
      BY <2>1, <3>1, <3>2 DEF Promise!Shown, Live, Owed, Showing
    <3> QED BY <3>3 DEF Promise!Next
  <2> QED BY <2>2, <2>3
<1>6. CASE SidecarRemoved(p)
  BY <1>6, PromiseSeparation DEF Separation
<1>5. CASE \/ OpenTransient(p) \/ QuarantineFails(p) \/ VacuumFails(p)
           \/ RenameBakFails(p) \/ StampFails(p)
  <2>1. /\ UNCHANGED <<path, corrupt, hist, bak, crumb, committed>>
        /\ ~ Healing(p) /\ ~ Healing(p)'
        /\ pc[p] \notin {"print", "printed"} /\ pc'[p] \notin {"print", "printed"}
    BY <1>5
       DEF OpenTransient, QuarantineFails, VacuumFails, RenameBakFails,
           StampFails, NoStore, Exit, TypeOK, Healing
  <2> QED BY <2>1, PromiseStutter
<1> QED BY <1>1, <1>2, <1>3, <1>4, <1>5, <1>6 DEF FaultStep

LEMMA PromiseDamage ==
  ASSUME SeqInv, Damage PROVE Promise!Lose
<1> USE DEF kept, dir, side, env
<1>1. /\ path # NoFile /\ path' = path /\ path' \in corrupt'
      /\ UNCHANGED <<hist, bak, crumb, committed, pc>>
  BY DEF Damage
<1>2. Saved' = Saved /\ ~ Settled' /\ Unsettled'
  BY <1>1 DEF Saved, Settled, Unsettled, ProbeFails
<1>3. Live' = Saved /\ Owed' /\ Showing' = Showing
  BY <1>1, <1>2 DEF Live, Owed, Owing, Showing
<1> QED BY <1>1, <1>2, <1>3 DEF Promise!Lose, Live, Owed, Showing

\* One process at a time, no step of the heal cut short, and no status killed
\* between clearing the breadcrumb and printing the notice: the store implements
\* HistoryPromise.  A capture adds a row, a backup keeps what it had, damage
\* loses no more than the rows since the backup, and the notice about it is due
\* until it is printed.
THEOREM StoreKeepsPromise == Alone /\ Spec => KeepsPromise
<1>1. Init => Promise!Init
  BY NoRowsEmpty
     DEF Init, Promise!Init, Settled, Unsettled, Owing, Saved, ProbeFails, Healing,
         NoImage
<1>2. ASSUME AloneInv, AloneInv', [Next]_vars
      PROVE  [Promise!Next]_PromiseVars
  <2>0. /\ TypeOK /\ TypeOK' /\ GenuineInv /\ NoticeInv /\ SeqInv /\ SeqInv'
    BY <1>2 DEF AloneInv, GenuineInv
  <2>1. ASSUME NEW p \in Proc, Start(p) PROVE UNCHANGED PromiseVars
    BY <2>0, <2>1, PromiseStutter DEF Start, dir, side, env, TypeOK, Healing
  <2>2. CASE Tick \/ UNCHANGED vars
    BY <2>2 DEF Tick, vars, dir, side, env, PromiseVars, Live, Owed, Owing,
                Showing, Settled, Unsettled, Saved, ProbeFails, Healing
  <2>3. CASE Damage
    BY <2>0, <2>3, PromiseDamage DEF Promise!Next
  <2> QED BY <1>2, <2>0, <2>1, <2>2, <2>3, PromiseOpenStep,
             PromiseCommandStep, PromiseFaultStep DEF Next
<1>3. AloneInv /\ AloneInv' /\ [Next]_vars => [Promise!Next]_(Promise!vars)
  BY <1>2 DEF PromiseVars, Promise!vars, Live, Owed, Showing
<1> QED BY <1>1, <1>3, AloneInvariant, PTL
        DEF Spec, KeepsPromise, Promise!Spec

=============================================================================
