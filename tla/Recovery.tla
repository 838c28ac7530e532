------------------------------ MODULE Recovery ------------------------------
(***************************************************************************)
(* The life of ccpool's shared database file: opening, quarantine and      *)
(* re-creation of a corrupt file, restore from the rolling backup, the     *)
(* breadcrumb that surfaces a recovery, the backup itself, and the capture *)
(* of history rows, by many short-lived processes that share one           *)
(* directory and take no lock between them.                                *)
(*                                                                         *)
(*   internal/store/store.go      Open, openAt, quarantine, healFromBackup *)
(*   internal/store/facade.go     Backup, BackupIfStale, restoreHistoryFrom*)
(*   internal/statusline          Command (capture) and WarmCalib (backup) *)
(*   internal/status              the recovery notices of status and check *)
(*                                                                         *)
(* A file is a main file together with its sidecars, -wal and -shm: what a *)
(* handle on it reads and writes, also after the names have moved on.  A   *)
(* main file that has lost its sidecar is another file, with less in it:   *)
(* what SQLite had not checkpointed yet.  History rows are the only        *)
(* contents told apart, with multiplicity.                                 *)
(***************************************************************************)
EXTENDS Integers, FiniteSets

CONSTANTS
  Proc,        \* process slots: a slot runs one command after another
  Row,         \* the history rows that renders may write
  Kinds,       \* the commands that run, a subset of AllKinds
  Faults,      \* the failures that may happen, a subset of AllFaults
  BackupSecs,  \* least age of last_backup before a new backup
  MaxClock,    \* bound on the wall clock
  MaxFiles,    \* bound on the database files there ever are
  MaxDamage    \* bound on the corruptions the environment causes

AllKinds == {"render", "warm", "status", "check"}

\* busy: the first openAt fails as transient      reopen: the second one does
\* sidecar: the sidecar cannot be renamed         rename: nor the main file
\* restore: .bak is unreadable                    mark: the breadcrumb cannot be written
\* vacuum: a backup step fails                    kv: last_backup cannot be written
\* crash: a process dies inside the heal          unseen: before it prints the notice
\* kill: or elsewhere
AllFaults == {"busy", "sidecar", "rename", "reopen", "restore", "mark", "vacuum",
              "kv", "kill", "crash", "unseen"}

ASSUME BoundsAssumption ==
  /\ BackupSecs \in Nat
  /\ MaxClock \in Nat
  /\ MaxFiles \in Nat
  /\ MaxDamage \in Nat

ASSUME KindsAssumption == Kinds \subseteq AllKinds /\ Faults \subseteq AllFaults

NoFile  == 0
NoStamp == -1
File    == 1 .. MaxFiles
Time    == 0 .. MaxClock

VARIABLES
  \* the directory
  path,         \* the file the name ccpool.db resolves to, or NoFile
  nfiles,       \* files created so far: 1 .. nfiles
  corrupt,      \* the files whose probe fails with CORRUPT or NOTADB
  hist,         \* the history table of each file: copies of each row
  stamp,        \* the kv row last_backup of each file, or NoStamp
  quarantined,  \* the files renamed to .corrupt-<nanos>
  aside,        \* sidecars renamed so: a file, and what it became without it
  lost,         \* sidecars removed, or left behind by the rename
  bak,          \* ccpool.db.bak
  tmp,          \* ccpool.db.bak.<pid>.tmp of each process
  crumb,        \* ccpool.db.recovered, or "none"
  \* the processes
  pc, kind, now, handle, found,
  \* the environment and the history of the run
  clock,
  damage,       \* corruptions so far
  committed,    \* rows whose transaction committed
  backed        \* rows that were ever in .bak

kept == <<quarantined, aside, lost>>
dir  == <<path, nfiles, corrupt, hist, stamp, kept>>
side == <<bak, tmp, crumb>>
env  == <<clock, damage, committed, backed>>
vars == <<path, nfiles, corrupt, hist, stamp, quarantined, aside, lost,
          bak, tmp, crumb, pc, kind, now, handle, found,
          clock, damage, committed, backed>>

-----------------------------------------------------------------------------
(***************************************************************************)
(* Copies of the history table.                                            *)
(***************************************************************************)
Table    == [Row -> Nat]
NoRows   == [r \in Row |-> 0]
RowsOf(t) == {r \in Row : t[r] > 0}

\* INSERT INTO history of one row.
Insert(t, r) == [t EXCEPT ![r] = @ + 1]

\* Mutant: the restore counts the rows but inserts none.
MutantPlus(t, b) == t

\* INSERT INTO history SELECT ... FROM bak.history: every row of b once more.
Plus(t, b) == [r \in Row |-> t[r] + b[r]]

\* The part of it that is in the main file, when the rows in s are.
Part(t, s) == [r \in Row |-> IF r \in s THEN t[r] ELSE 0]

\* The rows that are in a separated sidecar only.
Logged(x) == RowsOf(hist[x[1]]) \ RowsOf(hist[x[2]])

\* A copy on disk: absent, being written, or complete.
Image   == [state : {"absent", "partial", "complete"}, rows : Table, at : Time]
NoImage == [state |-> "absent", rows |-> NoRows, at |-> 0]

\* Rows of a complete image.
Saved == IF bak.state = "complete" THEN RowsOf(bak.rows) ELSE {}

\* The breadcrumb's count, by sign: >0, 0 and -1.
Crumbs == {"restored", "nothing", "unreadable"}

Healing(p) == pc[p] \in {"reopen", "heal", "mark"}

\* A process has the file at path open, so that it has a sidecar.
InUse == \E p \in Proc : handle[p] # NoFile /\ handle[p] = path

\* The schema probe of openAt fails on the file at path.
ProbeFails == path # NoFile /\ path \in corrupt

-----------------------------------------------------------------------------
Init ==
  /\ path = NoFile
  /\ nfiles = 0
  /\ corrupt = {}
  /\ hist = [f \in File |-> NoRows]
  /\ stamp = [f \in File |-> NoStamp]
  /\ quarantined = {} /\ aside = {} /\ lost = {}
  /\ bak = NoImage
  /\ tmp = [p \in Proc |-> NoImage]
  /\ crumb = "none"
  /\ pc = [p \in Proc |-> "idle"]
  /\ kind = [p \in Proc |-> "check"]
  /\ now = [p \in Proc |-> 0]
  /\ handle = [p \in Proc |-> NoFile]
  /\ found = [p \in Proc |-> "none"]
  /\ clock = 0
  /\ damage = 0
  /\ committed = {}
  /\ backed = {}

\* The process ends: its handle is closed and its locals are gone.
Exit(p) ==
  /\ pc' = [pc EXCEPT ![p] = "idle"]
  /\ kind' = [kind EXCEPT ![p] = "check"]
  /\ now' = [now EXCEPT ![p] = 0]
  /\ handle' = [handle EXCEPT ![p] = NoFile]
  /\ found' = [found EXCEPT ![p] = "none"]

Goto(p, l) ==
  /\ pc' = [pc EXCEPT ![p] = l]
  /\ UNCHANGED <<kind, now, handle, found>>

\* Open returned without a store: the command goes on with a nil handle.
NoStore(p) ==
  /\ pc' = [pc EXCEPT ![p] = "ready"]
  /\ handle' = [handle EXCEPT ![p] = NoFile]
  /\ UNCHANGED <<kind, now, found>>

-----------------------------------------------------------------------------
(***************************************************************************)
(* store.Open.                                                             *)
(***************************************************************************)

\* A command is launched; main takes the time once, before anything else.
Start(p) ==
  /\ pc[p] = "idle"
  /\ \E k \in Kinds : kind' = [kind EXCEPT ![p] = k]
  /\ now' = [now EXCEPT ![p] = clock]
  /\ pc' = [pc EXCEPT ![p] = "open"]
  /\ UNCHANGED <<handle, found, dir, side, env>>

\* openAt on an absent or readable file; goes on at label l.
OpenAt(p, l) ==
  /\ ~ ProbeFails
  /\ \/ /\ path # NoFile
        /\ handle' = [handle EXCEPT ![p] = path]
        /\ UNCHANGED dir
     \/ /\ path = NoFile
        /\ nfiles < MaxFiles
        /\ nfiles' = nfiles + 1
        /\ path' = nfiles + 1
        /\ handle' = [handle EXCEPT ![p] = nfiles + 1]
        /\ UNCHANGED <<corrupt, hist, stamp, kept>>
  /\ pc' = [pc EXCEPT ![p] = l]
  /\ UNCHANGED <<kind, now, found, side, env>>

\* Mutant: every successful open restores, not only a re-created file's.
MutantOpenOk(p) == pc[p] = "open" /\ OpenAt(p, "heal")

OpenOk(p) == pc[p] = "open" /\ OpenAt(p, "ready")

OpenCorrupt(p) ==
  /\ pc[p] = "open"
  /\ ProbeFails
  /\ Goto(p, "quarantine")
  /\ UNCHANGED <<dir, side, env>>

OpenTransient(p) ==
  /\ "busy" \in Faults
  /\ pc[p] = "open"
  /\ NoStore(p)
  /\ UNCHANGED <<dir, side, env>>

\* The main file and its sidecar part: new handles find in it what SQLite had
\* checkpointed, old ones stay on the two as they were. Leaves a file to the
\* re-creation.
Separate(s, t) ==
  /\ path # NoFile
  /\ \/ InUse
     \/ "kill" \in Faults /\ <<Part(hist[path], s), t>> # <<hist[path], stamp[path]>>
  /\ t <= stamp[path]
  /\ nfiles + 1 < MaxFiles
  /\ nfiles' = nfiles + 1
  /\ hist' = [hist EXCEPT ![nfiles + 1] = Part(hist[path], s)]
  /\ stamp' = [stamp EXCEPT ![nfiles + 1] = t]
  /\ corrupt' = IF path \in corrupt THEN corrupt \union {nfiles + 1} ELSE corrupt

\* quarantine, the sidecars first: there are some as long as there are handles,
\* and when a process was killed that had rows in one.
SidecarAside(p) ==
  /\ pc[p] = "quarantine"
  /\ \E s \in SUBSET Row, t \in Time \union {NoStamp} : Separate(s, t)
  /\ path' = nfiles + 1
  /\ aside' = aside \union {<<path, nfiles + 1>>}
  /\ Goto(p, "setaside")
  /\ UNCHANGED <<quarantined, lost, side, env>>

\* One that cannot be renamed is removed instead.
SidecarRemoved(p) ==
  /\ "sidecar" \in Faults
  /\ pc[p] = "quarantine"
  /\ \E s \in SUBSET Row, t \in Time \union {NoStamp} : Separate(s, t)
  /\ path' = nfiles + 1
  /\ lost' = lost \union {<<path, nfiles + 1>>}
  /\ Goto(p, "setaside")
  /\ UNCHANGED <<quarantined, aside, side, env>>

\* There is none; or it could not be removed either.
NoSidecar(p) ==
  /\ pc[p] = "quarantine"
  /\ ~ InUse \/ "sidecar" \in Faults
  /\ Goto(p, "setaside")
  /\ UNCHANGED <<dir, side, env>>

\* Mutants: a missing file is set aside all the same; the corrupt file is
\* deleted; the rename's failure is ignored.
MutantQuarantineMissing(p) ==
  /\ pc[p] = "setaside"
  /\ quarantined' = quarantined \union {path}
  /\ path' = NoFile
  /\ Goto(p, "reopen")
  /\ UNCHANGED <<nfiles, corrupt, hist, stamp, aside, lost, side, env>>

MutantQuarantineDeletes(p) ==
  /\ pc[p] = "setaside"
  /\ path' = NoFile
  /\ Goto(p, "reopen")
  /\ UNCHANGED <<nfiles, corrupt, hist, stamp, kept, side, env>>

MutantQuarantineIgnored(p) ==
  /\ pc[p] = "setaside"
  /\ Goto(p, "reopen")
  /\ UNCHANGED <<dir, side, env>>

\* Then the main file: whatever the name resolves to by now; a name that is
\* already gone is not an error.
Quarantine(p) ==
  /\ pc[p] = "setaside"
  /\ ~ InUse
  /\ quarantined' = quarantined \union ({path} \ {NoFile})
  /\ path' = NoFile
  /\ Goto(p, "reopen")
  /\ UNCHANGED <<nfiles, corrupt, hist, stamp, aside, lost, side, env>>

\* A sidecar that another process has made meanwhile, or that could not be
\* removed, stays; SQLite deletes it when it creates the new database.
QuarantineLeaves(p) ==
  /\ pc[p] = "setaside"
  /\ InUse
  /\ \E s \in SUBSET Row, t \in Time \union {NoStamp} : Separate(s, t)
  /\ quarantined' = quarantined \union {nfiles + 1}
  /\ path' = NoFile
  /\ lost' = lost \union {<<path, nfiles + 1>>}
  /\ Goto(p, "reopen")
  /\ UNCHANGED <<aside, side, env>>

\* The rename failed: Open returns StateCorrupt rather than recreate over it.
\* The sidecar is gone all the same.
QuarantineFails(p) ==
  /\ "rename" \in Faults
  /\ pc[p] = "setaside"
  /\ NoStore(p)
  /\ UNCHANGED <<dir, side, env>>

\* Mutant: the re-created database is used without a heal.
MutantReopen(p) == pc[p] = "reopen" /\ OpenAt(p, "ready")

Reopen(p) == pc[p] = "reopen" /\ OpenAt(p, "heal")

\* The second openAt is not retried and nothing is healed when it fails.
ReopenFails(p) ==
  /\ pc[p] = "reopen"
  /\ ProbeFails \/ "reopen" \in Faults
  /\ NoStore(p)
  /\ UNCHANGED <<dir, side, env>>

\* healFromBackup, the restore: the file the handle is on, from the .bak there
\* is now. One INSERT..SELECT, so all of the rows or none.
Restore(p) ==
  /\ pc[p] = "heal"
  /\ bak.state # "absent"
  /\ handle[p] \notin corrupt
  /\ hist' = [hist EXCEPT ![handle[p]] = Plus(@, bak.rows)]
  /\ found' = [found EXCEPT ![p] = IF RowsOf(bak.rows) = {} THEN "nothing"
                                                            ELSE "restored"]
  /\ pc' = [pc EXCEPT ![p] = "mark"]
  /\ UNCHANGED <<path, nfiles, corrupt, stamp, kept, kind, now, handle,
                 side, env>>

NothingToRestore(p) ==
  /\ pc[p] = "heal"
  /\ bak.state = "absent"
  /\ found' = [found EXCEPT ![p] = "nothing"]
  /\ pc' = [pc EXCEPT ![p] = "mark"]
  /\ UNCHANGED <<kind, now, handle, dir, side, env>>

RestoreFails(p) ==
  /\ pc[p] = "heal"
  /\ bak.state # "absent"
  /\ handle[p] \in corrupt \/ "restore" \in Faults
  /\ found' = [found EXCEPT ![p] = "unreadable"]
  /\ pc' = [pc EXCEPT ![p] = "mark"]
  /\ UNCHANGED <<kind, now, handle, dir, side, env>>

\* healFromBackup, the breadcrumb.
Mark(p) ==
  /\ pc[p] = "mark"
  /\ crumb' = found[p]
  /\ found' = [found EXCEPT ![p] = "none"]
  /\ pc' = [pc EXCEPT ![p] = "ready"]
  /\ UNCHANGED <<kind, now, handle, dir, bak, tmp, env>>

MarkFails(p) ==
  /\ "mark" \in Faults
  /\ pc[p] = "mark"
  /\ found' = [found EXCEPT ![p] = "none"]
  /\ pc' = [pc EXCEPT ![p] = "ready"]
  /\ UNCHANGED <<kind, now, handle, dir, side, env>>

-----------------------------------------------------------------------------
(***************************************************************************)
(* statusline: capture of a history row.                                   *)
(***************************************************************************)

\* CaptureAndAppend commits a new row into the file the handle is on.
Capture(p) ==
  /\ pc[p] = "ready" /\ kind[p] = "render"
  /\ handle[p] # NoFile
  /\ \E r \in Row \ committed :
       /\ hist' = [hist EXCEPT ![handle[p]] = Insert(@, r)]
       /\ committed' = committed \union {r}
  /\ Exit(p)
  /\ UNCHANGED <<path, nfiles, corrupt, stamp, kept, side, clock, damage,
                 backed>>

\* No store, nothing to append, or the transaction was rolled back.
CaptureSkips(p) ==
  /\ pc[p] = "ready" /\ kind[p] = "render"
  /\ Exit(p)
  /\ UNCHANGED <<dir, side, env>>

-----------------------------------------------------------------------------
(***************************************************************************)
(* __warm-calib: the rolling backup.                                       *)
(***************************************************************************)
BackupFresh(p) ==
  /\ handle[p] # NoFile
  /\ stamp[handle[p]] # NoStamp
  /\ now[p] - stamp[handle[p]] < BackupSecs

\* The gate cannot read last_backup of a corrupt file and lets the backup run.
BackupGated(p) ==
  /\ pc[p] = "ready" /\ kind[p] = "warm"
  /\ handle[p] = NoFile \/ BackupFresh(p)
  /\ Exit(p)
  /\ UNCHANGED <<dir, side, env>>

\* Mutant: last_backup is advanced before the backup is made.
MutantBackupStarts(p) ==
  /\ pc[p] = "ready" /\ kind[p] = "warm"
  /\ handle[p] # NoFile
  /\ ~ BackupFresh(p) \/ handle[p] \in corrupt
  /\ stamp' = [stamp EXCEPT ![handle[p]] = now[p]]
  /\ tmp' = [tmp EXCEPT ![p] = [state |-> "partial", rows |-> hist[handle[p]],
                                at |-> now[p]]]
  /\ Goto(p, "vacuum")
  /\ UNCHANGED <<path, nfiles, corrupt, hist, kept, bak, crumb, env>>

\* Backup removes its own temp file and VACUUM INTO starts to write it anew
\* from the state the file has now.
BackupStarts(p) ==
  /\ pc[p] = "ready" /\ kind[p] = "warm"
  /\ handle[p] # NoFile
  /\ ~ BackupFresh(p) \/ handle[p] \in corrupt
  /\ tmp' = [tmp EXCEPT ![p] = [state |-> "partial", rows |-> hist[handle[p]],
                                at |-> now[p]]]
  /\ Goto(p, "vacuum")
  /\ UNCHANGED <<dir, bak, crumb, env>>

\* VACUUM INTO reads every page: it completes only on a clean file.
VacuumEnds(p) ==
  /\ pc[p] = "vacuum"
  /\ handle[p] \notin corrupt
  /\ tmp' = [tmp EXCEPT ![p].state = "complete"]
  /\ Goto(p, "rename")
  /\ UNCHANGED <<dir, bak, crumb, env>>

\* Mutant: the error of VACUUM INTO is not returned.
MutantVacuumFails(p) ==
  /\ pc[p] = "vacuum"
  /\ handle[p] \in corrupt \/ "vacuum" \in Faults
  /\ Goto(p, "rename")
  /\ UNCHANGED <<dir, side, env>>

VacuumFails(p) ==
  /\ pc[p] = "vacuum"
  /\ handle[p] \in corrupt \/ "vacuum" \in Faults
  /\ tmp' = [tmp EXCEPT ![p] = NoImage]
  /\ Exit(p)
  /\ UNCHANGED <<dir, bak, crumb, env>>

RenameBak(p) ==
  /\ pc[p] = "rename"
  /\ bak' = tmp[p]
  /\ tmp' = [tmp EXCEPT ![p] = NoImage]
  /\ backed' = backed \union RowsOf(tmp[p].rows)
  /\ Goto(p, "stamp")
  /\ UNCHANGED <<dir, crumb, clock, damage, committed>>

\* A failed rename leaves the temp file behind and does not advance the stamp.
RenameBakFails(p) ==
  /\ "vacuum" \in Faults
  /\ pc[p] = "rename"
  /\ Exit(p)
  /\ UNCHANGED <<dir, side, env>>

StampBackup(p) ==
  /\ pc[p] = "stamp"
  /\ stamp' = [stamp EXCEPT ![handle[p]] = now[p]]
  /\ Exit(p)
  /\ UNCHANGED <<path, nfiles, corrupt, hist, kept, side, env>>

StampFails(p) ==
  /\ "kv" \in Faults
  /\ pc[p] = "stamp"
  /\ Exit(p)
  /\ UNCHANGED <<dir, side, env>>

-----------------------------------------------------------------------------
(***************************************************************************)
(* status and check: the recovery notice.                                  *)
(***************************************************************************)

\* status reads the breadcrumb and makes the notice of it;
ReadNotice(p) ==
  /\ pc[p] = "ready" /\ kind[p] = "status"
  /\ handle[p] # NoFile
  /\ crumb # "none"
  /\ found' = [found EXCEPT ![p] = crumb]
  /\ pc' = [pc EXCEPT ![p] = "clear"]
  /\ UNCHANGED <<kind, now, handle, dir, side, env>>

\* With a store it could not open, status says so and returns.
NoNotice(p) ==
  /\ pc[p] = "ready" /\ kind[p] = "status"
  /\ handle[p] = NoFile \/ crumb = "none"
  /\ Exit(p)
  /\ UNCHANGED <<dir, side, env>>

\* the deferred clearing removes the breadcrumb that there is by now;
ClearNotice(p) ==
  /\ pc[p] = "clear"
  /\ crumb' = "none"
  /\ Goto(p, "print")
  /\ UNCHANGED <<dir, bak, tmp, env>>

\* Mutant: the notice is dropped on the way to main.
MutantPrintNotice(p) ==
  /\ pc[p] = "print"
  /\ Exit(p)
  /\ UNCHANGED <<dir, side, env>>

\* main prints the lines when status has returned them.
PrintNotice(p) ==
  /\ pc[p] = "print"
  /\ found' = [found EXCEPT ![p] = "none"]
  /\ pc' = [pc EXCEPT ![p] = "printed"]
  /\ UNCHANGED <<kind, now, handle, dir, side, env>>

Printed(p) ==
  /\ pc[p] = "printed"
  /\ Exit(p)
  /\ UNCHANGED <<dir, side, env>>

\* Mutant: check clears the breadcrumb it has shown.
MutantCheckNotice(p) ==
  /\ pc[p] = "ready" /\ kind[p] = "check"
  /\ crumb' = "none"
  /\ Exit(p)
  /\ UNCHANGED <<dir, bak, tmp, env>>

\* check prints its one-line pointer and leaves the breadcrumb where it is.
CheckNotice(p) ==
  /\ pc[p] = "ready" /\ kind[p] = "check"
  /\ Exit(p)
  /\ UNCHANGED <<dir, side, env>>

-----------------------------------------------------------------------------
(***************************************************************************)
(* The environment: time, damage to the file on disk, death of a process.  *)
(***************************************************************************)
Tick ==
  /\ clock < MaxClock
  /\ clock' = clock + 1
  /\ UNCHANGED <<dir, side, pc, kind, now, handle, found, damage, committed,
                 backed>>

Damage ==
  /\ damage < MaxDamage
  /\ path # NoFile
  /\ path \notin corrupt
  /\ nfiles < MaxFiles
  /\ corrupt' = corrupt \union {path}
  /\ damage' = damage + 1
  /\ UNCHANGED <<path, nfiles, hist, stamp, kept, side,
                 pc, kind, now, handle, found, clock, committed, backed>>

\* The temp file of a killed backup stays on disk.
Die(p) ==
  /\ pc[p] # "idle"
  /\ (IF Healing(p) THEN "crash" ELSE IF pc[p] = "print" THEN "unseen" ELSE "kill")
       \in Faults
  /\ Exit(p)
  /\ UNCHANGED <<dir, side, env>>

-----------------------------------------------------------------------------
OpenStep(p) ==
  \/ OpenOk(p) \/ OpenCorrupt(p)
  \/ SidecarAside(p) \/ NoSidecar(p) \/ Quarantine(p) \/ QuarantineLeaves(p)
  \/ Reopen(p)
  \/ Restore(p) \/ NothingToRestore(p) \/ Mark(p)

CommandStep(p) ==
  \/ Capture(p) \/ CaptureSkips(p)
  \/ BackupGated(p) \/ BackupStarts(p) \/ VacuumEnds(p) \/ RenameBak(p)
  \/ StampBackup(p)
  \/ ReadNotice(p) \/ NoNotice(p) \/ ClearNotice(p) \/ PrintNotice(p) \/ Printed(p)
  \/ CheckNotice(p)

FaultStep(p) ==
  \/ OpenTransient(p) \/ SidecarRemoved(p) \/ QuarantineFails(p) \/ ReopenFails(p)
  \/ RestoreFails(p) \/ MarkFails(p)
  \/ VacuumFails(p) \/ RenameBakFails(p) \/ StampFails(p)
  \/ Die(p)

Next ==
  \/ \E p \in Proc : Start(p) \/ OpenStep(p) \/ CommandStep(p) \/ FaultStep(p)
  \/ Tick
  \/ Damage

Spec == Init /\ [][Next]_vars

(***************************************************************************)
(* The operating system runs every process, a failing step fails, and the  *)
(* windows of Claude Code keep launching statuslines.                      *)
(***************************************************************************)
Fairness ==
  \A p \in Proc :
    /\ WF_vars(Start(p))
    /\ WF_vars(OpenStep(p) \/ CommandStep(p) \/ ReopenFails(p)
               \/ RestoreFails(p) \/ VacuumFails(p))

FairSpec == Spec /\ Fairness

-----------------------------------------------------------------------------
(***************************************************************************)
(* Correctness.                                                            *)
(***************************************************************************)

\* Every variable has its type, and a process that works on a store has one.
TypeOK ==
  /\ path \in File \union {NoFile}
  /\ nfiles \in 0 .. MaxFiles
  /\ corrupt \subseteq File
  /\ hist \in [File -> Table]
  /\ stamp \in [File -> Time \union {NoStamp}]
  /\ quarantined \subseteq File
  /\ aside \subseteq File \X File /\ lost \subseteq File \X File
  /\ bak \in Image
  /\ tmp \in [Proc -> Image]
  /\ crumb \in Crumbs \union {"none"}
  /\ pc \in [Proc -> {"idle", "open", "quarantine", "setaside", "reopen", "heal",
                      "mark", "ready", "vacuum", "rename", "stamp", "clear",
                      "print", "printed"}]
  /\ kind \in [Proc -> AllKinds]
  /\ now \in [Proc -> Time]
  /\ handle \in [Proc -> File \union {NoFile}]
  /\ found \in [Proc -> Crumbs \union {"none"}]
  /\ clock \in Time
  /\ damage \in 0 .. MaxDamage
  /\ committed \subseteq Row
  /\ backed \subseteq Row

\* However opens, heals, deaths and failures interleave, a committed row is
\* still in the live file, in a main file or in a sidecar that was set aside:
\* nothing is recreated over a file (store.go, Open and quarantine). Only what
\* was in no main file yet may be destroyed, with a sidecar that could not be
\* renamed, or that another process has made between the two renames.
NoRowDestroyed ==
  \A r \in committed :
    \/ path # NoFile /\ hist[path][r] > 0
    \/ \E f \in quarantined : hist[f][r] > 0
    \/ \E x \in aside \union lost : r \in Logged(x)

\* .bak, once there, is a complete image made only of committed rows, whatever
\* dies or fails while it is replaced: VACUUM INTO goes to a file of the
\* process's own and only a finished one is renamed (facade.go, Backup).
BakIsGenuine ==
  bak.state # "absent" =>
    /\ bak.state = "complete"
    /\ RowsOf(bak.rows) \subseteq committed

\* Only status removes the breadcrumb: an autonomous loop of check, a render
\* or a second heal may not consume the notice (status/check.go,
\* recoveryNudgeFull and recoveryNudgeBrief).
OnlyStatusClears ==
  [][crumb # "none" /\ crumb' = "none" =>
       \E p \in Proc : pc[p] = "clear" /\ kind[p] = "status"]_vars

\* A history row is in a file once: a heal never restores on top of rows.
NoDuplicates == \A f \in File, r \in Row : hist[f][r] <= 1

\* The rolling backup never goes back: a row that was once in .bak stays in it,
\* also across a heal that begins with an empty database (facade.go, Backup:
\* last-known-good).
LastKnownGood == backed \subseteq Saved

\* A backed-up row that is missing from the live database is on its way back
\* or a notice about it is due: no process reads an emptied history without
\* anything that says so (db-recovery-design.md, "Invariant change").
NoSilentLoss ==
  path # NoFile /\ path \notin corrupt =>
    \/ backed \subseteq RowsOf(hist[path])
    \/ crumb # "none"
    \/ \E p \in Proc : Healing(p)

\* The heal reports "no backup" only when there never was one (store.go,
\* healFromBackup: "0: no .bak existed").
NothingMeansNoBackup ==
  [][\A p \in Proc : pc[p] = "heal" /\ found'[p] = "nothing" =>
       backed = {}]_vars

\* last_backup never runs ahead of the backup it dates: a gate that holds back
\* the next backup has one that old to show (facade.go, BackupIfStale).
StampHasBackup ==
  path # NoFile /\ stamp[path] # NoStamp =>
    bak.state = "complete" /\ stamp[path] <= bak.at

\* Only a file found corrupt is set aside, never a readable one that was busy
\* or that another process has just put there (store.go, classify and
\* quarantine).
QuarantinesOnlyCorrupt ==
  [][path # NoFile /\ path' = NoFile => path \in corrupt]_vars

\* A corrupt database does not stay: as long as statuslines are launched, one
\* of them puts a readable file in its place (store.go, Open).
HealsEventually == ProbeFails ~> (path # NoFile /\ path \notin corrupt)

\* The promise of HistoryPromise, read off the directory. While the file at
\* the path is corrupt, gone or not restored yet, what a reader is going to
\* find is what .bak holds.
Settled ==
  /\ path # NoFile /\ path \notin corrupt
  /\ \A p \in Proc : pc[p] \notin {"reopen", "heal"}
Unsettled ==
  \/ ProbeFails
  \/ \E p \in Proc : Healing(p)

\* A notice that was read is not printed yet.
Owing == crumb # "none" \/ \E p \in Proc : pc[p] = "print"

Promise == INSTANCE HistoryPromise WITH
  live     <- IF Settled THEN RowsOf(hist[path]) ELSE Saved,
  saved    <- Saved,
  captured <- committed,
  owed     <- Unsettled \/ Owing,
  shown    <- \E p \in Proc : pc[p] = "printed"

\* One process at a time keeps the promise, whatever fails or dies outside of
\* the heal itself and of a status about to print the notice: the rows of the
\* backup come back, and the notice is due until it is printed.
KeepsPromise == Promise!Spec

=============================================================================
