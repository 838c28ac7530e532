----------------------------- MODULE ConfigFile -----------------------------
(***************************************************************************)
(* ccpool.json: config init (also the second half of ccpool init) fills    *)
(* what the user left open, by way of one temp name for all processes;     *)
(* hooks and knobs read the file at any moment.                            *)
(*                                                                         *)
(*   internal/config/config.go         Load, HooksEnabled, Merge, Write    *)
(*   internal/configcmd/configcmd.go   Init                                *)
(*                                                                         *)
(* A file is an inode: a writer goes on writing to the temp file it opened *)
(* after somebody else has renamed it into place.                          *)
(***************************************************************************)
EXTENDS Slots

CONSTANTS
  Nil,        \* a field that is not set
  Field,      \* enabled, and those that detection finds
  Found,      \* what detection may find
  Wanted,     \* what the user may put into the file
  Inode,      \* files that exist at a time
  MaxEdits,   \* bound on the user's edits
  MaxWrites   \* bound on the config inits

Config == [Field -> {Nil, "user", "found", "on", "off"}]
Empty  == [f \in Field |-> Nil]
Torn   == [f \in Field |-> "torn"]   \* empty or cut off: does not parse
NoFile == "none"

ASSUME ConfigAssumption ==
  /\ "enabled" \in Field /\ Found \union Wanted \subseteq Config
  /\ Nil \notin {"user", "found", "on", "off", "torn"}
  /\ NoFile \notin Inode
  /\ {MaxClock, MaxEdits, MaxWrites} \subseteq Nat

\* There is always another inode for a new file.
ASSUME InodeAssumption ==
  \A c \in Inode \union {NoFile}, t \in Inode \union {NoFile} :
    \A open \in [Proc -> Inode \union {NoFile}] :
      \E i \in Inode \ {c, t} : \A p \in Proc : open[p] # i

VARIABLES
  data,     \* what each inode holds
  conf,     \* the inode at ccpool.json, or NoFile
  tmp,      \* the inode at ccpool.json.tmp, or NoFile
  fd,       \* the inode a writer has open, or NoFile
  final,    \* what a writer is going to write, and whether by --force
  edits, writes,
  \* ghosts
  chosen,   \* what the user last put into the file
  excused   \* the file was written beside that, or over it by --force

confs == <<data, conf, tmp, fd, final, edits, writes, chosen, excused>>
confGhost == <<chosen, excused>>

-----------------------------------------------------------------------------
\* Load: the config there is, and whether it could be read.
Text    == IF conf = NoFile THEN Empty ELSE data[conf]

Corrupt == Text = Torn
Load    == IF Corrupt THEN Empty ELSE Text

\* CCPOOL_ENABLED, then the file, then on: fails open.
HooksEnabled(environ) ==
  IF environ # Nil THEN environ = "on" ELSE Load["enabled"] # "off"

\* Mutant: what detection found wins.
Mutant_Merge(base, add) == [f \in Field |-> IF add[f] # Nil THEN add[f] ELSE base[f]]

\* Fill what is missing.
Merge(base, add) == [f \in Field |-> IF base[f] = Nil THEN add[f] ELSE base[f]]

\* An inode that nobody can reach any more.
Unused == CHOOSE i \in Inode : i \notin {conf, tmp} \union {fd[p] : p \in Proc}

-----------------------------------------------------------------------------
NoFinal == [config |-> Empty, force |-> FALSE]

InitConfig ==
  /\ data = [i \in Inode |-> Torn]
  /\ conf = NoFile /\ tmp = NoFile
  /\ fd = [p \in Proc |-> NoFile]
  /\ final = [p \in Proc |-> NoFinal]
  /\ edits = 0 /\ writes = 0
  /\ chosen = Empty
  /\ excused = FALSE

\* An init that has read the config and not renamed its own yet.
Writing(p) == pc[p] \in {"truncate", "fill", "rename"}

EndConfig(p) ==
  /\ Leave(p)
  /\ fd' = [fd EXCEPT ![p] = NoFile]
  /\ final' = [final EXCEPT ![p] = NoFinal]

\* config init --apply: with --force what was found, else that merged into what
\* is there now.
Seed(p) ==
  /\ writes < MaxWrites
  /\ Launch(p, "truncate")
  /\ \E found \in Found, force \in BOOLEAN :
       /\ force \/ ~ Corrupt
       /\ final' = [final EXCEPT ![p] =
                      [config |-> IF force THEN found ELSE Merge(Load, found),
                       force |-> force]]
  /\ writes' = writes + 1
  /\ UNCHANGED <<data, conf, tmp, fd, edits, confGhost>>

\* os.WriteFile opens with O_TRUNC: the temp file of another may be emptied.
Truncate(p) ==
  LET i == IF tmp = NoFile THEN Unused ELSE tmp IN
  /\ pc[p] = "truncate"
  /\ tmp' = i
  /\ data' = [data EXCEPT ![i] = Torn]
  /\ fd' = [fd EXCEPT ![p] = i]
  /\ excused' = (excused \/ \E q \in Proc \ {p} : Writing(q))
  /\ Goto(p, "fill")
  /\ UNCHANGED <<conf, final, edits, writes, chosen>>

\* Over what another has written since, a shorter text leaves its end behind.
Fill(p) ==
  /\ pc[p] = "fill"
  /\ \E text \in {final[p].config, Torn} :
       /\ text = Torn => data[fd[p]] \notin {Torn, final[p].config}
       /\ data' = [data EXCEPT ![fd[p]] = text]
  /\ Goto(p, "rename")
  /\ UNCHANGED <<conf, tmp, fd, final, edits, writes, confGhost>>

\* Whatever has the temp name by now is renamed into place.
Rename(p) ==
  /\ pc[p] = "rename"
  /\ tmp # NoFile
  /\ conf' = tmp
  /\ tmp' = NoFile
  /\ excused' = (excused \/ final[p].force)
  /\ EndConfig(p)
  /\ UNCHANGED <<data, edits, writes, chosen>>

\* Another has renamed it already: config init reports the error.
RenameFails(p) ==
  /\ pc[p] = "rename"
  /\ tmp = NoFile
  /\ EndConfig(p)
  /\ UNCHANGED <<data, conf, tmp, edits, writes, confGhost>>

\* The process dies, or a write fails.
SeedDies(p) ==
  /\ Writing(p)
  /\ EndConfig(p)
  /\ UNCHANGED <<data, conf, tmp, edits, writes, confGhost>>

\* The user saves a config, as editors do, by a file of its own.
Choose ==
  /\ edits < MaxEdits
  /\ \E c \in Wanted :
       /\ conf' = Unused
       /\ data' = [data EXCEPT ![Unused] = c]
       /\ chosen' = c
  /\ excused' = \E p \in Proc : Writing(p)
  /\ edits' = edits + 1
  /\ UNCHANGED <<slots, tmp, fd, final, writes>>

ConfigNext ==
  \/ \E p \in Proc :
       Seed(p) \/ Truncate(p) \/ Fill(p) \/ Rename(p) \/ RenameFails(p) \/ SeedDies(p)
  \/ Choose

-----------------------------------------------------------------------------
\* Every variable has its type.
ConfigTypeOK ==
  /\ data \in [Inode -> Config \union {Torn}]
  /\ conf \in Inode \union {NoFile} /\ tmp \in Inode \union {NoFile}
  /\ fd \in [Proc -> Inode \union {NoFile}]
  /\ final \in [Proc -> [config : Config, force : BOOLEAN]]
  /\ edits \in 0 .. MaxEdits /\ writes \in 0 .. MaxWrites
  /\ chosen \in Config /\ excused \in BOOLEAN

\* The config can be read and says what the user chose, the kill switch before
\* all, whatever inits fill in, fail or die over it; unless one of them had read
\* it before that choice, two of them wrote at once, or --force was given
\* (config.go, "never overwriting a value base already has", "atomically").
UserChoiceHolds ==
  ~ excused =>
    /\ ~ Corrupt
    /\ \A f \in Field : chosen[f] # Nil => Load[f] = chosen[f]

=============================================================================
