--------------------------- MODULE CommandsProofs ---------------------------
(***************************************************************************)
(* The slots that all commands share, and what holds of the files that     *)
(* they write beside one another: ccpool.json, the markers of the hooks,   *)
(* the anomaly log and the settings of Claude Code.  For any number of     *)
(* processes, any mix of commands and any bounds.                          *)
(***************************************************************************)
EXTENDS Commands, FiniteSetTheorems, SequenceTheorems, TLAPS

InitLabels   == {"check", "load", "backup", "copy", "write", "skill", "install"}
ConfigLabels == {"truncate", "fill", "rename"}
HookLabels   == {"look", "mark", "filling"}
LogLabels    == {"empty", "lines"}
RunLabels    == {"weekly", "fiveHour"}

Labels == {"idle"} \union InitLabels \union ConfigLabels \union HookLabels
          \union LogLabels \union RunLabels

SlotsType ==
  /\ clock \in 0 .. MaxClock
  /\ now \in [Proc -> 0 .. MaxClock]
  /\ pc \in [Proc -> Labels]

\* A step of one process among the labels of its kind, or of none.
StepIn(labels) ==
  \/ UNCHANGED slots
  \/ \E p \in Proc :
       /\ pc[p] \in labels \union {"idle"}
       /\ \/ Leave(p)
          \/ \E l \in labels : Launch(p, l) \/ Goto(p, l)

\* Whoever is at one of these labels stays there, and nobody comes to one.
Spares(labels) ==
  \A p \in Proc :
    \/ pc'[p] = pc[p] /\ now'[p] = now[p]
    \/ pc[p] \notin labels /\ pc'[p] \notin labels

LEMMA SlotsBounds == MaxClock \in Nat
BY SettingsAssumption

-----------------------------------------------------------------------------
LEMMA SettingsStep == ASSUME SettingsNext PROVE StepIn(InitLabels)
<1> USE DEF InitLabels, StepIn, Idle
<1>1. CASE EditSettings \/ RemoveSettings
  BY <1>1 DEF EditSettings, RemoveSettings
<1>2. ASSUME NEW p \in Proc, Start(p) \/ CheckLink(p) \/ Refuses(p) \/ OnlyShows(p)
      PROVE  StepIn(InitLabels)
  BY <1>2 DEF Start, CheckLink, Refuses, OnlyShows, Exit, Launch
<1>3. ASSUME NEW p \in Proc, NEW replace \in BOOLEAN, Loads(p, replace)
      PROVE  StepIn(InitLabels)
  BY <1>3 DEF Loads
<1>4. ASSUME NEW p \in Proc,
             NoBackup(p) \/ ChooseBackup(p) \/ CopyBackup(p) \/ CopyFails(p) \/ Write(p)
      PROVE  StepIn(InitLabels)
  BY <1>4 DEF NoBackup, ChooseBackup, CopyBackup, CopyFails, Write, Exit
<1>5. ASSUME NEW p \in Proc,
             SkillAbsent(p) \/ SkillThere(p) \/ InstallSkill(p) \/ GivesUp(p)
      PROVE  StepIn(InitLabels)
  BY <1>5 DEF SkillAbsent, SkillThere, InstallSkill, GivesUp, Exit
<1> QED BY <1>1, <1>2, <1>3, <1>4, <1>5 DEF SettingsNext

LEMMA ConfigStep == ASSUME ConfigNext PROVE StepIn(ConfigLabels)
<1> USE DEF ConfigLabels, StepIn, Idle
<1>1. CASE Choose
  BY <1>1 DEF Choose
<1>2. ASSUME NEW p \in Proc, Seed(p) \/ Truncate(p) \/ Fill(p)
      PROVE  StepIn(ConfigLabels)
  BY <1>2 DEF Seed, Truncate, Fill, Launch
<1>3. ASSUME NEW p \in Proc, Rename(p) \/ RenameFails(p) \/ SeedDies(p)
      PROVE  StepIn(ConfigLabels)
  BY <1>3 DEF Rename, RenameFails, SeedDies, EndConfig, Writing
<1> QED BY <1>1, <1>2, <1>3 DEF ConfigNext

LEMMA WarnStep == ASSUME WarnNext PROVE StepIn(HookLabels)
<1> USE DEF HookLabels, StepIn, Idle
<1>1. ASSUME NEW p \in Proc,
             StartHook(p) \/ OpenMarker(p) \/ FillMarker(p) \/ MarkerFails(p)
      PROVE  StepIn(HookLabels)
  BY <1>1 DEF StartHook, OpenMarker, FillMarker, MarkerFails, Launch
<1>2. ASSUME NEW p \in Proc, Prints(p) \/ HookDies(p)
      PROVE  StepIn(HookLabels)
  BY <1>2 DEF Prints, HookDies, EndHook
<1>3. ASSUME NEW p \in Proc, LookAfterPrompt(p) \/ LookAfterTool(p)
      PROVE  StepIn(HookLabels)
  BY <1>3 DEF LookAfterPrompt, LookAfterTool, Look, EndHook
<1> QED BY <1>1, <1>2, <1>3 DEF WarnNext

LEMMA LogStep == ASSUME LogNext PROVE StepIn(LogLabels)
BY DEF LogNext, Record, EmptyLog, WriteLines, WriterDies, ChildAppends, EndLog, Logging,
       LogLabels, StepIn, Idle, Launch

LEMMA DecisionsStep == ASSUME DecisionsNext PROVE StepIn(RunLabels)
<1> USE DEF RunLabels, StepIn, Idle
<1>1. CASE Spend \/ TakenBack
  BY <1>1 DEF Spend, TakenBack
<1>2. ASSUME NEW x \in Session, RenderNew(x) \/ RenderAgain(x) \/ RenderBare(x)
      PROVE  StepIn(RunLabels)
  BY <1>2 DEF RenderNew, RenderAgain, RenderBare, Renders
<1>3. ASSUME NEW p \in Proc, Run(p) \/ ReadWeekly(p)
      PROVE  StepIn(RunLabels)
  BY <1>3 DEF Run, ReadWeekly, Exec, Launch
<1>4. ASSUME NEW p \in Proc, ExecDownshifted(p) \/ ExecAsIs(p)
      PROVE  StepIn(RunLabels)
  BY <1>4 DEF ExecDownshifted, ExecAsIs, Exec
<1> QED BY <1>1, <1>2, <1>3, <1>4 DEF DecisionsNext

-----------------------------------------------------------------------------
\* A process moves only among the labels of its kind.
LEMMA StepSpares ==
  ASSUME SlotsType, NEW labels \in SUBSET Labels, StepIn(labels),
         NEW others \in SUBSET Labels, others \cap (labels \union {"idle"}) = {}
  PROVE  SlotsType' /\ Spares(others)
<1> "idle" \in Labels
  BY DEF Labels
<1> USE SlotsBounds
<1>1. CASE UNCHANGED slots
  BY <1>1 DEF SlotsType, Spares, slots
<1>2. ASSUME NEW p \in Proc, pc[p] \in labels \union {"idle"}, Leave(p)
      PROVE  SlotsType' /\ Spares(others)
  <2>1. SlotsType'
    BY <1>2 DEF Leave, SlotsType
  <2>2. Spares(others)
    BY <1>2 DEF Leave, SlotsType, Spares
  <2> QED BY <2>1, <2>2
<1>3. ASSUME NEW p \in Proc, pc[p] \in labels \union {"idle"},
             NEW l \in labels, Launch(p, l) \/ Goto(p, l)
      PROVE  SlotsType' /\ Spares(others)
  BY <1>3 DEF Launch, Goto, SlotsType, Spares
<1> QED BY <1>1, <1>2, <1>3 DEF StepIn

LEMMA PassSpares ==
  ASSUME SlotsType, Pass, NEW others \in SUBSET Labels
  PROVE  SlotsType' /\ Spares(others)
BY SlotsBounds DEF Pass, SlotsType, Spares

LEMMA SlotsInit == InitSlots => SlotsType
BY SlotsBounds DEF InitSlots, SlotsType, Labels

\* Labels of different kinds are different.
Kinds == {InitLabels, ConfigLabels, HookLabels, LogLabels, RunLabels}

LEMMA KindsApart ==
  /\ Kinds \subseteq SUBSET Labels
  /\ {InitLabels, ConfigLabels, HookLabels, LogLabels, RunLabels} \subseteq Kinds
  /\ \A one, other \in Kinds : one # other => one \cap (other \union {"idle"}) = {}
  /\ InitLabels # ConfigLabels /\ InitLabels # HookLabels /\ InitLabels # LogLabels
  /\ InitLabels # RunLabels /\ ConfigLabels # HookLabels /\ ConfigLabels # LogLabels
  /\ ConfigLabels # RunLabels /\ HookLabels # LogLabels /\ HookLabels # RunLabels
  /\ LogLabels # RunLabels
<1> USE DEF InitLabels, ConfigLabels, HookLabels, LogLabels, RunLabels
<1>1. Kinds \subseteq SUBSET Labels
  BY DEF Kinds, Labels
<1>2. /\ InitLabels # ConfigLabels /\ InitLabels # HookLabels /\ InitLabels # LogLabels
      /\ InitLabels # RunLabels /\ ConfigLabels # HookLabels /\ ConfigLabels # LogLabels
      /\ ConfigLabels # RunLabels /\ HookLabels # LogLabels /\ HookLabels # RunLabels
      /\ LogLabels # RunLabels
  OBVIOUS
<1>3. \A kind \in Kinds : "idle" \notin kind
  BY DEF Kinds
<1>4. ASSUME NEW one \in Kinds, NEW other \in Kinds, one # other PROVE one \cap other = {}
  BY <1>4 DEF Kinds
<1>5. {InitLabels, ConfigLabels, HookLabels, LogLabels, RunLabels} \subseteq Kinds
  BY DEF Kinds
<1> QED BY <1>1, <1>2, <1>3, <1>4, <1>5

\* A step is of the kind of its labels, or none to the others.
LEMMA KindSpares ==
  ASSUME SlotsType, NEW kind \in Kinds, NEW other \in Kinds, kind # other, StepIn(kind)
  PROVE  SlotsType' /\ Spares(other)
BY KindsApart, StepSpares

\* A step is one kind of command's, or time's; the variables and the processes
\* of the other kinds are left alone.
LEMMA StepSeen ==
  ASSUME SlotsType, [Next]_vars
  PROVE  /\ SlotsType'
         /\ \/ /\ SettingsNext /\ UNCHANGED <<confs, warns, logs, decisions>>
               /\ \A other \in Kinds \ {InitLabels} : Spares(other)
            \/ /\ ConfigNext /\ UNCHANGED <<settings, warns, logs, decisions>>
               /\ \A other \in Kinds \ {ConfigLabels} : Spares(other)
            \/ /\ WarnNext /\ UNCHANGED <<settings, confs, logs, decisions>>
               /\ \A other \in Kinds \ {HookLabels} : Spares(other)
            \/ /\ LogNext /\ UNCHANGED <<settings, confs, warns, decisions>>
               /\ \A other \in Kinds \ {LogLabels} : Spares(other)
            \/ /\ DecisionsNext /\ UNCHANGED <<settings, confs, warns, logs>>
               /\ \A other \in Kinds \ {RunLabels} : Spares(other)
            \/ /\ UNCHANGED <<settings, confs, warns, logs, decisions>>
               /\ \A other \in Kinds : Spares(other)
<1> USE KindsApart
<1>0. ASSUME NEW kind \in Kinds, StepIn(kind)
      PROVE  SlotsType' /\ \A other \in Kinds \ {kind} : Spares(other)
  <2>1. ASSUME NEW other \in Kinds \ {kind} PROVE SlotsType' /\ Spares(other)
    BY <1>0, <2>1, KindSpares
  <2>2. \E other \in Kinds : other # kind
    OBVIOUS
  <2> QED BY <2>1, <2>2
<1>1. CASE SettingsNext /\ UNCHANGED <<confs, warns, logs, decisions>>
  BY <1>1, <1>0, SettingsStep
<1>2. CASE ConfigNext /\ UNCHANGED <<settings, warns, logs, decisions>>
  BY <1>2, <1>0, ConfigStep
<1>3. CASE WarnNext /\ UNCHANGED <<settings, confs, logs, decisions>>
  BY <1>3, <1>0, WarnStep
<1>4. CASE LogNext /\ UNCHANGED <<settings, confs, warns, decisions>>
  BY <1>4, <1>0, LogStep
<1>5. CASE DecisionsNext /\ UNCHANGED <<settings, confs, warns, logs>>
  BY <1>5, <1>0, DecisionsStep
<1>6. CASE Pass /\ UNCHANGED <<settings, confs, warns, logs, decisions>>
  BY <1>6, PassSpares, KindsApart
<1>7. CASE UNCHANGED vars
  BY <1>7 DEF vars, slots, SlotsType, Spares
<1> QED BY <1>1, <1>2, <1>3, <1>4, <1>5, <1>6, <1>7 DEF Next

\* What a step is to the settings, and to the processes of init.
LEMMA SeenByInit ==
  ASSUME SlotsType, [Next]_vars
  PROVE  SettingsNext \/ (UNCHANGED settings /\ Spares(InitLabels))
BY StepSeen, KindsApart DEF Kinds

\* What a step is to ccpool.json, and to the processes of config init.
LEMMA SeenByConfig ==
  ASSUME SlotsType, [Next]_vars
  PROVE  ConfigNext \/ (UNCHANGED confs /\ Spares(ConfigLabels))
BY StepSeen, KindsApart DEF Kinds

\* What a step is to the markers, and to the processes of hooks.
LEMMA SeenByHooks ==
  ASSUME SlotsType, [Next]_vars
  PROVE  WarnNext \/ (UNCHANGED warns /\ Spares(HookLabels))
BY StepSeen, KindsApart DEF Kinds

\* What a step is to the log, and to its writers.
LEMMA SeenByLog ==
  ASSUME SlotsType, [Next]_vars
  PROVE  LogNext \/ (UNCHANGED logs /\ Spares(LogLabels))
BY StepSeen, KindsApart DEF Kinds

\* What a step is to the snapshots, and to the processes of run.
LEMMA SeenByRuns ==
  ASSUME SlotsType, [Next]_vars
  PROVE  DecisionsNext \/ (UNCHANGED decisions /\ Spares(RunLabels))
BY StepSeen, KindsApart DEF Kinds

LEMMA SlotsTyped == Spec => []SlotsType
<1>1. Init => SlotsType
  BY SlotsInit DEF Init
<1>2. SlotsType /\ [Next]_vars => SlotsType'
  BY StepSeen
<1> QED BY <1>1, <1>2, PTL DEF Spec

-----------------------------------------------------------------------------
(***************************************************************************)
(* ccpool.json: what the user chose survives config init, for any number of*)
(* writers over one temp name, any edits and any fields.                   *)
(***************************************************************************)
Finals == [config : Config, force : BOOLEAN]

\* It says what the user chose.
Holds(c) == \A f \in Field : chosen[f] # Nil => c[f] = chosen[f]

HasOpen(p) == pc[p] \in {"fill", "rename"}

\* The temp name never leads to the config itself, not even after a death.
FilesApart ==
  /\ tmp # NoFile => tmp # conf
  /\ \A p \in Proc : HasOpen(p) => fd[p] \in Inode

OneWriter == \A p, q \in Proc : HasOpen(p) /\ HasOpen(q) => p = q

\* What is to be renamed is the writer's own, and complete.
OwnTemp ==
  \A p \in Proc : HasOpen(p) =>
    /\ tmp = fd[p]
    /\ data[tmp] = IF pc[p] = "fill" THEN Torn ELSE final[p].config

WritesChosen == \A p \in Proc : Writing(p) => final[p].force \/ Holds(final[p].config)

KeepInv ==
  /\ FilesApart
  /\ ~ excused => ~ Corrupt /\ Holds(Text) /\ OneWriter /\ OwnTemp /\ WritesChosen

-----------------------------------------------------------------------------
(***************************************************************************)
(* Configs.                                                                *)
(***************************************************************************)
LEMMA ConfigsApart ==
  /\ Empty \in Config /\ Torn \notin Config
  /\ Found \subseteq Config /\ Wanted \subseteq Config /\ NoFile \notin Inode
<1>1. "enabled" \in Field /\ Nil # "torn"
  BY ConfigAssumption
<1>2. Torn["enabled"] = "torn"
  BY <1>1 DEF Torn
<1>3. \A c \in Config : c["enabled"] # "torn"
  BY <1>1 DEF Config
<1> QED BY <1>2, <1>3, ConfigAssumption DEF Empty, Config

LEMMA MergeType ==
  ASSUME NEW base \in Config, NEW add \in Config
  PROVE  /\ Merge(base, add) \in Config
         /\ Holds(base) => Holds(Merge(base, add))
BY DEF Merge, Config, Holds

LEMMA LoadType == ASSUME ConfigTypeOK PROVE Load \in Config
BY ConfigsApart DEF ConfigTypeOK, Load, Corrupt, Text

\* A new file is nobody's.
LEMMA UnusedIsNew ==
  ASSUME ConfigTypeOK
  PROVE  Unused \in Inode /\ Unused # conf /\ Unused # tmp /\ \A p \in Proc : fd[p] # Unused
<1>1. \E i \in Inode : i \notin {conf, tmp} \union {fd[p] : p \in Proc}
  <2>1. /\ conf \in Inode \union {NoFile} /\ tmp \in Inode \union {NoFile}
        /\ fd \in [Proc -> Inode \union {NoFile}]
    BY DEF ConfigTypeOK
  <2>2. \A open \in [Proc -> Inode \union {NoFile}] :
          \E i \in Inode \ {conf, tmp} : \A p \in Proc : open[p] # i
    BY <2>1, InodeAssumption, Zenon
  <2>3. \E i \in Inode \ {conf, tmp} : \A p \in Proc : fd[p] # i
    BY <2>1, <2>2
  <2> QED BY <2>3
<1>2. Unused \in Inode /\ Unused \notin {conf, tmp} \union {fd[p] : p \in Proc}
  BY <1>1 DEF Unused
<1> QED BY <1>2

-----------------------------------------------------------------------------
(***************************************************************************)
(* Types.                                                                  *)
(***************************************************************************)
LEMMA ConfigTypeInit == Init => ConfigTypeOK
<1> SUFFICES ASSUME InitConfig PROVE ConfigTypeOK
  BY DEF Init
<1>1. NoFinal \in Finals /\ MaxEdits \in Nat /\ MaxWrites \in Nat
  BY ConfigsApart, ConfigAssumption DEF NoFinal, Finals
<1>2. data \in [Inode -> Config \union {Torn}] /\ fd \in [Proc -> Inode \union {NoFile}]
  BY DEF InitConfig
<1>3. final \in [Proc -> Finals]
  BY <1>1 DEF InitConfig
<1>4. /\ conf = NoFile /\ tmp = NoFile /\ chosen = Empty /\ excused = FALSE
      /\ edits \in 0 .. MaxEdits /\ writes \in 0 .. MaxWrites
  BY <1>1 DEF InitConfig
<1> QED BY <1>2, <1>3, <1>4, ConfigsApart DEF ConfigTypeOK, Finals

LEMMA ConfigTypeNext == ASSUME ConfigTypeOK, ConfigNext PROVE ConfigTypeOK'
<1> USE DEF ConfigTypeOK
<1>n. MaxEdits \in Nat /\ MaxWrites \in Nat /\ NoFinal \in Finals
  BY ConfigsApart, ConfigAssumption DEF NoFinal, Finals
<1>1. ASSUME NEW p \in Proc, Seed(p) PROVE ConfigTypeOK'
  <2>1. PICK found \in Found, force \in BOOLEAN :
          final' = [final EXCEPT ![p] =
                      [config |-> IF force THEN found ELSE Merge(Load, found),
                       force |-> force]]
    BY <1>1 DEF Seed
  <2>2. (IF force THEN found ELSE Merge(Load, found)) \in Config
    BY ConfigsApart, LoadType, MergeType
  <2>3. final' \in [Proc -> Finals]
    BY <2>1, <2>2 DEF Finals
  <2>4. writes' \in 0 .. MaxWrites
    <3>1. writes < MaxWrites /\ writes' = writes + 1
      BY <1>1 DEF Seed
    <3> QED BY <3>1, <1>n
  <2> QED BY <1>1, <2>3, <2>4 DEF Seed, Finals, confGhost
<1>2. ASSUME NEW p \in Proc, Truncate(p) PROVE ConfigTypeOK'
  <2>1. PICK i \in Inode : /\ tmp' = i /\ data' = [data EXCEPT ![i] = Torn]
                           /\ fd' = [fd EXCEPT ![p] = i]
    BY <1>2, UnusedIsNew DEF Truncate
  <2> QED BY <1>2, <2>1 DEF Truncate
<1>3. ASSUME NEW p \in Proc, Fill(p) PROVE ConfigTypeOK'
  <2>1. PICK text \in {final[p].config, Torn} : data' = [data EXCEPT ![fd[p]] = text]
    BY <1>3 DEF Fill
  <2>2. text \in Config \union {Torn}
    OBVIOUS
  <2>3. data' \in [Inode -> Config \union {Torn}]
    BY <2>1, <2>2
  <2> QED BY <1>3, <2>3 DEF Fill, confGhost
<1>4. ASSUME NEW p \in Proc, Rename(p) \/ RenameFails(p) \/ SeedDies(p) PROVE ConfigTypeOK'
  <2>1. EndConfig(p)
    BY <1>4 DEF Rename, RenameFails, SeedDies
  <2>2. fd' \in [Proc -> Inode \union {NoFile}] /\ final' \in [Proc -> Finals]
    <3>1. fd' = [fd EXCEPT ![p] = NoFile] /\ final' = [final EXCEPT ![p] = NoFinal]
      BY <2>1 DEF EndConfig
    <3>2. final \in [Proc -> Finals]
      BY DEF Finals
    <3> QED BY <3>1, <3>2, <1>n
  <2> QED BY <1>4, <2>2 DEF Rename, RenameFails, SeedDies, Finals, confGhost
<1>5. CASE Choose
  <2>1. PICK c \in Wanted : /\ conf' = Unused /\ data' = [data EXCEPT ![Unused] = c]
                            /\ chosen' = c
    BY <1>5 DEF Choose
  <2>2. edits' \in 0 .. MaxEdits
    BY <1>5, <1>n DEF Choose
  <2> QED BY <1>5, <2>1, <2>2, UnusedIsNew, ConfigsApart DEF Choose
<1> QED BY <1>1, <1>2, <1>3, <1>4, <1>5 DEF ConfigNext

-----------------------------------------------------------------------------
(***************************************************************************)
(* The choice of the user.                                                 *)
(***************************************************************************)
LEMMA KeepInit == Init => KeepInv
<1> SUFFICES ASSUME Init PROVE KeepInv
  OBVIOUS
<1> USE DEF Init, InitSlots, InitConfig
<1>1. Text = Empty /\ Empty # Torn
  BY ConfigsApart DEF Text
<1>2. \A p \in Proc : ~ HasOpen(p) /\ ~ Writing(p)
  BY DEF HasOpen, Writing
<1> QED BY <1>1, <1>2 DEF KeepInv, FilesApart, Corrupt, Holds, OneWriter, OwnTemp, WritesChosen, Empty

LEMMA KeepNext == ASSUME ConfigTypeOK, SlotsType, KeepInv, ConfigNext PROVE KeepInv'
<1> USE DEF KeepInv
<1>1. /\ pc \in [Proc -> Labels] /\ fd \in [Proc -> Inode \union {NoFile}]
      /\ final \in [Proc -> Finals] /\ data \in [Inode -> Config \union {Torn}]
      /\ conf \in Inode \union {NoFile} /\ tmp \in Inode \union {NoFile}
  BY DEF ConfigTypeOK, SlotsType, Finals
<1>2. ASSUME NEW p \in Proc, Seed(p) PROVE KeepInv'
  <2>1. /\ UNCHANGED <<data, conf, tmp, fd, chosen, excused>>
        /\ pc' = [pc EXCEPT ![p] = "truncate"] /\ pc[p] = "idle"
        /\ \A q \in Proc \ {p} : final'[q] = final[q]
    BY <1>1, <1>2 DEF Seed, Launch, Idle, confGhost
  <2>2. ~ excused => final'[p].force \/ Holds(final'[p].config)
    <3>1. PICK found \in Found, force \in BOOLEAN :
            final' = [final EXCEPT ![p] =
                        [config |-> IF force THEN found ELSE Merge(Load, found),
                         force |-> force]]
      BY <1>2 DEF Seed
    <3>2. ~ excused => Holds(Load)
      BY DEF Load
    <3> QED BY <1>1, <3>1, <3>2, ConfigsApart, LoadType, MergeType
  <2>3. \A q \in Proc : HasOpen(q)' => HasOpen(q) /\ pc'[q] = pc[q] /\ q # p
    BY <1>1, <2>1 DEF HasOpen
  <2>4. FilesApart'
    BY <2>1, <2>3 DEF FilesApart
  <2>5. ~ excused => (~ Corrupt)' /\ Holds(Text)' /\ OneWriter' /\ OwnTemp'
    BY <2>1, <2>3 DEF Corrupt, Text, Holds, OneWriter, OwnTemp
  <2>6. ~ excused => WritesChosen'
    BY <1>1, <2>1, <2>2 DEF WritesChosen, Writing, Holds
  <2> QED BY <2>1, <2>4, <2>5, <2>6
<1>3. ASSUME NEW p \in Proc, Truncate(p) PROVE KeepInv'
  <2>1. PICK i \in Inode : /\ tmp' = i /\ data' = [data EXCEPT ![i] = Torn]
                           /\ fd' = [fd EXCEPT ![p] = i] /\ i # conf
    BY <1>1, <1>3, UnusedIsNew DEF Truncate, FilesApart
  <2>2. /\ UNCHANGED <<conf, final, chosen>> /\ pc[p] = "truncate"
        /\ pc' = [pc EXCEPT ![p] = "fill"]
        /\ ~ excused' => ~ excused /\ \A q \in Proc \ {p} : ~ Writing(q)
    BY <1>3 DEF Truncate, Goto
  <2>3. FilesApart'
    BY <1>1, <2>1, <2>2 DEF FilesApart, HasOpen
  <2>4. Text' = Text
    BY <1>1, <2>1, <2>2, ConfigsApart DEF Text
  <2>5. ~ excused' => \A q \in Proc : HasOpen(q)' \/ Writing(q)' => q = p
    BY <1>1, <2>2 DEF HasOpen, Writing
  <2>6. ~ excused' => OneWriter' /\ OwnTemp'
    BY <1>1, <2>1, <2>2, <2>5 DEF OneWriter, OwnTemp
  <2>7. ~ excused' => WritesChosen'
    BY <2>2, <2>5 DEF WritesChosen, Writing, Holds
  <2>8. ~ excused' => (~ Corrupt)' /\ Holds(Text)'
    BY <2>2, <2>4 DEF Corrupt, Holds
  <2> QED BY <2>3, <2>6, <2>7, <2>8
<1>4. ASSUME NEW p \in Proc, Fill(p) PROVE KeepInv'
  <2>1. PICK text \in {final[p].config, Torn} :
          /\ text = Torn => data[fd[p]] \notin {Torn, final[p].config}
          /\ data' = [data EXCEPT ![fd[p]] = text]
    BY <1>4 DEF Fill
  <2>2. /\ UNCHANGED <<conf, tmp, fd, final, chosen, excused>> /\ pc[p] = "fill"
        /\ pc' = [pc EXCEPT ![p] = "rename"]
    BY <1>4 DEF Fill, Goto, confGhost
  <2>3. FilesApart'
    BY <1>1, <2>2 DEF FilesApart, HasOpen
  <2>4. ASSUME ~ excused PROVE tmp = fd[p] /\ data' = [data EXCEPT ![tmp] = final[p].config]
    BY <2>1, <2>2, <2>4 DEF OwnTemp, HasOpen
  <2>5. ~ excused => Text' = Text
    BY <1>1, <2>2, <2>4, ConfigsApart DEF Text, FilesApart, HasOpen
  <2>6. ~ excused => OneWriter' /\ OwnTemp'
    BY <1>1, <2>2, <2>4 DEF OneWriter, OwnTemp, HasOpen, FilesApart
  <2>7. ~ excused => WritesChosen'
    BY <1>1, <2>2 DEF WritesChosen, Writing, Holds
  <2>8. ~ excused => (~ Corrupt)' /\ Holds(Text)'
    BY <2>2, <2>5 DEF Corrupt, Holds
  <2> QED BY <2>2, <2>3, <2>6, <2>7, <2>8
<1>5. ASSUME NEW p \in Proc, Rename(p) PROVE KeepInv'
  <2>1. /\ conf' = tmp /\ tmp' = NoFile /\ UNCHANGED <<data, chosen>>
        /\ pc[p] = "rename" /\ tmp \in Inode /\ pc' = [pc EXCEPT ![p] = "idle"]
        /\ \A q \in Proc \ {p} : fd'[q] = fd[q] /\ final'[q] = final[q]
        /\ ~ excused' => ~ excused /\ ~ final[p].force
    BY <1>1, <1>5 DEF Rename, EndConfig, Leave
  <2>2. \A q \in Proc : HasOpen(q)' \/ Writing(q)' => q # p /\ pc'[q] = pc[q]
    BY <1>1, <2>1 DEF HasOpen, Writing
  <2>3. FilesApart'
    BY <2>1, <2>2 DEF FilesApart, HasOpen
  <2>4. ~ excused' => Text' = final[p].config /\ Holds(final[p].config)
    BY <2>1, ConfigsApart DEF Text, OwnTemp, HasOpen, WritesChosen, Writing
  <2>5. ~ excused' => \A q \in Proc : ~ HasOpen(q)'
    BY <2>1, <2>2 DEF OneWriter, HasOpen
  <2>6. ~ excused' => OneWriter' /\ OwnTemp'
    BY <2>5 DEF OneWriter, OwnTemp
  <2>7. ~ excused' => WritesChosen'
    BY <2>1, <2>2 DEF WritesChosen, Writing, Holds
  <2>8. ~ excused' => (~ Corrupt)' /\ Holds(Text)'
    BY <1>1, <2>1, <2>4, ConfigsApart DEF Corrupt, Holds, Finals
  <2> QED BY <2>3, <2>6, <2>7, <2>8
<1>6. ASSUME NEW p \in Proc, RenameFails(p) \/ SeedDies(p) PROVE KeepInv'
  <2>1. /\ UNCHANGED <<data, conf, tmp, chosen, excused>> /\ pc' = [pc EXCEPT ![p] = "idle"]
        /\ \A q \in Proc \ {p} : fd'[q] = fd[q] /\ final'[q] = final[q]
    BY <1>1, <1>6 DEF RenameFails, SeedDies, EndConfig, Leave, confGhost
  <2>2. \A q \in Proc : HasOpen(q)' \/ Writing(q)' => q # p /\ pc'[q] = pc[q]
    BY <1>1, <2>1 DEF HasOpen, Writing
  <2>3. FilesApart'
    BY <2>1, <2>2 DEF FilesApart, HasOpen
  <2>4. ~ excused => (~ Corrupt)' /\ Holds(Text)'
    BY <2>1 DEF Corrupt, Text, Holds
  <2>5. ~ excused => OneWriter' /\ OwnTemp'
    BY <2>1, <2>2 DEF OneWriter, OwnTemp, HasOpen
  <2>6. ~ excused => WritesChosen'
    BY <2>1, <2>2 DEF WritesChosen, Writing, Holds
  <2> QED BY <2>1, <2>3, <2>4, <2>5, <2>6
<1>7. CASE Choose
  <2>1. PICK c \in Wanted : /\ conf' = Unused /\ data' = [data EXCEPT ![Unused] = c]
                            /\ chosen' = c
    BY <1>7 DEF Choose
  <2>2. UNCHANGED <<pc, tmp, fd>> /\ (~ excused' => \A p \in Proc : ~ Writing(p)')
    BY <1>7 DEF Choose, slots, Writing
  <2>3. FilesApart'
    BY <2>1, <2>2, UnusedIsNew DEF FilesApart, HasOpen
  <2>4. Text' = c /\ c \in Config
    BY <1>1, <2>1, UnusedIsNew, ConfigsApart DEF Text
  <2>5. (~ Corrupt)' /\ Holds(Text)'
    BY <2>1, <2>4, ConfigsApart DEF Corrupt, Holds
  <2>6. ~ excused' => \A p \in Proc : ~ HasOpen(p)'
    BY <2>2 DEF HasOpen, Writing
  <2> QED BY <2>2, <2>3, <2>5, <2>6 DEF OneWriter, OwnTemp, WritesChosen
<1> QED BY <1>2, <1>3, <1>4, <1>5, <1>6, <1>7 DEF ConfigNext

\* A step of other commands leaves the writers as they are.
LEMMA OthersKeep ==
  ASSUME KeepInv, UNCHANGED confs, Spares(ConfigLabels)
  PROVE  KeepInv'
<1>1. \A p \in Proc : HasOpen(p)' \/ Writing(p)' => pc'[p] = pc[p]
  BY DEF Spares, ConfigLabels, HasOpen, Writing
<1>2. UNCHANGED <<data, conf, tmp, fd, final, chosen, excused>>
  BY DEF confs
<1>3. FilesApart'
  BY <1>1, <1>2 DEF KeepInv, FilesApart, HasOpen
<1>4. ~ excused => (~ Corrupt)' /\ Holds(Text)'
  BY <1>2 DEF KeepInv, Corrupt, Text, Holds
<1>5. ~ excused => OneWriter' /\ OwnTemp' /\ WritesChosen'
  BY <1>1, <1>2 DEF KeepInv, OneWriter, OwnTemp, WritesChosen, HasOpen, Writing, Holds
<1> QED BY <1>2, <1>3, <1>4, <1>5 DEF KeepInv

LEMMA KeepInvariant == Spec => [](SlotsType /\ ConfigTypeOK /\ KeepInv)
<1>1. Init => SlotsType /\ ConfigTypeOK /\ KeepInv
  BY SlotsInit, ConfigTypeInit, KeepInit DEF Init
<1>2. SlotsType /\ ConfigTypeOK /\ KeepInv /\ [Next]_vars
        => (SlotsType /\ ConfigTypeOK /\ KeepInv)'
  <2> SUFFICES ASSUME SlotsType, ConfigTypeOK, KeepInv, [Next]_vars
               PROVE  SlotsType' /\ ConfigTypeOK' /\ KeepInv'
    OBVIOUS
  <2>1. SlotsType'
    BY StepSeen
  <2>2. CASE UNCHANGED confs /\ Spares(ConfigLabels)
    <3>1. ConfigTypeOK'
      BY <2>2 DEF confs, ConfigTypeOK
    <3> QED BY <2>1, <2>2, <3>1, OthersKeep
  <2> QED BY <2>1, <2>2, SeenByConfig, ConfigTypeNext, KeepNext
<1> QED BY <1>1, <1>2, PTL DEF Spec

-----------------------------------------------------------------------------
\* The config can be read and says what the user chose, but for the named
\* exceptions.
THEOREM ChoicesAreKept == Spec => []UserChoiceHolds
<1>1. KeepInv => UserChoiceHolds
  BY DEF KeepInv, UserChoiceHolds, Holds, Load
<1> QED BY <1>1, KeepInvariant, PTL

-----------------------------------------------------------------------------
(***************************************************************************)
(* The markers: what the hooks that warn promise, for any number of hooks at*)
(* a time, any sessions, views and throttles.                              *)
(***************************************************************************)
Times == 0 .. MaxClock \union {Never}
Hooks == [event : Events, fire : SUBSET Marker, todo : SUBSET Marker,
          at : Marker \union {Nil}]

LEMMA WarnLimits ==
  /\ MaxClock \in Nat /\ MaxHooks \in Nat
  /\ \A m \in Marker : m[1] \in Signal /\ Throttle[m[1]] \in Nat \ {0}
BY SettingsAssumption, WarnAssumption DEF Marker

LEMMA NoHookType == NoHook \in Hooks
BY DEF NoHook, Hooks, Events

LEMMA SignalsType == ASSUME NEW v, NEW x \in Session PROVE {<<s, x>> : s \in signals(v)} \subseteq Marker
BY DEF signals, Marker

-----------------------------------------------------------------------------
(***************************************************************************)
(* Types.                                                                  *)
(***************************************************************************)
LEMMA WarnTypeInit == Init => WarnTypeOK
BY NoHookType, WarnLimits DEF Init, InitWarn, WarnTypeOK, Hooks

\* The only changes of a hook's locals that a step can make.
LEMMA HookChange ==
  ASSUME WarnTypeOK, NEW p \in Proc, NEW h \in Hooks, hook' = [hook EXCEPT ![p] = h]
  PROVE  hook' \in [Proc -> Hooks]
BY DEF WarnTypeOK, Hooks

LEMMA WarnTypeNext == ASSUME WarnTypeOK, SlotsType, WarnNext PROVE WarnTypeOK'
<1>1. /\ marker \in [Marker -> Times] /\ shown \in [Marker -> Times]
      /\ hook \in [Proc -> Hooks] /\ hooks \in 0 .. MaxHooks /\ loose \subseteq Marker
      /\ now \in [Proc -> 0 .. MaxClock]
  BY DEF WarnTypeOK, SlotsType, Times, Hooks
<1>t. ASSUME marker' \in [Marker -> Times], shown' \in [Marker -> Times],
             hook' \in [Proc -> Hooks], hooks' \in 0 .. MaxHooks, loose' \subseteq Marker
      PROVE  WarnTypeOK'
  BY <1>t DEF WarnTypeOK, Times, Hooks
<1>2. ASSUME NEW p \in Proc, StartHook(p) PROVE WarnTypeOK'
  <2>1. PICK e \in Events, x \in Session, v \in Views :
          hook' = [hook EXCEPT ![p].event = e, ![p].fire = {<<s, x>> : s \in signals(v)}]
    BY <1>2 DEF StartHook
  <2>2. [hook[p] EXCEPT !.event = e, !.fire = {<<s, x>> : s \in signals(v)}] \in Hooks
    BY <1>1, SignalsType DEF Hooks
  <2>3. hook' \in [Proc -> Hooks]
    BY <1>1, <2>1, <2>2
  <2>4. hooks' \in 0 .. MaxHooks
    BY <1>1, <1>2, WarnLimits DEF StartHook
  <2> QED BY <1>1, <1>2, <1>t, <2>3, <2>4 DEF StartHook
<1>3. ASSUME NEW p \in Proc, NEW fire \in SUBSET hook[p].fire, Look(p, fire) PROVE WarnTypeOK'
  <2>1. fire \subseteq Marker /\ hook[p].fire \subseteq Marker
    BY <1>1, <1>3 DEF Hooks
  <2>2. [hook[p] EXCEPT !.fire = fire, !.todo = fire] \in Hooks
    BY <1>1, <2>1 DEF Hooks
  <2>3. hook' \in [Proc -> Hooks]
    BY <1>1, <1>3, <2>2, NoHookType DEF Look, EndHook
  <2> QED BY <1>1, <1>3, <1>t, <2>1, <2>3 DEF Look
<1>4. ASSUME NEW p \in Proc, LookAfterPrompt(p) \/ LookAfterTool(p) PROVE WarnTypeOK'
  BY <1>3, <1>4 DEF LookAfterPrompt, LookAfterTool
<1>5. ASSUME NEW p \in Proc, OpenMarker(p) PROVE WarnTypeOK'
  <2>1. PICK m \in Due(p) :
          /\ marker' = [marker EXCEPT ![m] = Never]
          /\ hook' = [hook EXCEPT ![p].todo = @ \ {m}, ![p].at = m]
    BY <1>5 DEF OpenMarker
  <2>2. m \in Marker
    BY <1>1 DEF Due, Hooks
  <2>3. [hook[p] EXCEPT !.todo = @ \ {m}, !.at = m] \in Hooks
    BY <1>1, <2>2 DEF Hooks
  <2>4. hook' \in [Proc -> Hooks] /\ marker' \in [Marker -> Times]
    BY <1>1, <2>1, <2>3 DEF Times
  <2> QED BY <1>1, <1>5, <1>t, <2>4 DEF OpenMarker
<1>6. ASSUME NEW p \in Proc, FillMarker(p) PROVE WarnTypeOK'
  <2>1. [hook[p] EXCEPT !.at = Nil] \in Hooks
    BY <1>1 DEF Hooks
  <2>2. hook' \in [Proc -> Hooks] /\ marker' \in [Marker -> Times]
    BY <1>1, <1>6, <2>1 DEF FillMarker, Times
  <2> QED BY <1>1, <1>6, <1>t, <2>2 DEF FillMarker
<1>7. ASSUME NEW p \in Proc, MarkerFails(p) PROVE WarnTypeOK'
  <2>1. PICK m \in Due(p) :
          /\ loose' = loose \union {m}
          /\ hook' = [hook EXCEPT ![p].todo = @ \ {m}]
    BY <1>7 DEF MarkerFails
  <2>2. m \in Marker
    BY <1>1 DEF Due, Hooks
  <2>3. [hook[p] EXCEPT !.todo = @ \ {m}] \in Hooks
    BY <1>1 DEF Hooks
  <2>4. hook' \in [Proc -> Hooks]
    BY <1>1, <2>1, <2>3
  <2> QED BY <1>1, <1>7, <1>t, <2>1, <2>2, <2>4 DEF MarkerFails
<1>8. ASSUME NEW p \in Proc, Prints(p) PROVE WarnTypeOK'
  <2>1. shown' \in [Marker -> Times]
    BY <1>1, <1>8 DEF Prints, Times
  <2> QED BY <1>1, <1>8, <1>t, <2>1, NoHookType DEF Prints, EndHook
<1>9. ASSUME NEW p \in Proc, HookDies(p) PROVE WarnTypeOK'
  <2>1. InHand(p) \subseteq Marker
    BY <1>1 DEF InHand, Hooks
  <2> QED BY <1>1, <1>9, <1>t, <2>1, NoHookType DEF HookDies, EndHook
<1> QED BY <1>2, <1>4, <1>5, <1>6, <1>7, <1>8, <1>9 DEF WarnNext

-----------------------------------------------------------------------------
(***************************************************************************)
(* What a marker that is not loose tells.                                  *)
(***************************************************************************)

\* One hook at most has it in hand.
OneHand ==
  \A p, q \in Proc : \A m \in InHand(p) \ loose : m \in InHand(q) => p = q

\* In nobody's hand it tells when its warning was last printed.
Tells ==
  \A m \in Marker \ loose : (\A p \in Proc : m \notin InHand(p)) => marker[m] = shown[m]

\* In a hook's hand it is to be written, or written.
Written ==
  \A p \in Proc :
    /\ pc[p] \in {"mark", "filling"} => hook[p].todo \subseteq hook[p].fire
    /\ pc[p] = "filling" => hook[p].at \in hook[p].fire
    /\ \A m \in InHand(p) \ loose :
         \/ m \in hook[p].todo
         \/ pc[p] = "filling" /\ hook[p].at = m
         \/ marker[m] = now[p]

\* A hook after a tool use prints what was last printed long ago.
LongAgo ==
  \A p \in Proc : hook[p].event = "PostToolUse" =>
    \A m \in InHand(p) \ loose : shown[m] = Never \/ now[p] - shown[m] >= Throttle[m[1]]

MarkInv == OneHand /\ Tells /\ Written /\ LongAgo

LEMMA MarkInit == Init => MarkInv
BY DEF Init, InitSlots, InitWarn, MarkInv, OneHand, Tells, Written, LongAgo, InHand

LEMMA MarkNext == ASSUME WarnTypeOK, SlotsType, MarkInv, WarnNext PROVE MarkInv'
<1> USE DEF MarkInv
<1>1. /\ marker \in [Marker -> Times] /\ shown \in [Marker -> Times]
      /\ hook \in [Proc -> Hooks] /\ loose \subseteq Marker
      /\ now \in [Proc -> 0 .. MaxClock] /\ pc \in [Proc -> Labels]
  BY DEF WarnTypeOK, SlotsType, Times, Hooks
<1>2. ASSUME NEW p \in Proc, StartHook(p) PROVE MarkInv'
  <2>1. /\ UNCHANGED <<marker, shown, loose>> /\ pc[p] = "idle" /\ pc'[p] = "look"
        /\ \A q \in Proc \ {p} : pc'[q] = pc[q] /\ hook'[q] = hook[q] /\ now'[q] = now[q]
    BY <1>1, <1>2 DEF StartHook, Launch, Idle
  <2>2. InHand(p) = {} /\ InHand(p)' = {} /\ \A q \in Proc \ {p} : InHand(q)' = InHand(q)
    BY <2>1 DEF InHand
  <2>3. OneHand' /\ Tells'
    BY <2>1, <2>2 DEF OneHand, Tells
  <2>4. Written' /\ LongAgo'
    BY <2>1, <2>2 DEF Written, LongAgo
  <2> QED BY <2>3, <2>4
<1>3. ASSUME NEW p \in Proc, NEW fire \in SUBSET hook[p].fire, Look(p, fire),
             hook[p].event = "PostToolUse" => \A m \in fire : ~ Recent(p, m)
      PROVE  MarkInv'
  <2>1. /\ UNCHANGED <<marker, shown>> /\ pc[p] = "look" /\ loose \subseteq loose'
        /\ \A m \in hook[p].fire : \A q \in Proc \ {p} : m \in InHand(q) => m \in loose'
        /\ \A q \in Proc \ {p} : pc'[q] = pc[q] /\ hook'[q] = hook[q] /\ now'[q] = now[q]
    BY <1>1, <1>3 DEF Look, EndHook, Leave, Goto
  <2>2. InHand(p) = {} /\ \A q \in Proc \ {p} : InHand(q)' = InHand(q)
    BY <2>1 DEF InHand
  <2>3. CASE fire = {}
    <3>1. InHand(p)' = {} /\ pc'[p] = "idle"
      BY <1>1, <1>3, <2>3 DEF Look, EndHook, Leave, InHand
    <3>2. OneHand' /\ Tells'
      BY <2>1, <2>2, <3>1 DEF OneHand, Tells
    <3>3. Written' /\ LongAgo'
      BY <2>1, <2>2, <3>1 DEF Written, LongAgo
    <3> QED BY <3>2, <3>3
  <2>4. CASE fire # {}
    <3>1. /\ pc'[p] = "mark" /\ now'[p] = now[p]
          /\ hook'[p].fire = fire /\ hook'[p].todo = fire /\ hook'[p].event = hook[p].event
      BY <1>1, <1>3, <2>4 DEF Look, Goto, Hooks
    <3>2. InHand(p)' = fire
      BY <3>1 DEF InHand
    <3>3. OneHand' /\ Tells'
      BY <2>1, <2>2, <3>2 DEF OneHand, Tells
    <3>4. Written'
      BY <2>1, <2>2, <3>1, <3>2 DEF Written
    <3>5. ASSUME hook[p].event = "PostToolUse", NEW m \in fire \ loose'
          PROVE  shown[m] = Never \/ now[p] - shown[m] >= Throttle[m[1]]
      <4>1. m \in Marker /\ ~ Recent(p, m)
        BY <1>1, <1>3, <3>5 DEF Hooks
      <4>2. marker[m] = shown[m]
        BY <2>1, <2>2, <3>5, <4>1 DEF Tells
      <4>3. /\ shown[m] \in Int /\ now[p] \in Int /\ Throttle[m[1]] \in Int
        BY <1>1, <4>1, WarnLimits DEF Times, Never
      <4> QED BY <4>1, <4>2, <4>3 DEF Recent
    <3>6. LongAgo'
      BY <2>1, <2>2, <3>1, <3>2, <3>5 DEF LongAgo
    <3> QED BY <3>3, <3>4, <3>6
  <2> QED BY <2>3, <2>4
<1>4. ASSUME NEW p \in Proc, LookAfterPrompt(p) PROVE MarkInv'
  BY <1>3, <1>4 DEF LookAfterPrompt
<1>5. ASSUME NEW p \in Proc, LookAfterTool(p) PROVE MarkInv'
  <2> DEFINE fire == {m \in hook[p].fire : ~ Recent(p, m)}
  <2>1. fire \in SUBSET hook[p].fire /\ \A m \in fire : ~ Recent(p, m)
    OBVIOUS
  <2>2. Look(p, fire)
    BY <1>5 DEF LookAfterTool
  <2> HIDE DEF fire
  <2> QED BY <1>3, <2>1, <2>2
<1>6. ASSUME NEW p \in Proc, OpenMarker(p) PROVE MarkInv'
  <2>1. PICK m \in Due(p) :
          /\ marker' = [marker EXCEPT ![m] = Never]
          /\ hook' = [hook EXCEPT ![p].todo = @ \ {m}, ![p].at = m]
    BY <1>6 DEF OpenMarker
  <2>2. /\ UNCHANGED <<now, shown, loose>> /\ pc[p] = "mark" /\ pc'[p] = "filling"
        /\ \A q \in Proc \ {p} : pc'[q] = pc[q] /\ hook'[q] = hook[q]
        /\ hook'[p].event = hook[p].event /\ hook'[p].fire = hook[p].fire
        /\ hook'[p].todo = hook[p].todo \ {m} /\ hook'[p].at = m
    BY <1>1, <1>6, <2>1 DEF OpenMarker, Goto, Hooks
  <2>3. m \in hook[p].fire /\ m \in InHand(p)
    BY <2>2 DEF Due, Written, InHand
  <2>4. \A q \in Proc : InHand(q)' = InHand(q)
    BY <2>2 DEF InHand
  <2>5. \A n \in Marker : n # m => marker'[n] = marker[n]
    BY <1>1, <2>1
  <2>6. OneHand' /\ Tells'
    BY <2>2, <2>3, <2>4, <2>5 DEF OneHand, Tells
  <2>7. \A q \in Proc : InHand(q) \subseteq Marker
    BY <1>1 DEF InHand, Hooks
  <2>8. Written'
    BY <2>2, <2>3, <2>4, <2>5, <2>7 DEF Written, OneHand
  <2>9. LongAgo'
    BY <2>2, <2>4 DEF LongAgo
  <2> QED BY <2>6, <2>8, <2>9
<1>7. ASSUME NEW p \in Proc, FillMarker(p) PROVE MarkInv'
  <2> DEFINE m == hook[p].at
  <2>1. /\ UNCHANGED <<now, shown, loose>> /\ pc[p] = "filling" /\ pc'[p] = "mark"
        /\ marker' = [marker EXCEPT ![m] = now[p]]
        /\ \A q \in Proc \ {p} : pc'[q] = pc[q] /\ hook'[q] = hook[q]
        /\ hook'[p].event = hook[p].event /\ hook'[p].fire = hook[p].fire
        /\ hook'[p].todo = hook[p].todo
    BY <1>1, <1>7 DEF FillMarker, Goto, Hooks
  <2>2. m \in hook[p].fire /\ m \in InHand(p) /\ m \in Marker
    BY <1>1, <2>1 DEF Written, InHand, Hooks
  <2> HIDE DEF m
  <2>3. \A q \in Proc : InHand(q)' = InHand(q)
    BY <2>1 DEF InHand
  <2>4. marker'[m] = now[p] /\ \A n \in Marker : n # m => marker'[n] = marker[n]
    BY <1>1, <2>1, <2>2
  <2>5. OneHand' /\ Tells'
    BY <2>1, <2>2, <2>3, <2>4 DEF OneHand, Tells
  <2>6. \A q \in Proc : InHand(q) \subseteq Marker
    BY <1>1 DEF InHand, Hooks
  <2>7. Written'
    BY <2>1, <2>2, <2>3, <2>4, <2>6 DEF Written, OneHand, m
  <2>8. LongAgo'
    BY <2>1, <2>3 DEF LongAgo
  <2> QED BY <2>5, <2>7, <2>8
<1>8. ASSUME NEW p \in Proc, MarkerFails(p) PROVE MarkInv'
  <2>1. PICK m \in Due(p) :
          /\ loose' = loose \union {m}
          /\ hook' = [hook EXCEPT ![p].todo = @ \ {m}]
    BY <1>8 DEF MarkerFails
  <2>2. /\ UNCHANGED <<pc, now, marker, shown>> /\ pc[p] = "mark"
        /\ \A q \in Proc \ {p} : hook'[q] = hook[q]
        /\ hook'[p].event = hook[p].event /\ hook'[p].fire = hook[p].fire
        /\ hook'[p].todo = hook[p].todo \ {m}
    BY <1>1, <1>8, <2>1 DEF MarkerFails, slots, Hooks
  <2>3. \A q \in Proc : InHand(q)' = InHand(q)
    BY <2>2 DEF InHand
  <2>4. OneHand' /\ Tells'
    BY <2>1, <2>2, <2>3 DEF OneHand, Tells
  <2>5. Written'
    BY <2>1, <2>2, <2>3 DEF Written
  <2>6. LongAgo'
    BY <2>1, <2>2, <2>3 DEF LongAgo
  <2> QED BY <2>4, <2>5, <2>6
<1>9. ASSUME NEW p \in Proc, Prints(p) PROVE MarkInv'
  <2>1. /\ marker' = marker /\ pc[p] = "mark" /\ hook[p].todo = {} /\ pc'[p] = "idle"
        /\ \A q \in Proc \ {p} : pc'[q] = pc[q] /\ hook'[q] = hook[q] /\ now'[q] = now[q]
        /\ \A m \in Marker : shown'[m] = IF m \in hook[p].fire THEN now[p] ELSE shown[m]
        /\ loose' = {m \in loose : m \in hook[p].fire =>
                       marker[m] # now[p] \/ \E q \in Proc \ {p} : m \in InHand(q)}
    BY <1>1, <1>9 DEF Prints, EndHook, Leave
  <2>2. InHand(p) = hook[p].fire /\ InHand(p)' = {}
        /\ \A q \in Proc \ {p} : InHand(q)' = InHand(q)
    BY <2>1 DEF InHand
  <2>3. \A q \in Proc : InHand(q) \subseteq Marker
    BY <1>1 DEF InHand, Hooks
  <2>4. ASSUME NEW m \in Marker \ loose', m \in hook[p].fire
        PROVE  marker[m] = now[p] /\ \A q \in Proc \ {p} : m \notin InHand(q)
    <3>1. CASE m \in loose
      BY <2>1, <2>4, <3>1
    <3>2. CASE m \notin loose
      BY <2>1, <2>2, <2>4, <3>2 DEF Written, OneHand
    <3> QED BY <3>1, <3>2
  <2>5. ASSUME NEW m \in Marker \ loose', m \notin hook[p].fire PROVE m \notin loose
    BY <2>1, <2>5
  <2>6. OneHand'
    BY <2>2, <2>3, <2>4, <2>5 DEF OneHand
  <2>7. Tells'
    BY <2>1, <2>2, <2>4, <2>5 DEF Tells
  <2>8. Written'
    BY <2>1, <2>2, <2>3, <2>4, <2>5 DEF Written
  <2>9. LongAgo'
    BY <2>1, <2>2, <2>3, <2>4, <2>5 DEF LongAgo
  <2> QED BY <2>6, <2>7, <2>8, <2>9
<1>10. ASSUME NEW p \in Proc, HookDies(p) PROVE MarkInv'
  <2>1. /\ UNCHANGED <<marker, shown>> /\ loose' = loose \union InHand(p) /\ pc'[p] = "idle"
        /\ \A q \in Proc \ {p} : pc'[q] = pc[q] /\ hook'[q] = hook[q] /\ now'[q] = now[q]
    BY <1>1, <1>10 DEF HookDies, EndHook, Leave
  <2>2. InHand(p)' = {} /\ \A q \in Proc \ {p} : InHand(q)' = InHand(q)
    BY <2>1 DEF InHand
  <2>3. OneHand' /\ Tells'
    BY <2>1, <2>2 DEF OneHand, Tells
  <2>4. Written' /\ LongAgo'
    BY <2>1, <2>2 DEF Written, LongAgo
  <2> QED BY <2>3, <2>4
<1> QED BY <1>2, <1>4, <1>5, <1>6, <1>7, <1>8, <1>9, <1>10 DEF WarnNext

\* A step of other commands leaves the hooks as they are.
LEMMA OthersKeepMarks ==
  ASSUME MarkInv, UNCHANGED warns, Spares(HookLabels)
  PROVE  MarkInv'
<1>1. \A p \in Proc : InHand(p)' = InHand(p)
  BY DEF warns, Spares, HookLabels, InHand
<1>2. \A p \in Proc : pc[p] \in {"mark", "filling"} \/ pc'[p] \in {"mark", "filling"}
                        => pc'[p] = pc[p] /\ now'[p] = now[p]
  BY DEF Spares, HookLabels
<1>3. UNCHANGED <<marker, hook, shown, loose>>
  BY DEF warns
<1>4. OneHand' /\ Tells'
  BY <1>1, <1>3 DEF MarkInv, OneHand, Tells
<1>5. \A p \in Proc : InHand(p) # {} => pc[p] \in {"mark", "filling"}
  BY DEF InHand
<1>6. Written' /\ LongAgo'
  BY <1>1, <1>2, <1>3, <1>5 DEF MarkInv, Written, LongAgo
<1> QED BY <1>4, <1>6 DEF MarkInv

LEMMA MarkInvariant == Spec => [](SlotsType /\ WarnTypeOK /\ MarkInv)
<1>1. Init => SlotsType /\ WarnTypeOK /\ MarkInv
  BY SlotsInit, WarnTypeInit, MarkInit DEF Init
<1>2. SlotsType /\ WarnTypeOK /\ MarkInv /\ [Next]_vars
        => (SlotsType /\ WarnTypeOK /\ MarkInv)'
  <2> SUFFICES ASSUME SlotsType, WarnTypeOK, MarkInv, [Next]_vars
               PROVE  SlotsType' /\ WarnTypeOK' /\ MarkInv'
    OBVIOUS
  <2>1. SlotsType'
    BY StepSeen
  <2>2. CASE UNCHANGED warns /\ Spares(HookLabels)
    <3>1. WarnTypeOK'
      BY <2>2 DEF warns, WarnTypeOK
    <3> QED BY <2>1, <2>2, <3>1, OthersKeepMarks
  <2> QED BY <2>1, <2>2, SeenByHooks, WarnTypeNext, MarkNext
<1> QED BY <1>1, <1>2, PTL DEF Spec

-----------------------------------------------------------------------------
\* After tool uses a warning is repeated only when its throttle has passed.
THEOREM WarningsAreThrottled == Spec => ThrottleHolds
<1>1. SlotsType /\ WarnTypeOK /\ MarkInv =>
        [\A p \in Proc :
           Prints(p) /\ hook[p].event = "PostToolUse" =>
             \A m \in hook[p].fire \ loose :
               shown[m] = Never \/ now[p] - shown[m] >= Throttle[m[1]]]_<<slots, warns>>
  BY DEF MarkInv, LongAgo, InHand, Prints
<1> QED BY <1>1, MarkInvariant, PTL DEF ThrottleHolds

\* A warning is held back only when it was printed a short time ago.
THEOREM NoWarningIsLost == Spec => HeldBackOnlyIfShown
<1>1. SlotsType /\ WarnTypeOK /\ MarkInv =>
        [\A p \in Proc :
           LookAfterTool(p) =>
             \A m \in hook[p].fire \ (hook'[p].fire \union loose') :
               shown[m] # Never /\ now[p] - shown[m] < Throttle[m[1]]]_<<slots, warns>>
  <2> SUFFICES ASSUME WarnTypeOK, MarkInv, NEW p \in Proc, LookAfterTool(p),
                      NEW m \in hook[p].fire \ (hook'[p].fire \union loose')
               PROVE  shown[m] # Never /\ now[p] - shown[m] < Throttle[m[1]]
    OBVIOUS
  <2> DEFINE fire == {n \in hook[p].fire : ~ Recent(p, n)}
  <2>1. Look(p, fire)
    BY DEF LookAfterTool
  <2>2. hook \in [Proc -> Hooks] /\ m \in Marker
    BY DEF WarnTypeOK, Hooks
  <2>3. fire # {} => hook'[p].fire = fire
    BY <2>1, <2>2 DEF Look, Hooks
  <2>4. Recent(p, m)
    BY <2>3
  <2>5. m \notin loose /\ \A q \in Proc : m \notin InHand(q)
    BY <2>1 DEF Look, InHand
  <2>6. marker[m] = shown[m]
    BY <2>2, <2>5 DEF MarkInv, Tells
  <2> QED BY <2>4, <2>6 DEF Recent
<1> QED BY <1>1, MarkInvariant, PTL DEF HeldBackOnlyIfShown

-----------------------------------------------------------------------------
(***************************************************************************)
(* The anomaly log: which records it may lose, for any number of writers,  *)
(* any length of the log, and deaths anywhere.                             *)
(***************************************************************************)
Numbers == 1 .. MaxRecords

LEMMA LogBounds == MaxLogLines \in Nat \ {0} /\ MaxRecords \in Nat
BY LogAssumption

LEMMA InRange ==
  ASSUME NEW S, NEW s \in Seq(S)
  PROVE  /\ Len(s) \in Nat /\ DOMAIN s = 1 .. Len(s)
         /\ \A i \in DOMAIN s : s[i] \in S
         /\ s # <<>> <=> Len(s) > 0
BY LenProperties, ElementOfSeq, EmptySeq

\* The cut leaves the end of the lines; what it takes are all but MaxLogLines.
LEMMA CappedLines ==
  ASSUME NEW S, NEW s \in Seq(S)
  PROVE  /\ Capped(s) \in Seq(S)
         /\ \E d \in Nat :
              /\ Len(s) = Len(Capped(s)) + d
              /\ \A i \in 1 .. Len(Capped(s)) : Capped(s)[i] = s[i + d]
              /\ d = 0 \/ Len(Capped(s)) = MaxLogLines
<1> USE LogBounds
<1>1. Len(s) \in Nat /\ \A i \in 1 .. Len(s) : s[i] \in S
  BY InRange
<1>2. CASE Len(s) > MaxLogLines
  <2> DEFINE d == Len(s) - MaxLogLines
  <2>1. Capped(s) = SubSeq(s, d + 1, Len(s))
    BY <1>2 DEF Capped
  <2>2. d \in Nat /\ d + 1 \in Int /\ Len(s) \in Int /\ d + 1 <= Len(s)
    BY <1>1, <1>2
  <2>3. \A i \in d + 1 .. Len(s) : s[i] \in S
    BY <1>1, <2>2
  <2>4. /\ SubSeq(s, d + 1, Len(s)) \in Seq(S)
        /\ Len(SubSeq(s, d + 1, Len(s))) = Len(s) - (d + 1) + 1
        /\ \A i \in 1 .. Len(s) - (d + 1) + 1 : SubSeq(s, d + 1, Len(s))[i] = s[(d + 1) + i - 1]
    <3> HIDE DEF d
    <3> QED BY <2>2, <2>3, SubSeqProperties
  <2>5. Len(s) - (d + 1) + 1 = MaxLogLines
    BY <1>1
  <2>6. \A i \in 1 .. MaxLogLines : (d + 1) + i - 1 = i + d
    BY <2>2
  <2>7. Capped(s) \in Seq(S) /\ Len(Capped(s)) = MaxLogLines /\ Len(s) = MaxLogLines + d
    BY <1>1, <2>1, <2>4, <2>5
  <2>8. \A i \in 1 .. MaxLogLines : Capped(s)[i] = s[i + d]
    BY <2>1, <2>4, <2>5, <2>6
  <2> HIDE DEF d
  <2> QED BY <2>2, <2>7, <2>8
<1>3. CASE ~ Len(s) > MaxLogLines
  <2>1. Capped(s) = s
    BY <1>3 DEF Capped
  <2> QED BY <1>1, <2>1
<1> QED BY <1>2, <1>3

\* Lines written over a log that is longer leave its end.
LEMMA OverwriteLines ==
  ASSUME NEW S, NEW s \in Seq(S), log \in Seq(S)
  PROVE  /\ Overwrite(s) \in Seq(S)
         /\ Len(s) <= Len(Overwrite(s))
         /\ \A i \in 1 .. Len(s) : Overwrite(s)[i] = s[i]
         /\ \A i \in Len(s) + 1 .. Len(Overwrite(s)) :
              i \in 1 .. Len(log) /\ Overwrite(s)[i] = log[i]
<1> DEFINE n == Len(s)
           m == Len(log)
           rest == SubSeq(log, n + 1, m)
<1>1. n \in Nat /\ m \in Nat /\ \A i \in n + 1 .. m : log[i] \in S
  BY InRange
<1>2. /\ rest \in Seq(S)
      /\ Len(rest) = IF n + 1 <= m THEN m - (n + 1) + 1 ELSE 0
      /\ \A i \in 1 .. m - (n + 1) + 1 : rest[i] = log[(n + 1) + i - 1]
  <2> HIDE DEF n, m
  <2>1. n + 1 \in Int /\ m \in Int
    BY <1>1
  <2> QED BY <1>1, <2>1, SubSeqProperties
<1>3. Overwrite(s) = s \o rest
  BY DEF Overwrite
<1> HIDE DEF rest
<1>4. /\ s \o rest \in Seq(S) /\ Len(s \o rest) = n + Len(rest)
      /\ \A i \in 1 .. n + Len(rest) :
           (s \o rest)[i] = IF i <= n THEN s[i] ELSE rest[i - n]
  BY <1>2, ConcatProperties
<1>5. Len(rest) \in Nat
  BY <1>2, InRange
<1> HIDE DEF n, m
<1>6. ASSUME NEW i \in n + 1 .. n + Len(rest)
      PROVE  i \in 1 .. m /\ (s \o rest)[i] = log[i]
  <2>1. n + 1 <= m
    BY <1>1, <1>2, <1>5, <1>6
  <2>2. i \in 1 .. m /\ i - n \in 1 .. m - (n + 1) + 1 /\ (n + 1) + (i - n) - 1 = i
    BY <1>1, <1>2, <2>1
  <2>3. (s \o rest)[i] = rest[i - n]
    BY <1>1, <1>4, <1>5, <1>6
  <2> QED BY <1>2, <2>2, <2>3
<1>7. \A i \in 1 .. n : (s \o rest)[i] = s[i]
  BY <1>1, <1>4, <1>5
<1>8. n <= n + Len(rest)
  BY <1>1, <1>5
<1> QED BY <1>3, <1>4, <1>6, <1>7, <1>8 DEF n, m

\* Lines in order that follow a line are that many greater ones.
LEMMA Followed ==
  ASSUME NEW s \in Seq(Numbers), NEW i \in 1 .. Len(s), NEW n \in Nat, n <= Len(s) - i,
         \A j, k \in 1 .. Len(s) : i <= j /\ j < k => s[j] < s[k],
         NEW T \in SUBSET Numbers, \A j \in i + 1 .. Len(s) : s[j] \in T
  PROVE  Cardinality({u \in T : u > s[i]}) >= n
<1> USE LogBounds
<1> DEFINE greater == {u \in T : u > s[i]}
           f == [j \in 1 .. n |-> s[i + j]]
<1>1. Len(s) \in Nat /\ \A j \in 1 .. Len(s) : s[j] \in Numbers
  BY InRange
<1>2. \A j \in 1 .. n : i + j \in i + 1 .. Len(s) /\ i + j \in 1 .. Len(s) /\ i < i + j
  BY <1>1
<1>3. f \in [1 .. n -> greater]
  <2> SUFFICES ASSUME NEW j \in 1 .. n PROVE s[i + j] \in T /\ s[i + j] > s[i]
    OBVIOUS
  <2>1. s[i] < s[i + j]
    BY <1>2
  <2> QED BY <1>1, <1>2, <2>1 DEF Numbers
<1>4. \A j, k \in 1 .. n : f[j] = f[k] => j = k
  <2> SUFFICES ASSUME NEW j \in 1 .. n, NEW k \in 1 .. n, j < k PROVE s[i + j] # s[i + k]
    OBVIOUS
  <2>1. i <= i + j /\ i + j < i + k
    OBVIOUS
  <2>2. s[i + j] < s[i + k]
    BY <1>2, <2>1
  <2> QED BY <1>1, <1>2, <2>2 DEF Numbers
<1>5. f \in Injection(1 .. n, greater)
  <2> HIDE DEF f, greater
  <2> QED BY <1>3, <1>4 DEF Injection, IsInjective
<1>6. IsFiniteSet(greater)
  <2>1. IsFiniteSet(Numbers)
    BY FS_Interval DEF Numbers
  <2>2. greater \in SUBSET Numbers
    OBVIOUS
  <2> HIDE DEF greater
  <2> QED BY <2>1, <2>2, FS_Subset
<1>7. Cardinality(1 .. n) = n
  BY FS_Interval
<1>8. Cardinality(1 .. n) <= Cardinality(greater)
  <2> HIDE DEF f, greater
  <2> QED BY <1>5, <1>6, FS_Injection
<1>9. Cardinality(greater) \in Nat
  <2> HIDE DEF greater
  <2> QED BY <1>6, FS_CardinalityType
<1> HIDE DEF greater
<1> QED BY <1>7, <1>8, <1>9 DEF greater

\* More numbers are not fewer greater ones.
LEMMA MoreNewer ==
  ASSUME NEW S \in SUBSET Numbers, NEW T \in SUBSET Numbers, S \subseteq T, NEW r,
         NEW n \in Nat, Cardinality({u \in S : u > r}) >= n
  PROVE  Cardinality({u \in T : u > r}) >= n
<1> USE LogBounds
<1> DEFINE a == {u \in S : u > r}
           b == {u \in T : u > r}
<1>1. a \in SUBSET b /\ b \in SUBSET Numbers
  OBVIOUS
<1>2. IsFiniteSet(Numbers)
  BY FS_Interval DEF Numbers
<1> HIDE DEF a, b
<1>3. IsFiniteSet(b) /\ IsFiniteSet(a)
  BY <1>1, <1>2, FS_Subset
<1>4. Cardinality(a) <= Cardinality(b) /\ Cardinality(a) \in Nat /\ Cardinality(b) \in Nat
  BY <1>1, <1>3, FS_Subset, FS_CardinalityType
<1> QED BY <1>4 DEF a, b

-----------------------------------------------------------------------------
(***************************************************************************)
(* The invariant.                                                          *)
(***************************************************************************)
AllRisked == 1 .. records \subseteq risked

Increasing(s) == \A i, j \in DOMAIN s : i < j => s[i] < s[j]

\* From a line that is not at risk on, the lines are in order.
Ordered(s) ==
  \A i \in DOMAIN s : s[i] \notin risked =>
    \A j, k \in DOMAIN s : i <= j /\ j < k => s[j] < s[k]

In(r, s) == \E i \in DOMAIN s : s[i] = r
Newer(r, others) == {u \in others : u > r}

\* What is in the log was written; what a writer has is that, and its record.
LinesWritten ==
  /\ \A i \in DOMAIN log : log[i] \in kept
  /\ \A p \in Proc : Logging(p) =>
       /\ lines[p] # <<>>
       /\ \A i \in DOMAIN lines[p] : lines[p][i] \in kept \union {Last(lines[p])}
       /\ Last(lines[p]) \in 1 .. records

OneAtIt == \A p, q \in Proc : Logging(p) /\ Logging(q) /\ p # q => AllRisked

LinesOrdered == Ordered(log) /\ \A p \in Proc : Logging(p) => Ordered(lines[p])

\* While a writer has emptied the log, only the child writes to it.
OnlyRiskedAfter ==
  \A p \in Proc : pc[p] = "lines" =>
    \/ AllRisked
    \/ /\ Increasing(log)
       /\ \A i \in DOMAIN log : log[i] > Last(lines[p]) /\ log[i] \in risked

InLog ==
  (\A p \in Proc : pc[p] # "lines") =>
    \A r \in kept \ risked : In(r, log) \/ Cardinality(Newer(r, kept)) >= MaxLogLines

InLines ==
  \A p \in Proc : Logging(p) =>
    \A r \in kept \ risked :
      \/ In(r, lines[p])
      \/ Cardinality(Newer(r, kept \union {Last(lines[p])})) >= MaxLogLines

LogInv == LogTypeOK /\ LinesWritten /\ OneAtIt /\ LinesOrdered /\ OnlyRiskedAfter /\ InLog /\ InLines

\* Where all is at risk, there is nothing more to show.
LEMMA AllAtRisk == LogTypeOK /\ LinesWritten /\ AllRisked => LogInv
<1> SUFFICES ASSUME LogTypeOK, LinesWritten, AllRisked PROVE LogInv
  OBVIOUS
<1>1. kept \ risked = {}
  BY DEF LogTypeOK, AllRisked
<1>2. Ordered(log)
  BY <1>1 DEF Ordered, LinesWritten
<1>3. ASSUME NEW p \in Proc, Logging(p) PROVE Ordered(lines[p])
  <2>1. \A i \in DOMAIN lines[p] : lines[p][i] \in risked
    BY <1>1, <1>3 DEF LinesWritten, AllRisked
  <2> QED BY <2>1 DEF Ordered
<1>4. OneAtIt /\ OnlyRiskedAfter
  BY DEF OneAtIt, OnlyRiskedAfter
<1>5. InLog /\ InLines
  BY <1>1 DEF InLog, InLines
<1> QED BY <1>2, <1>3, <1>4, <1>5 DEF LogInv, LinesOrdered

LEMMA LogInit == Init => LogInv
<1> SUFFICES ASSUME Init PROVE LogInv
  OBVIOUS
<1> USE LogBounds
<1>1. /\ log = <<>> /\ lines = [p \in Proc |-> <<>>] /\ records = 0 /\ kept = {} /\ risked = {}
      /\ \A p \in Proc : ~ Logging(p)
  BY DEF Init, InitLog, InitSlots, Logging
<1>2. <<>> \in Seq(Numbers) /\ DOMAIN <<>> = {}
  BY EmptySeq
<1>3. LogTypeOK
  BY <1>1, <1>2 DEF LogTypeOK, Numbers
<1>4. LinesWritten /\ AllRisked
  BY <1>1, <1>2 DEF LinesWritten, AllRisked
<1> QED BY <1>3, <1>4, AllAtRisk

\* What the steps make of the writers.
LEMMA Writers ==
  ASSUME SlotsType, NEW p \in Proc
  PROVE  /\ \A l \in {"empty", "lines"} :
              pc' = [pc EXCEPT ![p] = l] =>
                \A q \in Proc : Logging(q)' <=> Logging(q) \/ q = p
         /\ pc' = [pc EXCEPT ![p] = "idle"] =>
              \A q \in Proc : Logging(q)' <=> Logging(q) /\ q # p
BY DEF Logging, SlotsType

LEMMA LogTyped ==
  ASSUME LogInv
  PROVE  /\ log \in Seq(Numbers) /\ lines \in [Proc -> Seq(Numbers)]
         /\ records \in 0 .. MaxRecords /\ records \in Nat
         /\ kept \in SUBSET Numbers /\ kept \subseteq 1 .. records /\ risked \subseteq 1 .. records
BY LogBounds DEF LogInv, LogTypeOK, Numbers

\* A record is added to the end of what was in order.
LEMMA Added ==
  ASSUME LogInv, records < MaxRecords
  PROVE  LET more == Append(log, records + 1) IN
         /\ records + 1 \in Numbers
         /\ more \in Seq(Numbers) /\ Len(more) = Len(log) + 1 /\ Len(log) \in Nat
         /\ \A i \in 1 .. Len(log) : more[i] = log[i] /\ log[i] \in 1 .. records
         /\ more[Len(log) + 1] = records + 1
         /\ Ordered(more)
<1> USE LogBounds, LogTyped
<1> DEFINE more == Append(log, records + 1)
           n == Len(log)
<1>1. records + 1 \in Numbers
  BY DEF Numbers
<1>2. /\ more \in Seq(Numbers) /\ Len(more) = n + 1
      /\ \A i \in 1 .. n : more[i] = log[i]
      /\ more[n + 1] = records + 1
  BY <1>1, AppendProperties
<1>3. n \in Nat /\ DOMAIN log = 1 .. n /\ DOMAIN more = 1 .. n + 1
  BY <1>2, InRange
<1>4. \A i \in 1 .. n : log[i] \in 1 .. records
  BY <1>3 DEF LogInv, LinesWritten
<1> HIDE DEF more, n
<1>5. ASSUME NEW i \in 1 .. n + 1, more[i] \notin risked,
             NEW j \in 1 .. n + 1, NEW k \in 1 .. n + 1, i <= j, j < k
      PROVE  more[j] < more[k]
  <2>1. i \in 1 .. n /\ j \in 1 .. n
    BY <1>3, <1>5
  <2>2. CASE k \in 1 .. n
    BY <1>2, <1>3, <1>5, <2>1, <2>2 DEF LogInv, LinesOrdered, Ordered
  <2>3. CASE k = n + 1
    BY <1>2, <1>4, <2>1, <2>3
  <2> QED BY <1>3, <2>2, <2>3
<1>6. Ordered(more)
  BY <1>3, <1>5 DEF Ordered
<1> QED BY <1>1, <1>2, <1>3, <1>4, <1>6 DEF more, n

LEMMA RecordKeeps ==
  ASSUME SlotsType, LogInv, NEW p \in Proc, Record(p)
  PROVE  LogInv'
<1> USE LogBounds, LogTyped
<1> DEFINE more == Append(log, records + 1)
           c == Capped(more)
           n == Len(log)
<1>1. /\ records < MaxRecords /\ pc[p] = "idle" /\ pc' = [pc EXCEPT ![p] = "empty"]
      /\ records' = records + 1 /\ lines' = [lines EXCEPT ![p] = c]
      /\ risked' = IF Beside(p) THEN 1 .. records + 1 ELSE risked
      /\ log' = log /\ kept' = kept
  BY DEF Record, Launch, Idle
<1>2. /\ records + 1 \in Numbers
      /\ more \in Seq(Numbers) /\ Len(more) = n + 1 /\ n \in Nat
      /\ \A i \in 1 .. n : more[i] = log[i] /\ log[i] \in 1 .. records
      /\ more[n + 1] = records + 1
      /\ Ordered(more)
  BY <1>1, Added
<1> HIDE DEF more
<1>3. c \in Seq(Numbers) /\ Len(c) \in Nat
  BY <1>2, CappedLines, InRange
<1>4. PICK d \in Nat : /\ n + 1 = Len(c) + d
                       /\ \A i \in 1 .. Len(c) : c[i] = more[i + d]
                       /\ d = 0 \/ Len(c) = MaxLogLines
  BY <1>2, CappedLines
<1> HIDE DEF c
<1>5. DOMAIN c = 1 .. Len(c) /\ DOMAIN more = 1 .. n + 1 /\ DOMAIN log = 1 .. n
  BY <1>2, <1>3, InRange
<1>6. Len(c) >= 1 /\ c # <<>>
  BY <1>2, <1>3, <1>4, InRange
<1>7. Last(c) = records + 1
  <2>1. c[Len(c)] = more[n + 1]
    BY <1>3, <1>4, <1>6
  <2> QED BY <1>2, <2>1 DEF Last
<1>8. \A q \in Proc : Logging(q)' <=> Logging(q) \/ q = p
  BY <1>1, Writers
<1>9. \A q \in Proc : q # p => lines'[q] = lines[q]
  BY <1>1
<1>10. lines'[p] = c
  BY <1>1
<1>11. LogTypeOK'
  <2>1. lines' \in [Proc -> Seq(Numbers)]
    BY <1>1, <1>3
  <2>2. risked' \subseteq 1 .. records' /\ kept' \subseteq 1 .. records'
    BY <1>1
  <2>3. records' \in 0 .. MaxRecords
    BY <1>1
  <2> QED BY <1>1, <2>1, <2>2, <2>3 DEF LogTypeOK, Numbers
<1>12. LinesWritten'
  <2>1. \A i \in 1 .. Len(c) : c[i] \in kept \union {records + 1}
    <3> SUFFICES ASSUME NEW i \in 1 .. Len(c) PROVE c[i] \in kept \union {records + 1}
      OBVIOUS
    <3>1. i + d \in 1 .. n + 1 /\ c[i] = more[i + d]
      BY <1>2, <1>3, <1>4
    <3>2. CASE i + d = n + 1
      BY <1>2, <3>1, <3>2
    <3>3. CASE i + d \in 1 .. n
      BY <1>2, <1>5, <3>1, <3>3 DEF LogInv, LinesWritten
    <3> QED BY <1>2, <3>1, <3>2, <3>3
  <2>2. ASSUME NEW q \in Proc, Logging(q)'
        PROVE  /\ lines'[q] # <<>>
               /\ \A i \in DOMAIN lines'[q] : lines'[q][i] \in kept' \union {Last(lines'[q])}
               /\ Last(lines'[q]) \in 1 .. records'
    <3>1. CASE q = p
      BY <1>1, <1>5, <1>6, <1>7, <1>10, <2>1, <3>1
    <3>2. CASE q # p
      <4>1. Logging(q) /\ lines'[q] = lines[q]
        BY <1>8, <1>9, <2>2, <3>2
      <4>2. 1 .. records \subseteq 1 .. records'
        BY <1>1
      <4> QED BY <1>1, <4>1, <4>2 DEF LogInv, LinesWritten
    <3> QED BY <3>1, <3>2
  <2>3. \A i \in DOMAIN log' : log'[i] \in kept'
    BY <1>1 DEF LogInv, LinesWritten
  <2> QED BY <2>2, <2>3 DEF LinesWritten
<1>13. CASE Beside(p)
  <2>1. AllRisked'
    BY <1>1, <1>13 DEF AllRisked
  <2> QED BY <1>11, <1>12, <2>1, AllAtRisk, PTL
<1>14. CASE ~ Beside(p)
  <2>1. /\ risked' = risked
        /\ \A q \in Proc : ~ Logging(q) /\ (Logging(q)' <=> q = p)
    BY <1>1, <1>8, <1>14 DEF Beside, Logging
  <2>2. \A q \in Proc : pc[q] # "lines" /\ pc'[q] # "lines"
    BY <1>1, <2>1 DEF Logging, SlotsType
  <2>3. OneAtIt' /\ OnlyRiskedAfter'
    BY <2>1, <2>2 DEF OneAtIt, OnlyRiskedAfter
  <2>4. InLog'
    BY <1>1, <2>1, <2>2 DEF LogInv, InLog, In, Newer
  <2>5. LinesOrdered'
    <3>1. Ordered(log)'
      BY <1>1, <2>1 DEF LogInv, LinesOrdered, Ordered
    <3>2. ASSUME NEW i \in 1 .. Len(c), c[i] \notin risked,
                 NEW j \in 1 .. Len(c), NEW k \in 1 .. Len(c), i <= j, j < k
          PROVE  c[j] < c[k]
      <4>1. {i + d, j + d, k + d} \subseteq 1 .. n + 1 /\ i + d <= j + d /\ j + d < k + d
        BY <1>2, <1>3, <1>4, <3>2
      <4>2. c[i] = more[i + d] /\ c[j] = more[j + d] /\ c[k] = more[k + d]
        BY <1>4
      <4> QED BY <1>2, <1>5, <3>2, <4>1, <4>2 DEF Ordered
    <3>3. \A q \in Proc : Logging(q)' => Ordered(lines[q])'
      BY <1>5, <1>10, <2>1, <3>2 DEF Ordered
    <3> QED BY <3>1, <3>3 DEF LinesOrdered
  <2>6. InLines'
    <3> DEFINE T == kept \union {records + 1}
    <3>1. SUFFICES ASSUME NEW r \in kept \ risked
                   PROVE  \/ \E i \in 1 .. Len(c) : c[i] = r
                          \/ Cardinality({u \in T : u > r}) >= MaxLogLines
      BY <1>1, <1>5, <1>7, <1>10, <2>1 DEF InLines, In, Newer
    <3>2. T \in SUBSET Numbers /\ kept \subseteq T
      BY <1>2
    <3>3. CASE Cardinality(Newer(r, kept)) >= MaxLogLines
      BY <3>2, <3>3, MoreNewer DEF Newer
    <3>4. CASE In(r, log)
      <4>1. PICK i \in 1 .. n : log[i] = r
        BY <1>5, <3>4 DEF In
      <4>2. i \in 1 .. n + 1 /\ more[i] = r
        BY <1>2, <4>1
      <4>3. CASE i > d
        <5>1. i - d \in 1 .. Len(c) /\ (i - d) + d = i
          BY <1>2, <1>3, <1>4, <4>1, <4>3
        <5>2. c[i - d] = r
          BY <1>4, <4>2, <5>1
        <5> QED BY <5>1, <5>2
      <4>4. CASE ~ i > d
        <5>1. MaxLogLines <= Len(more) - i
          BY <1>2, <1>3, <1>4, <4>1, <4>4
        <5>2. \A j, k \in 1 .. Len(more) : i <= j /\ j < k => more[j] < more[k]
          BY <1>2, <1>5, <3>1, <4>2 DEF Ordered
        <5>3. \A j \in i + 1 .. Len(more) : more[j] \in T
          <6> SUFFICES ASSUME NEW j \in i + 1 .. n + 1 PROVE more[j] \in T
            BY <1>2
          <6>1. CASE j = n + 1
            BY <1>2, <6>1
          <6>2. CASE j \in 1 .. n
            BY <1>2, <1>5, <6>2 DEF LogInv, LinesWritten
          <6>3. j = n + 1 \/ j \in 1 .. n
            <7>1. i \in Nat /\ n \in Nat /\ j \in Int /\ i + 1 <= j /\ j <= n + 1
              BY <1>2, <4>1
            <7> HIDE DEF n, T
            <7> QED BY <7>1
          <6> QED BY <6>1, <6>2, <6>3
        <5>4. i \in 1 .. Len(more)
          BY <1>2, <4>2
        <5>5. Cardinality({u \in T : u > more[i]}) >= MaxLogLines
          <6> HIDE DEF T
          <6> QED BY <1>2, <3>2, <5>1, <5>2, <5>3, <5>4, Followed
        <5> QED BY <4>2, <5>5
      <4> QED BY <4>3, <4>4
    <3>5. In(r, log) \/ Cardinality(Newer(r, kept)) >= MaxLogLines
      BY <2>2 DEF LogInv, InLog
    <3> QED BY <3>3, <3>4, <3>5
  <2> QED BY <1>11, <1>12, <2>3, <2>4, <2>5, <2>6 DEF LogInv
<1> QED BY <1>13, <1>14

LEMMA EmptyLogKeeps ==
  ASSUME SlotsType, LogInv, NEW p \in Proc, EmptyLog(p)
  PROVE  LogInv'
<1> USE LogBounds, LogTyped
<1>1. /\ pc[p] = "empty" /\ pc' = [pc EXCEPT ![p] = "lines"] /\ log' = <<>>
      /\ UNCHANGED <<lines, records, kept, risked>>
  BY DEF EmptyLog, Goto
<1>2. \A q \in Proc : Logging(q)' <=> Logging(q)
  BY <1>1, Writers DEF Logging
<1>3. log' \in Seq(Numbers) /\ DOMAIN log' = {}
  BY <1>1, EmptySeq
<1>4. LogTypeOK' /\ LinesWritten'
  BY <1>1, <1>2, <1>3 DEF LogInv, LogTypeOK, LinesWritten, Numbers
<1>5. OneAtIt' /\ LinesOrdered'
  BY <1>1, <1>2, <1>3 DEF LogInv, OneAtIt, LinesOrdered, Ordered, AllRisked
<1>6. OnlyRiskedAfter'
  <2>1. ASSUME NEW q \in Proc, pc'[q] = "lines"
        PROVE  \/ AllRisked'
               \/ /\ Increasing(log')
                  /\ \A i \in DOMAIN log' : log'[i] > Last(lines'[q]) /\ log'[i] \in risked'
    BY <1>3 DEF Increasing
  <2> QED BY <2>1 DEF OnlyRiskedAfter, Increasing
<1>7. InLog'
  BY <1>1 DEF InLog, SlotsType
<1>8. InLines'
  BY <1>1, <1>2 DEF LogInv, InLines, In, Newer
<1> QED BY <1>4, <1>5, <1>6, <1>7, <1>8 DEF LogInv

LEMMA WriterDiesKeeps ==
  ASSUME SlotsType, LogInv, NEW p \in Proc, WriterDies(p)
  PROVE  LogInv'
<1> USE LogBounds, LogTyped
<1>1. /\ Logging(p) /\ pc' = [pc EXCEPT ![p] = "idle"]
      /\ lines' = [lines EXCEPT ![p] = <<>>]
      /\ risked' = IF pc[p] = "lines" THEN 1 .. records ELSE risked
      /\ UNCHANGED <<log, records, kept>>
  BY DEF WriterDies, EndLog, Leave
<1>2. \A q \in Proc : Logging(q)' => Logging(q) /\ lines'[q] = lines[q]
  BY <1>1, Writers
<1>3. LogTypeOK'
  <2>1. <<>> \in Seq(Numbers)
    BY EmptySeq
  <2> QED BY <1>1, <2>1 DEF LogInv, LogTypeOK, Numbers
<1>4. LinesWritten'
  BY <1>1, <1>2 DEF LogInv, LinesWritten
<1>5. CASE pc[p] = "lines"
  <2>1. AllRisked'
    BY <1>1, <1>5 DEF AllRisked
  <2> QED BY <1>3, <1>4, <2>1, AllAtRisk, PTL
<1>6. CASE pc[p] # "lines"
  <2>1. \A q \in Proc : pc'[q] = "lines" <=> pc[q] = "lines"
    BY <1>1, <1>6 DEF SlotsType
  <2>2. OneAtIt' /\ LinesOrdered'
    BY <1>1, <1>2, <1>6 DEF LogInv, OneAtIt, LinesOrdered, Ordered, AllRisked
  <2>3. OnlyRiskedAfter'
    <3>1. ASSUME NEW q \in Proc, pc'[q] = "lines" PROVE lines'[q] = lines[q]
      BY <1>2, <3>1 DEF Logging
    <3> QED BY <1>1, <1>6, <2>1, <3>1 DEF LogInv, OnlyRiskedAfter, Increasing, AllRisked
  <2>4. InLog'
    BY <1>1, <1>6, <2>1 DEF LogInv, InLog, In, Newer
  <2>5. InLines'
    BY <1>1, <1>2, <1>6 DEF LogInv, InLines, In, Newer
  <2> QED BY <1>3, <1>4, <2>2, <2>3, <2>4, <2>5 DEF LogInv
<1> QED BY <1>5, <1>6

LEMMA WriteLinesKeeps ==
  ASSUME SlotsType, LogInv, NEW p \in Proc, WriteLines(p)
  PROVE  LogInv'
<1> USE LogBounds, LogTyped
<1> DEFINE s == lines[p]
           o == Overwrite(s)
           record == Last(s)
<1>1. /\ pc[p] = "lines" /\ pc' = [pc EXCEPT ![p] = "idle"]
      /\ log' = o /\ kept' = kept \union {record}
      /\ lines' = [lines EXCEPT ![p] = <<>>]
      /\ UNCHANGED <<records, risked>>
  BY DEF WriteLines, EndLog, Leave
<1>2. Logging(p) /\ \A q \in Proc : Logging(q)' => Logging(q) /\ q # p /\ lines'[q] = lines[q]
  BY <1>1, Writers DEF Logging
<1>3. /\ s \in Seq(Numbers) /\ s # <<>> /\ record \in 1 .. records
      /\ \A i \in DOMAIN s : s[i] \in kept \union {record}
  BY <1>2 DEF LogInv, LinesWritten
<1>4. /\ o \in Seq(Numbers) /\ Len(s) <= Len(o)
      /\ \A i \in 1 .. Len(s) : o[i] = s[i]
      /\ \A i \in Len(s) + 1 .. Len(o) : i \in 1 .. Len(log) /\ o[i] = log[i]
  BY <1>3, OverwriteLines
<1>5. /\ Len(s) \in Nat /\ DOMAIN s = 1 .. Len(s) /\ Len(s) >= 1 /\ record = s[Len(s)]
      /\ Len(o) \in Nat /\ DOMAIN o = 1 .. Len(o)
      /\ Len(log) \in Nat /\ DOMAIN log = 1 .. Len(log)
  BY <1>3, <1>4, InRange DEF Last
<1> HIDE DEF o, record
<1>11. /\ \A i \in 1 .. Len(s) : s[i] \in Nat
       /\ \A i \in 1 .. Len(log) : log[i] \in Nat
       /\ record \in Nat
  BY <1>3, <1>5, InRange DEF Numbers
<1>12. \A i, j, k \in 1 .. Len(s) : s[i] \notin risked /\ i <= j /\ j < k => s[j] < s[k]
  BY <1>2, <1>5 DEF LogInv, LinesOrdered, Ordered
<1>6. \A i \in 1 .. Len(o) :
        \/ i \in 1 .. Len(s) /\ o[i] = s[i]
        \/ i \in Len(s) + 1 .. Len(o) /\ i \in 1 .. Len(log) /\ o[i] = log[i]
  BY <1>4, <1>5
<1>7. LogTypeOK'
  <2>1. <<>> \in Seq(Numbers)
    BY EmptySeq
  <2>2. lines' \in [Proc -> Seq(Numbers)]
    BY <1>1, <2>1
  <2>3. kept' \subseteq 1 .. records' /\ risked' \subseteq 1 .. records'
    BY <1>1, <1>3
  <2> QED BY <1>1, <1>4, <2>2, <2>3 DEF LogTypeOK, Numbers
<1>8. LinesWritten'
  <2>1. \A i \in 1 .. Len(o) : o[i] \in kept \union {record}
    BY <1>3, <1>5, <1>6 DEF LogInv, LinesWritten
  <2>2. \A i \in DOMAIN log' : log'[i] \in kept'
    BY <1>1, <1>5, <2>1
  <2> QED BY <1>1, <1>2, <2>2 DEF LogInv, LinesWritten
<1>9. CASE AllRisked
  <2>1. AllRisked'
    BY <1>1, <1>9 DEF AllRisked
  <2> QED BY <1>7, <1>8, <2>1, AllAtRisk, PTL
<1>10. CASE ~ AllRisked
  <2>1. \A q \in Proc : ~ Logging(q)'
    BY <1>2, <1>10 DEF LogInv, OneAtIt
  <2>2. OneAtIt' /\ OnlyRiskedAfter' /\ InLines'
    BY <2>1 DEF OneAtIt, OnlyRiskedAfter, InLines, Logging
  <2>3. /\ \A i, j \in 1 .. Len(log) : i < j => log[i] < log[j]
        /\ \A i \in 1 .. Len(log) : log[i] > record /\ log[i] \in risked
    BY <1>1, <1>5, <1>10 DEF LogInv, OnlyRiskedAfter, Increasing, record
  <2>4. LinesOrdered'
    <3>1. ASSUME NEW i \in 1 .. Len(o), o[i] \notin risked,
                 NEW j \in 1 .. Len(o), NEW k \in 1 .. Len(o), i <= j, j < k
          PROVE  o[j] < o[k]
      <4>1. i \in 1 .. Len(s) /\ o[i] = s[i]
        BY <1>6, <2>3, <3>1
      <4>2. \A m \in 1 .. Len(s) : i <= m => s[m] <= record
        <5> SUFFICES ASSUME NEW m \in 1 .. Len(s), i <= m PROVE s[m] <= record
          OBVIOUS
        <5>1. CASE m = Len(s)
          BY <1>5, <1>11, <5>1
        <5>2. CASE m < Len(s)
          <6>1. Len(s) \in 1 .. Len(s)
            BY <1>5
          <6>2. s[m] < s[Len(s)]
            BY <1>12, <3>1, <4>1, <5>2, <6>1
          <6> QED BY <1>5, <1>11, <6>1, <6>2
        <5>3. m = Len(s) \/ m < Len(s)
          <6> DEFINE n == Len(s)
          <6>1. n \in Nat /\ m \in 1 .. n
            BY <1>5
          <6> HIDE DEF n
          <6>2. m = n \/ m < n
            BY <6>1
          <6> QED BY <6>2 DEF n
        <5> QED BY <5>1, <5>2, <5>3
      <4>3. CASE k \in 1 .. Len(s)
        <5>1. j \in 1 .. Len(s)
          BY <1>5, <3>1, <4>3
        <5>2. o[j] = s[j] /\ o[k] = s[k]
          BY <1>4, <4>3, <5>1
        <5>3. s[j] < s[k]
          BY <1>12, <3>1, <4>1, <4>3, <5>1
        <5> QED BY <5>2, <5>3
      <4>4. CASE k \in Len(s) + 1 .. Len(o) /\ j \in 1 .. Len(s)
        <5>1. o[j] = s[j] /\ s[j] <= record /\ s[j] \in Nat
          BY <1>4, <1>11, <3>1, <4>2, <4>4
        <5>2. k \in 1 .. Len(log) /\ o[k] = log[k]
          BY <1>4, <4>4
        <5>3. log[k] > record /\ log[k] \in Nat
          BY <1>11, <2>3, <5>2
        <5> HIDE DEF s
        <5> QED BY <1>11, <5>1, <5>2, <5>3
      <4>5. CASE k \in Len(s) + 1 .. Len(o) /\ j \in Len(s) + 1 .. Len(o)
        BY <1>4, <2>3, <3>1, <4>5
      <4> QED BY <1>5, <4>3, <4>4, <4>5
    <3>2. Ordered(log)'
      BY <1>1, <1>5, <3>1 DEF Ordered
    <3> QED BY <2>1, <3>2 DEF LinesOrdered
  <2>5. InLog'
    <3>1. SUFFICES ASSUME NEW r \in (kept \union {record}) \ risked
                   PROVE  \/ \E i \in 1 .. Len(o) : o[i] = r
                          \/ Cardinality(Newer(r, kept \union {record})) >= MaxLogLines
      BY <1>1, <1>5 DEF InLog, In, Newer
    <3>2. In(r, s) \/ Cardinality(Newer(r, kept \union {record})) >= MaxLogLines
      <4>1. CASE r = record
        BY <1>5, <4>1 DEF In
      <4>2. CASE r \in kept
        BY <1>2, <3>1, <4>2 DEF LogInv, InLines, record
      <4> QED BY <4>1, <4>2
    <3>3. In(r, s) => \E i \in 1 .. Len(o) : o[i] = r
      <4>1. \A i \in 1 .. Len(s) : i \in 1 .. Len(o)
        BY <1>4, <1>5
      <4> QED BY <1>4, <1>5, <4>1 DEF In
    <3> QED BY <3>2, <3>3
  <2> QED BY <1>7, <1>8, <2>2, <2>4, <2>5 DEF LogInv
<1> QED BY <1>9, <1>10

\* A record at the end of the log puts nothing out of order.
LEMMA ChildAppendsKeeps ==
  ASSUME SlotsType, LogInv, ChildAppends
  PROVE  LogInv'
<1> USE LogBounds, LogTyped
<1> DEFINE more == Append(log, records + 1)
           n == Len(log)
           record == records + 1
<1>1. /\ records < MaxRecords /\ records' = record /\ log' = more
      /\ kept' = kept \union {record} /\ UNCHANGED <<pc, lines>>
      /\ risked' = IF \E p \in Proc : Logging(p) THEN risked \union {record} ELSE risked
  BY DEF ChildAppends, slots
<1>2. /\ record \in Numbers /\ more \in Seq(Numbers) /\ Len(more) = n + 1 /\ n \in Nat
      /\ \A i \in 1 .. n : more[i] = log[i] /\ log[i] \in 1 .. records
      /\ more[n + 1] = record
      /\ Ordered(more)
  BY <1>1, Added
<1> HIDE DEF more
<1>3. DOMAIN more = 1 .. n + 1 /\ DOMAIN log = 1 .. n
  BY <1>2, InRange
<1>4. \A p \in Proc : Logging(p)' <=> Logging(p)
  BY <1>1 DEF Logging
<1>5. \A i \in 1 .. n + 1 : i \in 1 .. n \/ i = n + 1
  <2> HIDE DEF n
  <2> QED BY <1>2
<1>6. \A i \in 1 .. n : i \in 1 .. n + 1
  <2> HIDE DEF n
  <2> QED BY <1>2
<1> HIDE DEF n
<1>7. LogTypeOK'
  <2>1. kept' \subseteq 1 .. records' /\ risked' \subseteq 1 .. records' /\ records' \in 0 .. MaxRecords
    BY <1>1
  <2> QED BY <1>1, <1>2, <2>1 DEF LogTypeOK, Numbers
<1>8. LinesWritten'
  <2>1. \A i \in DOMAIN log' : log'[i] \in kept'
    BY <1>1, <1>2, <1>3, <1>5 DEF LogInv, LinesWritten
  <2>2. 1 .. records \subseteq 1 .. records' /\ kept \subseteq kept'
    BY <1>1
  <2>3. ASSUME NEW p \in Proc, Logging(p)'
        PROVE  /\ lines'[p] # <<>>
               /\ \A i \in DOMAIN lines'[p] : lines'[p][i] \in kept' \union {Last(lines'[p])}
               /\ Last(lines'[p]) \in 1 .. records'
    BY <1>1, <1>4, <2>2, <2>3 DEF LogInv, LinesWritten
  <2> QED BY <2>1, <2>3 DEF LinesWritten
<1>9. risked \subseteq risked' /\ kept' \in SUBSET Numbers
  BY <1>1, <1>2
<1>10. LinesOrdered'
  <2>1. Ordered(log)'
    BY <1>1, <1>2, <1>9 DEF Ordered
  <2> QED BY <1>1, <1>4, <1>9, <2>1 DEF LogInv, LinesOrdered, Ordered
<1>11. ASSUME NEW r \in kept, Cardinality(Newer(r, kept)) >= MaxLogLines
       PROVE  Cardinality(Newer(r, kept')) >= MaxLogLines
  BY <1>1, <1>9, <1>11, MoreNewer DEF Newer
<1>12. CASE \A p \in Proc : ~ Logging(p)
  <2>1. OneAtIt' /\ OnlyRiskedAfter' /\ InLines'
    BY <1>4, <1>12 DEF OneAtIt, OnlyRiskedAfter, InLines, Logging
  <2>2. ASSUME NEW r \in kept' \ risked'
        PROVE  In(r, more) \/ Cardinality(Newer(r, kept')) >= MaxLogLines
    <3>1. CASE r = record
      BY <1>2, <1>3, <3>1 DEF In
    <3>2. CASE r \in kept
      <4>1. In(r, log) \/ Cardinality(Newer(r, kept)) >= MaxLogLines
        BY <1>9, <1>12, <2>2, <3>2 DEF LogInv, InLog, Logging
      <4>2. In(r, log) => In(r, more)
        BY <1>2, <1>3, <1>6 DEF In
      <4> QED BY <1>11, <3>2, <4>1, <4>2
    <3> QED BY <1>1, <2>2, <3>1, <3>2
  <2>3. InLog'
    BY <1>1, <2>2 DEF InLog, In, Newer
  <2> QED BY <1>7, <1>8, <1>10, <2>1, <2>3 DEF LogInv
<1>13. CASE \E p \in Proc : Logging(p)
  <2>1. risked' = risked \union {record}
    BY <1>1, <1>13
  <2>2. CASE AllRisked
    <3>1. AllRisked'
      BY <1>1, <2>1, <2>2 DEF AllRisked
    <3> QED BY <1>7, <1>8, <3>1, AllAtRisk, PTL
  <2>3. CASE ~ AllRisked
    <3>1. OneAtIt'
      BY <1>4, <2>3 DEF LogInv, OneAtIt
    <3>2. OnlyRiskedAfter'
      <4>1. ASSUME NEW p \in Proc, pc[p] = "lines"
            PROVE  /\ Increasing(more)
                   /\ \A i \in 1 .. n + 1 : more[i] > Last(lines[p]) /\ more[i] \in risked'
        <5> DEFINE last == Last(lines[p])
        <5>1. last \in 1 .. records
          BY <4>1 DEF LogInv, LinesWritten, Logging
        <5>2. Increasing(log) /\ \A i \in 1 .. n : log[i] > last /\ log[i] \in risked
          BY <1>3, <2>3, <4>1 DEF LogInv, OnlyRiskedAfter
        <5> HIDE DEF last
        <5>3. record > last
          BY <5>1
        <5>4. \A i \in 1 .. n + 1 : more[i] > last /\ more[i] \in risked'
          BY <1>2, <1>5, <2>1, <5>2, <5>3
        <5>5. ASSUME NEW i \in 1 .. n + 1, NEW j \in 1 .. n + 1, i < j
              PROVE  more[i] < more[j]
          <6>1. i \in 1 .. n
            BY <1>2, <5>5
          <6>2. CASE j \in 1 .. n
            BY <1>2, <1>3, <5>2, <5>5, <6>1, <6>2 DEF Increasing
          <6>3. CASE j = n + 1
            BY <1>2, <6>1, <6>3
          <6> QED BY <1>5, <6>2, <6>3
        <5> QED BY <1>3, <5>4, <5>5 DEF Increasing, last
      <4> QED BY <1>1, <1>3, <4>1 DEF OnlyRiskedAfter, Increasing
    <3>3. InLog'
      <4>1. ASSUME \A p \in Proc : pc'[p] # "lines", NEW r \in kept' \ risked'
            PROVE  In(r, more) \/ Cardinality(Newer(r, kept')) >= MaxLogLines
        <5>1. r \in kept \ risked
          BY <1>1, <2>1, <4>1
        <5>2. In(r, log) \/ Cardinality(Newer(r, kept)) >= MaxLogLines
          BY <1>1, <4>1, <5>1 DEF LogInv, InLog
        <5>3. In(r, log) => In(r, more)
          BY <1>2, <1>3, <1>6 DEF In
        <5> QED BY <1>11, <5>1, <5>2, <5>3
      <4> QED BY <1>1, <4>1 DEF InLog, In, Newer
    <3>4. InLines'
      <4>1. ASSUME NEW p \in Proc, Logging(p), NEW r \in kept' \ risked'
            PROVE  \/ In(r, lines[p])
                   \/ Cardinality(Newer(r, kept' \union {Last(lines[p])})) >= MaxLogLines
        <5> DEFINE last == Last(lines[p])
        <5>1. r \in kept \ risked
          BY <1>1, <2>1, <4>1
        <5>2. last \in 1 .. records
          BY <4>1 DEF LogInv, LinesWritten
        <5>3. In(r, lines[p]) \/ Cardinality(Newer(r, kept \union {last})) >= MaxLogLines
          BY <4>1, <5>1 DEF LogInv, InLines
        <5> HIDE DEF last
        <5>4. /\ kept \union {last} \in SUBSET Numbers
              /\ kept' \union {last} \in SUBSET Numbers
              /\ kept \union {last} \subseteq kept' \union {last}
          BY <1>1, <1>9, <5>2 DEF Numbers
        <5>5. Cardinality(Newer(r, kept \union {last})) >= MaxLogLines
                => Cardinality(Newer(r, kept' \union {last})) >= MaxLogLines
          BY <5>4, MoreNewer DEF Newer
        <5> QED BY <5>3, <5>5 DEF last
      <4> QED BY <1>1, <1>4, <4>1 DEF InLines, In, Newer
    <3> QED BY <1>7, <1>8, <1>10, <3>1, <3>2, <3>3, <3>4 DEF LogInv
  <2> QED BY <2>2, <2>3
<1> QED BY <1>12, <1>13

\* The other commands leave the log and its writers alone.
LEMMA OthersKeepLog ==
  ASSUME SlotsType, LogInv, UNCHANGED logs, Spares(LogLabels)
  PROVE  LogInv'
<1>1. UNCHANGED <<log, lines, records, kept, risked>>
  BY DEF logs
<1>2. \A p \in Proc : (Logging(p)' <=> Logging(p)) /\ (pc'[p] = "lines" <=> pc[p] = "lines")
  BY DEF Spares, LogLabels, Logging
<1>3. LogTypeOK' /\ LinesWritten'
  BY <1>1, <1>2 DEF LogInv, LogTypeOK, LinesWritten
<1>4. OneAtIt' /\ LinesOrdered'
  BY <1>1, <1>2 DEF LogInv, OneAtIt, LinesOrdered, Ordered, AllRisked
<1>5. OnlyRiskedAfter'
  BY <1>1, <1>2 DEF LogInv, OnlyRiskedAfter, Increasing, AllRisked
<1>6. InLog' /\ InLines'
  BY <1>1, <1>2 DEF LogInv, InLog, InLines, In, Newer
<1> QED BY <1>3, <1>4, <1>5, <1>6 DEF LogInv

LEMMA LogInvariant == Spec => [](SlotsType /\ LogInv)
<1>1. Init => SlotsType /\ LogInv
  BY SlotsInit, LogInit DEF Init
<1>2. ASSUME SlotsType, LogInv, [Next]_vars PROVE SlotsType' /\ LogInv'
  <2>1. CASE LogNext
    BY <1>2, <2>1, StepSeen, RecordKeeps, EmptyLogKeeps, WriteLinesKeeps, WriterDiesKeeps,
       ChildAppendsKeeps DEF LogNext
  <2>2. CASE UNCHANGED logs /\ Spares(LogLabels)
    BY <1>2, <2>2, StepSeen, OthersKeepLog
  <2> QED BY <1>2, <2>1, <2>2, SeenByLog
<1>3. SlotsType /\ LogInv /\ [Next]_vars => (SlotsType /\ LogInv)'
  BY <1>2
<1> QED BY <1>1, <1>3, PTL DEF Spec

-----------------------------------------------------------------------------
\* statusline.log loses a record that was written only to MaxLogLines newer ones
\* (log.go, "keeping only the most recent maxLogLines"), unless another write
\* came in between of its own, or of the rewrite of the whole file.
THEOREM OldestLinesGo == Spec => []OnlyOldestLost
<1>1. LogInv => OnlyOldestLost
  BY DEF LogInv, InLog, In, Newer, OnlyOldestLost
<1> QED BY <1>1, LogInvariant, PTL

-----------------------------------------------------------------------------
(***************************************************************************)
(* What init promises, for any number of overlapping inits and any edits   *)
(* of others in between.                                                   *)
(***************************************************************************)
LEMMA SettingsBounds ==
  /\ MaxClock \in Nat /\ MaxInits \in Nat /\ MaxChanges \in Nat
  /\ Odd \notin Foreign /\ "none" \notin Foreign /\ Foreign \cap Launcher = {}
  /\ Odd # "none" /\ Odd \notin Launcher /\ "none" \notin Launcher
  /\ Ccpool \subseteq Launcher
BY SettingsAssumption

Plans == [addStatusline : BOOLEAN, addHooks : SUBSET Event, skill : BOOLEAN]
Jobs  == [replace : BOOLEAN, pid : 0 .. MaxInits, behind : BOOLEAN, loaded : Content,
          plan : Plans, bak : BakName]

\* The event has no hook that init recognises.
Bare(c, e) == \A l \in Ccpool : c.warn[e][l] = 0

\* A plan adds hooks only to the events that have none in what was read.
PlansFit == \A p \in Proc : \A e \in job[p].plan.addHooks : Bare(job[p].loaded, e)

AllOnce ==
  /\ file # Absent => HooksOnce(file)
  /\ \A p \in Proc : HooksOnce(job[p].loaded)

TypeInv == SettingsTypeOK /\ PlansFit /\ AllOnce

-----------------------------------------------------------------------------
(***************************************************************************)
(* Contents and plans.                                                     *)
(***************************************************************************)
LEMMA FreshIsContent ==
  /\ Fresh \in Content /\ Fresh # Absent /\ Absent \notin Content
  /\ HooksOnce(Fresh)
<1>1. Fresh \in Content /\ Fresh # Absent /\ Absent \notin Content
  BY DEF Fresh, Content, Absent
<1>2. \A e \in Event : \A l \in Ccpool : Fresh.warn[e][l] = 0
  BY SettingsBounds DEF Fresh
<1> QED BY <1>1, <1>2 DEF HooksOnce

LEMMA LoadedIsContent ==
  ASSUME SettingsTypeOK
  PROVE  loadSettings \in Content /\ (AllOnce => HooksOnce(loadSettings))
BY FreshIsContent DEF SettingsTypeOK, loadSettings, AllOnce

LEMMA WarnType == ASSUME NEW c \in Content PROVE c.warn \in [Event -> [Launcher -> Nat]]
BY DEF Content

LEMMA PlanType ==
  ASSUME NEW c \in Content, NEW replace \in BOOLEAN, NEW skillAbsent \in BOOLEAN
  PROVE  /\ makePlan(c, replace, skillAbsent) \in Plans
         /\ \A e \in makePlan(c, replace, skillAbsent).addHooks : Bare(c, e)
<1>1. makePlan(c, replace, skillAbsent) \in Plans
  BY DEF makePlan, Plans, statuslineState, ccstatuslineHost
<1>2. ASSUME NEW e \in Event, ~ warnWired(c, e) PROVE Bare(c, e)
  <2>1. \A l \in Launcher : c.warn[e][l] \in Nat
    BY WarnType
  <2>2. \A l \in Ccpool : ~ c.warn[e][l] > 0
    BY <1>2, SettingsBounds DEF warnWired, ccpoolCmd
  <2> QED BY <2>1, <2>2, SettingsBounds DEF Bare
<1> QED BY <1>1, <1>2 DEF makePlan

\* What a plan makes of the hooks of an event.
LEMMA AppliedHooks ==
  ASSUME NEW c \in Content, NEW pl \in Plans, NEW l \in Launcher, NEW e \in Event
  PROVE  applyPlan(c, pl, l).warn[e] =
           IF e \in pl.addHooks THEN [c.warn[e] EXCEPT ![l] = @ + 1] ELSE c.warn[e]
<1>1. applyPlan(c, pl, l).warn =
        [d \in Event |->
           IF d \in pl.addHooks THEN [c.warn[d] EXCEPT ![l] = @ + 1] ELSE c.warn[d]]
  BY DEF applyPlan, Content
<1> QED BY <1>1

LEMMA AppliedType ==
  ASSUME NEW c \in Content, NEW pl \in Plans, NEW l \in Launcher
  PROVE  applyPlan(c, pl, l) \in Content
<1> DEFINE w == [e \in Event |->
                   IF e \in pl.addHooks THEN [c.warn[e] EXCEPT ![l] = @ + 1] ELSE c.warn[e]]
<1>1. \A e \in Event : c.warn[e] \in [Launcher -> Nat]
  BY WarnType
<1>2. w \in [Event -> [Launcher -> Nat]]
  BY <1>1
<1>3. applyPlan(c, pl, l) = [c EXCEPT !.sl = IF pl.addStatusline THEN l ELSE @, !.warn = w]
  BY DEF applyPlan
<1> HIDE DEF w
<1> QED BY <1>2, <1>3 DEF Content

LEMMA AppliedOnce ==
  ASSUME NEW c \in Content, NEW pl \in Plans, NEW l \in Launcher,
         HooksOnce(c), \A e \in pl.addHooks : Bare(c, e)
  PROVE  HooksOnce(applyPlan(c, pl, l))
<1> DEFINE w == applyPlan(c, pl, l).warn
<1> HIDE DEF w
<1> SUFFICES ASSUME NEW e \in Event, NEW m \in Ccpool, NEW n \in Ccpool
             PROVE  w[e][m] <= 1 /\ (m # n => w[e][m] = 0 \/ w[e][n] = 0)
  BY DEF HooksOnce, w
<1>1. CASE e \notin pl.addHooks
  <2>1. w[e] = c.warn[e]
    BY <1>1, AppliedHooks DEF w
  <2> QED BY <2>1 DEF HooksOnce
<1>2. CASE e \in pl.addHooks
  <2>1. w[e] = [c.warn[e] EXCEPT ![l] = @ + 1]
    BY <1>2, AppliedHooks DEF w
  <2>2. c.warn[e] \in [Launcher -> Nat] /\ c.warn[e][m] = 0 /\ c.warn[e][n] = 0
    BY <1>2, WarnType DEF Bare
  <2> QED BY <2>1, <2>2, SettingsBounds
<1> QED BY <1>1, <1>2

LEMMA ThingsType ==
  ASSUME NEW c \in Content \union {Absent}
  PROVE  Things(c) \subseteq Key \union Foreign \union {Odd}
<1>1. CASE c = Absent
  BY <1>1 DEF Things
<1>2. CASE c \in Content
  <2>1. c.keys \subseteq Key /\ c.sl \in Foreign \union Launcher \union {Odd, "none"}
    BY <1>2 DEF Content
  <2>2. Things(c) = c.keys \union ({c.sl} \ (Launcher \union {"none"}))
    BY <1>2, FreshIsContent DEF Things
  <2> QED BY <2>1, <2>2
<1> QED BY <1>1, <1>2

LEMMA EditedType ==
  ASSUME NEW c \in Content
  PROVE  /\ Edited(c) \subseteq Content
         /\ HooksOnce(c) => \A d \in Edited(c) : HooksOnce(d)
<1>1. ASSUME NEW k \in Key
      PROVE  /\ [c EXCEPT !.shape = "object", !.keys = @ \union {k}] \in Content
             /\ [c EXCEPT !.shape = "object", !.keys = @ \union {k}].warn = c.warn
  BY DEF Content
<1>2. ASSUME NEW f \in Foreign
      PROVE  /\ [c EXCEPT !.shape = "object", !.sl = f] \in Content
             /\ [c EXCEPT !.shape = "object", !.sl = f].warn = c.warn
  BY DEF Content
<1>3. [c EXCEPT !.shape = "other"] \in Content /\ [c EXCEPT !.shape = "other"].warn = c.warn
  BY DEF Content
<1>4. \A d \in Edited(c) : d \in Content /\ d.warn = c.warn
  BY <1>1, <1>2, <1>3 DEF Edited
<1> QED BY <1>4 DEF HooksOnce

LEMMA NothingType ==
  /\ NoJob \in Jobs /\ NoName \in BakName /\ NoPlan \in Plans
  /\ NoJob.plan.addHooks = {} /\ HooksOnce(NoJob.loaded)
BY FreshIsContent, SettingsBounds DEF NoJob, NoName, NoPlan, Jobs, Plans, BakName

LEMMA NamedType ==
  ASSUME NEW j \in Jobs, NEW n \in BakName
  PROVE  [j EXCEPT !.pid = 0, !.bak = n] \in Jobs
<1>1. 0 \in 0 .. MaxInits
  BY SettingsBounds
<1> QED BY <1>1 DEF Jobs

-----------------------------------------------------------------------------
(***************************************************************************)
(* Types.                                                                  *)
(***************************************************************************)
LEMMA TypeInit == Init => TypeInv
<1> SUFFICES ASSUME Init PROVE TypeInv
  OBVIOUS
<1>1. file \in Content \union {Absent} /\ (file # Absent => HooksOnce(file))
  BY FirstAssumption DEF Init, InitSettings
<1>2. job \in [Proc -> Jobs] /\ PlansFit /\ AllOnce
  BY <1>1, NothingType DEF Init, InitSettings, PlansFit, AllOnce
<1>3. theirs \subseteq Key \union Foreign \union {Odd}
  BY <1>1, ThingsType DEF Init, InitSettings
<1> QED BY <1>1, <1>2, <1>3, SettingsBounds DEF Init, InitSettings, TypeInv, SettingsTypeOK, Jobs, Plans

\* A process that ends leaves the types alone.
LEMMA TypeExit ==
  ASSUME TypeInv, NEW p \in Proc, Exit(p)
  PROVE  /\ job' \in [Proc -> Jobs] /\ PlansFit' /\ \A q \in Proc : HooksOnce(job'[q].loaded)
         /\ stale' \in [Proc -> BOOLEAN]
<1>1. job \in [Proc -> Jobs] /\ stale \in [Proc -> BOOLEAN]
  BY DEF TypeInv, SettingsTypeOK, Jobs, Plans
<1>2. \A q \in Proc : job'[q] \in {NoJob, job[q]}
  BY <1>1 DEF Exit
<1>3. PlansFit' /\ \A q \in Proc : HooksOnce(job'[q].loaded)
  BY <1>2, NothingType DEF TypeInv, PlansFit, AllOnce
<1> QED BY <1>1, <1>3, NothingType DEF Exit

LEMMA TypeNext == ASSUME TypeInv, SlotsType, SettingsNext PROVE TypeInv'
<1> USE SettingsBounds DEF disk, ghost
<1>1. /\ link \in BOOLEAN
      /\ file \in Content \union {Absent} /\ left \in Content \union {Absent}
      /\ baks \subseteq [name : BakName, content : Content]
      /\ skill \in {"absent", "there"}
      /\ job \in [Proc -> Jobs]
      /\ inits \in 0 .. MaxInits /\ changes \in 0 .. MaxChanges
      /\ stale \in [Proc -> BOOLEAN]
      /\ exposed \subseteq Key \union Foreign \union {Odd}
      /\ theirs \subseteq Key \union Foreign \union {Odd}
      /\ PlansFit
  BY DEF TypeInv, SettingsTypeOK, Jobs, Plans
<1>o. /\ file # Absent => HooksOnce(file)
      /\ \A p \in Proc : HooksOnce(job[p].loaded)
  BY DEF TypeInv, AllOnce
<1>t. ASSUME link' \in BOOLEAN,
             file' \in Content \union {Absent}, left' \in Content \union {Absent},
             baks' \subseteq [name : BakName, content : Content],
             skill' \in {"absent", "there"},
             job' \in [Proc -> Jobs],
             inits' \in 0 .. MaxInits, changes' \in 0 .. MaxChanges,
             stale' \in [Proc -> BOOLEAN],
             exposed' \subseteq Key \union Foreign \union {Odd},
             theirs' \subseteq Key \union Foreign \union {Odd},
             PlansFit',
             file' # Absent => HooksOnce(file'),
             \A p \in Proc : HooksOnce(job'[p].loaded)
      PROVE  TypeInv'
  <2>1. SettingsTypeOK'
    BY <1>t DEF SettingsTypeOK, Jobs, Plans
  <2>2. AllOnce'
    BY <1>t DEF AllOnce, HooksOnce
  <2> QED BY <1>t, <2>1, <2>2 DEF TypeInv
\* The jobs keep what they read and what they plan.
<1>k. ASSUME \A p \in Proc : job'[p].plan = job[p].plan /\ job'[p].loaded = job[p].loaded
      PROVE  PlansFit' /\ \A p \in Proc : HooksOnce(job'[p].loaded)
  BY <1>1, <1>o, <1>k DEF PlansFit, Bare, HooksOnce
<1>2. ASSUME NEW p \in Proc, Start(p) PROVE TypeInv'
  <2>1. job' \in [Proc -> Jobs] /\ inits' \in 0 .. MaxInits
    BY <1>1, <1>2 DEF Start, Jobs
  <2>2. \A q \in Proc : job'[q].plan = job[q].plan /\ job'[q].loaded = job[q].loaded
    BY <1>1, <1>2 DEF Start, Jobs
  <2> QED BY <1>1, <1>o, <1>2, <1>t, <1>k, <2>1, <2>2 DEF Start
<1>3. ASSUME NEW p \in Proc, CheckLink(p) \/ NoBackup(p) \/ SkillAbsent(p) PROVE TypeInv'
  <2>1. /\ UNCHANGED <<link, file, left, baks, skill, job, inits, changes, stale, exposed,
                       theirs>>
    BY <1>3 DEF CheckLink, NoBackup, SkillAbsent
  <2> QED BY <1>1, <1>o, <1>t, <1>k, <2>1
<1>4. ASSUME NEW p \in Proc,
             \/ Refuses(p) \/ OnlyShows(p) \/ CopyFails(p) \/ SkillThere(p)
             \/ InstallSkill(p) \/ GivesUp(p)
      PROVE  TypeInv'
  <2>1. /\ Exit(p) /\ skill' \in {skill, "there"}
        /\ UNCHANGED <<link, file, left, baks, inits, changes, exposed, theirs>>
    BY <1>4 DEF Refuses, OnlyShows, CopyFails, SkillThere, InstallSkill, GivesUp
  <2> QED BY <1>1, <1>o, <1>t, <2>1, TypeExit
<1>5. ASSUME NEW p \in Proc, NEW replace \in BOOLEAN, Loads(p, replace) PROVE TypeInv'
  <2> DEFINE pl == makePlan(loadSettings, replace, skill = "absent")
  <2>1. loadSettings \in Content /\ HooksOnce(loadSettings)
    BY <1>1, LoadedIsContent DEF TypeInv
  <2>2. pl \in Plans /\ \A e \in pl.addHooks : Bare(loadSettings, e)
    BY <2>1, PlanType
  <2>3. realTarget \in BOOLEAN
    BY <1>1 DEF realTarget
  <2> HIDE DEF pl
  <2>4. \/ job' = [job EXCEPT ![p].loaded = loadSettings, ![p].plan = pl,
                              ![p].replace = replace, ![p].behind = realTarget]
        \/ job' = [job EXCEPT ![p] = NoJob]
    BY <1>5 DEF Loads, pl
  <2>5. job' \in [Proc -> Jobs]
    BY <1>1, <2>1, <2>2, <2>3, <2>4, NothingType DEF Jobs
  <2>6. ASSUME NEW q \in Proc
        PROVE  (\A e \in job'[q].plan.addHooks : Bare(job'[q].loaded, e))
               /\ HooksOnce(job'[q].loaded)
    <3>1. \/ job'[q].plan = pl /\ job'[q].loaded = loadSettings
          \/ job'[q] = NoJob \/ job'[q] = job[q]
      BY <1>1, <2>4 DEF Jobs
    <3> QED BY <1>1, <1>o, <2>1, <2>2, <3>1, NothingType DEF PlansFit
  <2>7. PlansFit'
    BY <2>6 DEF PlansFit, Bare
  <2>8. stale' \in [Proc -> BOOLEAN]
    BY <1>1, <1>5 DEF Loads, DanglingSymlink
  <2>9. UNCHANGED <<link, file, left, baks, skill, inits, changes, exposed, theirs>>
    BY <1>5 DEF Loads
  <2> QED BY <1>1, <1>o, <1>t, <2>5, <2>6, <2>7, <2>8, <2>9
<1>6. ASSUME NEW p \in Proc, ChooseBackup(p) PROVE TypeInv'
  <2>1. now[p] \in 0 .. MaxClock /\ job[p] \in Jobs
    BY <1>1 DEF SlotsType
  <2>a. PICK n \in BakName : job' = [job EXCEPT ![p].pid = 0, ![p].bak = n]
    <3> DEFINE n == BakOf(p, IF InUse(BakOf(p, 0)) THEN job[p].pid ELSE 0)
    <3>1. n \in BakName
      BY <2>1 DEF BakName, Jobs, BakOf
    <3> QED BY <1>6, <3>1 DEF ChooseBackup
  <2>b. [job[p] EXCEPT !.pid = 0, !.bak = n] \in Jobs
    BY <2>1, NamedType
  <2>2. job' = [job EXCEPT ![p] = [job[p] EXCEPT !.pid = 0, !.bak = n]]
    BY <1>1, <2>a
  <2>c. [job[p] EXCEPT !.pid = 0, !.bak = n].plan = job[p].plan
        /\ [job[p] EXCEPT !.pid = 0, !.bak = n].loaded = job[p].loaded
    BY <2>1 DEF Jobs
  <2>d. \A q \in Proc : job'[q].plan = job[q].plan /\ job'[q].loaded = job[q].loaded
    BY <1>1, <2>2, <2>c
  <2>3. exposed' \subseteq Key \union Foreign \union {Odd}
    BY <1>1, <1>6, ThingsType DEF ChooseBackup
  <2>4. UNCHANGED <<link, file, left, baks, skill, inits, changes, stale, theirs>>
    BY <1>6 DEF ChooseBackup
  <2> QED BY <1>1, <1>o, <1>t, <1>k, <2>b, <2>2, <2>d, <2>3, <2>4
<1>7. ASSUME NEW p \in Proc, CopyBackup(p) PROVE TypeInv'
  <2>1. /\ job' \in [Proc -> Jobs]
        /\ \A q \in Proc : job'[q].plan = job[q].plan /\ job'[q].loaded = job[q].loaded
    BY <1>1, <1>7, NothingType DEF CopyBackup, Jobs
  <2>2. job[p].bak \in BakName /\ Target(p) \in Content
    BY <1>1, <1>7 DEF CopyBackup, Jobs, Target
  <2>3. [name |-> job[p].bak, content |-> Target(p)] \in [name : BakName, content : Content]
    BY <2>2
  <2>4. baks' \subseteq baks \union {[name |-> job[p].bak, content |-> Target(p)]}
    BY <1>7 DEF CopyBackup, Put
  <2>5. baks' \subseteq [name : BakName, content : Content]
    BY <1>1, <2>3, <2>4
  <2>6. UNCHANGED <<link, file, left, skill, inits, changes, stale, exposed, theirs>>
    BY <1>7 DEF CopyBackup
  <2> QED BY <1>1, <1>o, <1>t, <1>k, <2>1, <2>5, <2>6
<1>8. ASSUME NEW p \in Proc, Write(p) PROVE TypeInv'
  <2>1. /\ job[p] \in Jobs /\ HooksOnce(job[p].loaded)
        /\ \A e \in job[p].plan.addHooks : Bare(job[p].loaded, e)
    BY <1>1, <1>o DEF PlansFit
  <2>2. ASSUME NEW l \in Launcher
        PROVE  /\ applyPlan(job[p].loaded, job[p].plan, l) \in Content
               /\ HooksOnce(applyPlan(job[p].loaded, job[p].plan, l))
    BY <2>1, AppliedType, AppliedOnce DEF Jobs
  <2>3. PICK l \in Launcher :
          LET c == applyPlan(job[p].loaded, job[p].plan, l) IN
          IF job[p].behind /\ ~ link THEN left' = c /\ file' = file
          ELSE file' = c /\ left' = IF link /\ ~ job[p].behind THEN file ELSE left
    BY <1>8 DEF Write
  <2>4. /\ file' \in Content \union {Absent} /\ left' \in Content \union {Absent}
        /\ file' # Absent => HooksOnce(file')
    BY <1>1, <1>o, <2>2, <2>3
  <2>5. link' \in BOOLEAN
    BY <1>1, <1>8 DEF Write
  <2>6. job' \in [Proc -> Jobs] /\ \A q \in Proc : job'[q] \in {NoJob, job[q]}
    BY <1>1, <1>8, NothingType DEF Write
  <2>7. PlansFit' /\ \A q \in Proc : HooksOnce(job'[q].loaded)
    BY <1>1, <1>o, <2>6, NothingType DEF PlansFit, Bare
  <2>8. stale' \in [Proc -> BOOLEAN]
    BY <1>8 DEF Write, HasLooked, Between
  <2>9. UNCHANGED <<baks, skill, inits, changes, exposed, theirs>>
    BY <1>8 DEF Write
  <2> QED BY <1>1, <1>t, <2>4, <2>5, <2>6, <2>7, <2>8, <2>9
<1>9. CASE EditSettings
  <2> DEFINE c == IF file = Absent THEN Fresh ELSE file
  <2>a. c \in Content /\ HooksOnce(c)
    BY <1>1, <1>o, FreshIsContent
  <2>b. file' \in Edited(c)
    BY <1>9 DEF EditSettings
  <2>1. file' \in Content /\ HooksOnce(file')
    BY <2>a, <2>b, EditedType
  <2>2. Things(file') \subseteq Key \union Foreign \union {Odd}
    BY <2>1, ThingsType
  <2>3. stale' \in [Proc -> BOOLEAN]
    BY <1>9 DEF EditSettings, HasLooked, Between
  <2>4. /\ exposed' \subseteq Key \union Foreign \union {Odd}
        /\ theirs' \subseteq Key \union Foreign \union {Odd}
    BY <1>1, <1>9, <2>2 DEF EditSettings
  <2>5. UNCHANGED <<link, left, baks, skill, job, inits>> /\ changes' \in 0 .. MaxChanges
    BY <1>1, <1>9 DEF EditSettings
  <2> QED BY <1>1, <1>o, <1>t, <1>k, <2>1, <2>3, <2>4, <2>5
<1>10. CASE RemoveSettings
  <2>1. stale' \in [Proc -> BOOLEAN]
    BY <1>10 DEF RemoveSettings, HasLooked, Between
  <2>2. /\ UNCHANGED <<link, left, baks, skill, job, inits, exposed>> /\ file' = Absent
        /\ changes' \in 0 .. MaxChanges /\ theirs' \subseteq theirs
    BY <1>1, <1>10 DEF RemoveSettings
  <2> QED BY <1>1, <1>o, <1>t, <1>k, <2>1, <2>2
<1> QED BY <1>2, <1>3, <1>4, <1>5, <1>6, <1>7, <1>8, <1>9, <1>10 DEF SettingsNext

LEMMA TypeInvariant == Spec => [](SlotsType /\ TypeInv)
<1>1. Init => SlotsType /\ TypeInv
  BY TypeInit, SlotsInit DEF Init
<1>2. SlotsType /\ TypeInv /\ [Next]_vars => (SlotsType /\ TypeInv)'
  <2> SUFFICES ASSUME SlotsType, TypeInv, [Next]_vars PROVE SlotsType' /\ TypeInv'
    OBVIOUS
  <2>1. CASE UNCHANGED settings
    BY <2>1, StepSeen DEF settings, disk, ghost, TypeInv, SettingsTypeOK, PlansFit, Bare,
                         AllOnce, HooksOnce
  <2> QED BY <2>1, StepSeen, SeenByInit, TypeNext
<1> QED BY <1>1, <1>2, PTL DEF Spec

\* Every variable of init has its type, however many inits and edits overlap.
THEOREM SettingsTyped == Spec => []SettingsTypeOK
BY TypeInvariant, PTL DEF TypeInv

-----------------------------------------------------------------------------
(***************************************************************************)
(* A second init finds nothing to do.                                      *)
(***************************************************************************)
LEMMA NothingLeft ==
  ASSUME NEW c \in Content, NEW replace \in BOOLEAN, NEW l \in Ccpool
  PROVE  ~ settingsChanges(makePlan(applyPlan(c, makePlan(c, replace, FALSE), l),
                                    replace, FALSE))
<1> DEFINE pl == makePlan(c, replace, FALSE)
           done == applyPlan(c, pl, l)
<1>1. pl \in Plans /\ l \in Launcher
  BY PlanType, SettingsBounds
<1>2. pl.addHooks = {e \in Event : ~ warnWired(c, e)}
  BY DEF makePlan
<1>3. \A e \in Event : c.warn[e] \in [Launcher -> Nat]
  BY WarnType
<1>4. pl.addStatusline
        = \/ statuslineState(c) = "absent"
          \/ statuslineState(c) = "foreign" /\ replace /\ ~ ccstatuslineHost(c)
  BY DEF makePlan
<1>5. done.sl = IF pl.addStatusline THEN l ELSE c.sl
  BY DEF applyPlan, Content
<1> HIDE DEF pl
<1>6. ASSUME NEW e \in Event PROVE warnWired(done, e)
  <2>1. CASE e \in pl.addHooks
    <3>1. done.warn[e] = [c.warn[e] EXCEPT ![l] = @ + 1]
      BY <1>1, <2>1, AppliedHooks
    <3> HIDE DEF done
    <3>2. done.warn[e][l] > 0
      BY <1>1, <1>3, <3>1
    <3> QED BY <1>1, <3>2 DEF warnWired, ccpoolCmd
  <2>2. CASE e \notin pl.addHooks
    <3>1. done.warn[e] = IF e \in pl.addHooks THEN [c.warn[e] EXCEPT ![l] = @ + 1] ELSE c.warn[e]
      BY <1>1, AppliedHooks
    <3>2. warnWired(c, e)
      BY <1>2, <2>2
    <3> HIDE DEF done
    <3> QED BY <2>2, <3>1, <3>2 DEF warnWired
  <2> QED BY <2>1, <2>2
<1> HIDE DEF done
<1>7. makePlan(done, replace, FALSE).addStatusline
        = \/ statuslineState(done) = "absent"
          \/ statuslineState(done) = "foreign" /\ replace /\ ~ ccstatuslineHost(done)
  BY DEF makePlan
<1>8. ~ makePlan(done, replace, FALSE).addStatusline
  <2>1. CASE pl.addStatusline
    <3>1. done.sl \notin {"none", Odd} /\ ccpoolCmd(done.sl)
      BY <1>1, <1>5, <2>1, SettingsBounds DEF ccpoolCmd
    <3>2. statuslineState(done) = "ours"
      BY <3>1 DEF statuslineState
    <3> QED BY <1>7, <3>2
  <2>2. CASE ~ pl.addStatusline
    <3>1. done.sl = c.sl
      BY <1>5, <2>2
    <3>2. statuslineState(done) = statuslineState(c) /\ ccstatuslineHost(done) = ccstatuslineHost(c)
      BY <3>1 DEF statuslineState, ccstatuslineHost
    <3> QED BY <1>4, <1>7, <2>2, <3>2
  <2> QED BY <2>1, <2>2
<1>9. makePlan(done, replace, FALSE).addHooks = {}
  BY <1>6 DEF makePlan
<1> QED BY <1>8, <1>9 DEF settingsChanges, done, pl

\* No event ever has two hooks that init recognises, and a second init by a
\* launcher that it recognises changes nothing, whatever the settings are and
\* however they came about.
THEOREM SecondInitIsIdle == Spec => []InitIsIdempotent
<1>1. TypeInv => InitIsIdempotent
  BY NothingLeft DEF TypeInv, AllOnce, SettingsTypeOK, InitIsIdempotent, ccpoolCmd
<1> QED BY <1>1, TypeInvariant, PTL

-----------------------------------------------------------------------------
(***************************************************************************)
(* An init that nobody overtakes does what its plan says.                  *)
(***************************************************************************)

\* What p read, and planned from it, is what there is.
Current(p) ==
  /\ ~ DanglingSymlink
  /\ job[p].loaded = loadSettings /\ job[p].behind = realTarget
  /\ job[p].loaded.shape = "object"
  /\ job[p].plan.addStatusline
       = makePlan(job[p].loaded, job[p].replace, TRUE).addStatusline

PlansHold ==
  \A p \in Proc : ~ stale[p] =>
    /\ pc[p] = "load" => ~ DanglingSymlink
    /\ Between(p) => Current(p)

LEMMA PlansHoldInit == Init => PlansHold
BY DEF Init, InitSlots, InitSettings, PlansHold, Between

LEMMA PlansHoldNext ==
  ASSUME TypeInv, SlotsType, PlansHold, SettingsNext
  PROVE  PlansHold'
<1> USE DEF disk, ghost, PlansHold, Between, HasLooked
<1>1. /\ link \in BOOLEAN /\ file \in Content \union {Absent}
      /\ job \in [Proc -> Jobs] /\ stale \in [Proc -> BOOLEAN]
      /\ pc \in [Proc -> Labels]
  BY DEF TypeInv, SettingsTypeOK, SlotsType, Jobs, Plans
<1>2. \A p \in Proc : UNCHANGED <<link, file, job[p]>> /\ Current(p) => Current(p)'
  BY DEF Current, DanglingSymlink, loadSettings, realTarget
<1>3. ASSUME NEW p \in Proc, Start(p) \/ SkillAbsent(p) PROVE PlansHold'
  BY <1>1, <1>2, <1>3 DEF Start, SkillAbsent, Launch, Goto, DanglingSymlink
<1>4. ASSUME NEW p \in Proc, CheckLink(p) PROVE PlansHold'
  BY <1>1, <1>2, <1>4 DEF CheckLink, Goto, DanglingSymlink
<1>5. ASSUME NEW p \in Proc,
             \/ Refuses(p) \/ OnlyShows(p) \/ CopyFails(p) \/ SkillThere(p)
             \/ InstallSkill(p) \/ GivesUp(p)
      PROVE  PlansHold'
  <2>1. Exit(p) /\ UNCHANGED <<link, file>>
    BY <1>5 DEF Refuses, OnlyShows, CopyFails, SkillThere, InstallSkill, GivesUp
  <2> QED BY <1>1, <1>2, <2>1 DEF Exit, Leave, DanglingSymlink
<1>6. ASSUME NEW p \in Proc, NEW replace \in BOOLEAN, Loads(p, replace) PROVE PlansHold'
  <2> DEFINE pl == makePlan(loadSettings, replace, skill = "absent")
  <2>1. CASE ~ settingsChanges(pl)
    BY <1>1, <1>2, <1>6, <2>1 DEF Loads, Goto, DanglingSymlink
  <2>2. CASE settingsChanges(pl)
    <3>1. /\ job'[p].loaded = loadSettings /\ job'[p].plan = pl
          /\ job'[p].replace = replace /\ job'[p].behind = realTarget
          /\ \A q \in Proc \ {p} : job'[q] = job[q]
      BY <1>1, <1>6, <2>2 DEF Loads, Jobs
    <3>2. loadSettings \in Content /\ loadSettings.shape = "object"
      BY <1>6, LoadedIsContent DEF Loads, Unreadable, hooksUnmergeable, TypeInv, Content
    <3>3. ~ stale'[p] => ~ DanglingSymlink
      BY <1>1, <1>6 DEF Loads
    <3>4. pl.addStatusline = makePlan(loadSettings, replace, TRUE).addStatusline
      BY DEF makePlan
    <3> HIDE DEF pl
    <3>5. UNCHANGED <<link, file>>
      BY <1>6 DEF Loads
    <3>6. ~ stale'[p] => Current(p)'
      BY <3>1, <3>2, <3>3, <3>4, <3>5
         DEF Current, DanglingSymlink, loadSettings, realTarget, makePlan
    <3> QED BY <1>1, <1>2, <1>6, <2>2, <3>1, <3>6 DEF Loads, Goto, DanglingSymlink, pl
  <2> QED BY <2>1, <2>2
<1>7. ASSUME NEW p \in Proc, NoBackup(p) PROVE PlansHold'
  BY <1>1, <1>2, <1>7 DEF NoBackup, Goto, DanglingSymlink
<1>8. ASSUME NEW p \in Proc, ChooseBackup(p) \/ CopyBackup(p) PROVE PlansHold'
  <2>1. /\ job'[p].loaded = job[p].loaded /\ job'[p].plan = job[p].plan
        /\ job'[p].replace = job[p].replace /\ job'[p].behind = job[p].behind
        /\ \A q \in Proc \ {p} : job'[q] = job[q]
    BY <1>1, <1>8 DEF ChooseBackup, CopyBackup, Jobs
  <2>2. UNCHANGED <<link, file, stale>> /\ pc[p] \in {"backup", "copy"}
    BY <1>8 DEF ChooseBackup, CopyBackup
  <2>3. Current(p) => Current(p)'
    BY <2>1, <2>2 DEF Current, DanglingSymlink, loadSettings, realTarget, makePlan
  <2>4. pc' = [pc EXCEPT ![p] = IF pc[p] = "backup" THEN "copy" ELSE "write"]
    BY <1>8 DEF ChooseBackup, CopyBackup, Goto
  <2> QED BY <1>1, <1>2, <2>1, <2>2, <2>3, <2>4 DEF DanglingSymlink
<1>9. ASSUME NEW p \in Proc, Write(p) PROVE PlansHold'
  BY <1>1, <1>9 DEF Write, Goto
<1>10. CASE EditSettings
  BY <1>1, <1>10 DEF EditSettings, slots
<1>11. CASE RemoveSettings
  BY <1>1, <1>11 DEF RemoveSettings, slots
<1> QED BY <1>3, <1>4, <1>5, <1>6, <1>7, <1>8, <1>9, <1>10, <1>11 DEF SettingsNext

\* Where nothing stale is written only what the plan takes goes.
LEMMA WritesAsPlanned ==
  ASSUME TypeInv, NEW p \in Proc, Current(p), Write(p)
  PROVE  /\ link' = link
         /\ file # Absent => file.shape = "object"
         /\ Things(file) \ Things(file') \subseteq MayTake(p)
<1>1. /\ link \in BOOLEAN /\ file \in Content \union {Absent} /\ job[p] \in Jobs
  BY DEF TypeInv, SettingsTypeOK, Jobs, Plans
<1>2. link' = link
  BY <1>1 DEF Current, DanglingSymlink, realTarget, Write
<1>3. file # Absent => job[p].loaded = file /\ file.shape = "object"
  BY DEF Current, loadSettings
<1>4. CASE file = Absent
  BY <1>2, <1>4 DEF Things
<1>5. CASE file # Absent
  <2> DEFINE c == job[p].loaded
  <2>a. job[p].behind = link
    BY <1>1, <1>5 DEF Current, realTarget
  <2>b. PICK l \in Launcher : file' = applyPlan(c, job[p].plan, l)
    BY <1>1, <2>a DEF Write
  <2> DEFINE done == applyPlan(c, job[p].plan, l)
  <2>1. c \in Content /\ done \in Content
    BY <1>1, AppliedType DEF Jobs
  <2>2. file' = done
    BY <2>b
  <2>3. done.keys = c.keys /\ done.sl = IF job[p].plan.addStatusline THEN l ELSE c.sl
    BY <2>1 DEF applyPlan, Content
  <2>4. c.sl \in Foreign \union Launcher \union {Odd, "none"}
    BY <2>1 DEF Content
  <2>5. job[p].plan.addStatusline => c.sl \in {"none"} \union Launcher \union MayTake(p)
    BY <2>4 DEF Current, makePlan, statuslineState, ccstatuslineHost, MayTake
  <2>6. /\ Things(file) = c.keys \union ({c.sl} \ (Launcher \union {"none"}))
        /\ Things(file') = c.keys \union ({done.sl} \ (Launcher \union {"none"}))
    BY <1>3, <1>5, <2>1, <2>2, <2>3, FreshIsContent DEF Things
  <2>7. Things(file) \ Things(file') \subseteq MayTake(p)
    BY <2>3, <2>5, <2>6
  <2> QED BY <1>2, <1>3, <2>7
<1> QED BY <1>4, <1>5

\* The only step from the write to the skill is the write.
LEMMA WriteOnly ==
  ASSUME SlotsType, SettingsNext, NEW p \in Proc, pc[p] = "write", pc'[p] = "skill"
  PROVE  Write(p)
<1> USE DEF SlotsType, disk, ghost
<1>1. ASSUME NEW q \in Proc,
             \/ Start(q) \/ CheckLink(q) \/ Refuses(q) \/ OnlyShows(q) \/ NoBackup(q)
             \/ ChooseBackup(q) \/ CopyBackup(q) \/ CopyFails(q)
      PROVE  FALSE
  BY <1>1 DEF Start, CheckLink, Refuses, OnlyShows, NoBackup, ChooseBackup, CopyBackup,
              CopyFails, Exit, Launch, Goto, Leave, Idle
<1>2. ASSUME NEW q \in Proc, SkillAbsent(q) \/ SkillThere(q) \/ InstallSkill(q) \/ GivesUp(q)
      PROVE  FALSE
  BY <1>2 DEF SkillAbsent, SkillThere, InstallSkill, GivesUp, Exit, Goto, Leave
<1>3. ASSUME NEW q \in Proc, NEW replace \in BOOLEAN, Loads(q, replace) PROVE FALSE
  BY <1>3 DEF Loads, Goto
<1>4. ASSUME NEW q \in Proc, Write(q) PROVE q = p
  BY <1>4 DEF Write, Goto
<1>5. CASE EditSettings \/ RemoveSettings
  BY <1>5 DEF EditSettings, RemoveSettings, slots
<1> QED BY <1>1, <1>2, <1>3, <1>4, <1>5 DEF SettingsNext

\* An init that nobody overtakes takes away what it was asked to, leaves a file
\* that it cannot read alone, and a link a link.
THEOREM WritesOnlyAsPlanned == Spec => OnlyAsPlanned
<1>1. Init => PlansHold
  BY PlansHoldInit
<1>2. SlotsType /\ TypeInv /\ PlansHold /\ [Next]_vars => PlansHold'
  <2> SUFFICES ASSUME SlotsType, TypeInv, PlansHold, [Next]_vars PROVE PlansHold'
    OBVIOUS
  <2>1. CASE UNCHANGED settings /\ Spares(InitLabels)
    BY <2>1 DEF settings, disk, ghost, Spares, InitLabels, PlansHold, Between, Current,
                DanglingSymlink, loadSettings, realTarget, makePlan
  <2> QED BY <2>1, SeenByInit, PlansHoldNext
<1>3. SlotsType /\ TypeInv /\ PlansHold /\ [Next]_vars =>
        [\A p \in Proc :
           pc[p] = "write" /\ pc'[p] = "skill" /\ ~ stale[p] =>
             /\ link' = link
             /\ file # Absent => file.shape = "object"
             /\ Things(file) \ Things(file') \subseteq MayTake(p)]_<<slots, settings>>
  <2> SUFFICES ASSUME SlotsType, TypeInv, PlansHold, [Next]_vars,
                      NEW p \in Proc, pc[p] = "write", pc'[p] = "skill", ~ stale[p]
               PROVE  /\ link' = link
                      /\ file # Absent => file.shape = "object"
                      /\ Things(file) \ Things(file') \subseteq MayTake(p)
    OBVIOUS
  <2>1. Current(p)
    BY DEF PlansHold, Between
  <2>2. SettingsNext
    BY SeenByInit DEF Spares, InitLabels
  <2>3. Write(p)
    BY <2>2, WriteOnly
  <2> QED BY <2>1, <2>3, WritesAsPlanned
<1> QED BY <1>1, <1>2, <1>3, TypeInvariant, PTL DEF Spec, OnlyAsPlanned

-----------------------------------------------------------------------------
(***************************************************************************)
(* What others put into the settings survives, in them or in a backup.     *)
(***************************************************************************)
\* The backups that are going to be written, over one that has the name.
AtRisk == {job[p].bak : p \in {q \in Proc : pc[q] = "copy"}}

\* In a backup that nobody is going to replace.
Safe(x) == \E b \in baks : b.name \notin AtRisk /\ x \in Things(b.content)

Guarded == theirs \ exposed

SameName == \E p, q \in Proc : p # q /\ pc[p] = "copy" /\ pc[q] = "copy" /\ job[p].bak = job[q].bak

\* A pid is that of one process, and of no backup until this process takes it.
PidsDiffer ==
  /\ \A p \in Proc : job[p].pid <= inits /\ job[p].bak.pid <= inits
  /\ \A b \in baks : b.name.pid <= inits
  /\ \A p \in Proc : pc[p] \in {"check", "load", "backup"} => job[p].pid # 0
  /\ \A p \in Proc : job[p].pid # 0 =>
       /\ \A q \in Proc \ {p} : job[q].pid # job[p].pid
       /\ \A q \in Proc : job[q].bak.pid # job[p].pid
       /\ \A b \in baks : b.name.pid # job[p].pid

\* It writes over the settings, and not behind a link that is gone by now.
Overwrites(p) == pc[p] = "write" /\ (job[p].behind => link)

\* Who writes over the settings has everything in a backup, and who writes a
\* backup twice loses nothing by it.
SurviveInv ==
  /\ \A x \in Guarded : x \in Things(file) \/ Safe(x)
  /\ (\E p \in Proc : Overwrites(p)) \/ SameName => \A x \in Guarded : Safe(x)

LEMMA Typed ==
  ASSUME TypeInv
  PROVE  /\ job \in [Proc -> Jobs] /\ link \in BOOLEAN
         /\ baks \subseteq [name : BakName, content : Content]
         /\ inits \in 0 .. MaxInits
BY DEF TypeInv, SettingsTypeOK, Jobs, Plans

-----------------------------------------------------------------------------
(***************************************************************************)
(* Names.                                                                  *)
(***************************************************************************)
LEMMA PidsInit == Init => PidsDiffer
BY DEF Init, InitSlots, InitSettings, NoJob, NoName, PidsDiffer

\* A step that gives no process a pid or a backup's name.
LEMMA PidsKept ==
  ASSUME TypeInv, PidsDiffer, UNCHANGED <<baks, inits>>,
         \A p \in Proc :
           /\ job'[p].pid \in {0, job[p].pid}
           /\ job'[p].bak.pid \in {0, job[p].bak.pid}
           /\ pc'[p] \in {"check", "load", "backup"} => job'[p].pid # 0
  PROVE  PidsDiffer'
<1>1. \A p \in Proc : job[p].pid \in Nat /\ job[p].bak.pid \in Nat
  BY Typed, SettingsBounds DEF Jobs, BakName
<1>2. inits \in Nat
  BY Typed, SettingsBounds
<1> QED BY <1>1, <1>2 DEF PidsDiffer

LEMMA PidsNext ==
  ASSUME TypeInv, SlotsType, PidsDiffer, SettingsNext
  PROVE  PidsDiffer'
<1> USE DEF disk, ghost
<1>1. /\ job \in [Proc -> Jobs] /\ pc \in [Proc -> Labels]
      /\ baks \subseteq [name : BakName, content : Content] /\ inits \in Nat
  BY Typed, SettingsBounds DEF SlotsType
<1>2. \A p \in Proc : job[p].pid \in Nat /\ job[p].bak \in BakName /\ job[p].bak.pid \in Nat
  BY <1>1, SettingsBounds DEF Jobs, BakName
<1>3. NoJob.pid = 0 /\ NoJob.bak.pid = 0 /\ NoName.pid = 0
  BY DEF NoJob, NoName
<1>4. ASSUME NEW p \in Proc, Start(p) PROVE PidsDiffer'
  <2>1. /\ job'[p].pid = inits + 1 /\ job'[p].bak = job[p].bak
        /\ \A q \in Proc \ {p} : job'[q] = job[q]
    BY <1>1, <1>4 DEF Start, Jobs
  <2>2. inits' = inits + 1 /\ baks' = baks
    BY <1>4 DEF Start
  <2>3. \A q \in Proc \ {p} : pc'[q] = pc[q]
    BY <1>1, <1>4 DEF Start, Launch
  <2>4. \A b \in baks : b.name.pid \in Nat
    BY <1>1, SettingsBounds DEF BakName
  <2> QED BY <1>1, <1>2, <2>1, <2>2, <2>3, <2>4 DEF PidsDiffer
<1>5. ASSUME NEW p \in Proc, CheckLink(p) \/ NoBackup(p) \/ SkillAbsent(p) PROVE PidsDiffer'
  <2>1. UNCHANGED <<baks, inits, job>>
    BY <1>5 DEF CheckLink, NoBackup, SkillAbsent
  <2>2. \A q \in Proc : pc'[q] \in {"check", "load", "backup"} => job[q].pid # 0
    BY <1>1, <1>5 DEF CheckLink, NoBackup, SkillAbsent, Goto, PidsDiffer
  <2> QED BY <2>1, <2>2, PidsKept
<1>6. ASSUME NEW p \in Proc,
             \/ Refuses(p) \/ OnlyShows(p) \/ CopyFails(p) \/ SkillThere(p)
             \/ InstallSkill(p) \/ GivesUp(p)
      PROVE  PidsDiffer'
  <2>1. Exit(p) /\ UNCHANGED <<baks, inits>>
    BY <1>6 DEF Refuses, OnlyShows, CopyFails, SkillThere, InstallSkill, GivesUp
  <2>2. \A q \in Proc : job'[q] \in {NoJob, job[q]}
    BY <1>1, <2>1 DEF Exit
  <2>3. \A q \in Proc : pc'[q] \in {"check", "load", "backup"} => job'[q].pid # 0
    BY <1>1, <2>1 DEF Exit, Leave, PidsDiffer
  <2> QED BY <1>3, <2>1, <2>2, <2>3, PidsKept
<1>7. ASSUME NEW p \in Proc, NEW replace \in BOOLEAN, Loads(p, replace) PROVE PidsDiffer'
  <2> DEFINE pl == makePlan(loadSettings, replace, skill = "absent")
  <2> HIDE DEF pl
  <2>1. UNCHANGED <<baks, inits>> /\ pc[p] = "load"
    BY <1>7 DEF Loads
  <2>2. CASE settingsChanges(pl)
    <3>1. /\ \A q \in Proc : job'[q].pid = job[q].pid /\ job'[q].bak = job[q].bak
          /\ pc' = [pc EXCEPT ![p] = "backup"]
      BY <1>1, <1>7, <2>2 DEF Loads, Goto, Jobs, pl
    <3> QED BY <1>1, <2>1, <3>1, PidsKept DEF PidsDiffer
  <2>3. CASE ~ settingsChanges(pl)
    <3>1. job' = [job EXCEPT ![p] = NoJob] /\ pc' = [pc EXCEPT ![p] = "skill"]
      BY <1>7, <2>3 DEF Loads, Goto, pl
    <3> QED BY <1>1, <1>3, <2>1, <3>1, PidsKept DEF PidsDiffer
  <2> QED BY <2>2, <2>3
<1>8. ASSUME NEW p \in Proc, ChooseBackup(p) PROVE PidsDiffer'
  <2>1. /\ job'[p].pid = 0 /\ job'[p].bak.pid \in {0, job[p].pid}
        /\ \A q \in Proc \ {p} : job'[q] = job[q]
    BY <1>1, <1>8 DEF ChooseBackup, Jobs, BakOf
  <2>2. UNCHANGED <<baks, inits>> /\ pc' = [pc EXCEPT ![p] = "copy"]
    BY <1>8 DEF ChooseBackup, Goto
  <2> QED BY <1>1, <1>2, <2>1, <2>2 DEF PidsDiffer
<1>9. ASSUME NEW p \in Proc, CopyBackup(p) PROVE PidsDiffer'
  <2>1. /\ job'[p].pid = job[p].pid /\ job'[p].bak.pid = 0
        /\ \A q \in Proc \ {p} : job'[q] = job[q]
    BY <1>1, <1>3, <1>9 DEF CopyBackup, Jobs
  <2>2. inits' = inits /\ pc' = [pc EXCEPT ![p] = "write"]
    BY <1>9 DEF CopyBackup, Goto
  <2>3. \A b \in baks' : b \in baks \/ b.name = job[p].bak
    BY <1>9 DEF CopyBackup, Put
  <2> QED BY <1>1, <1>2, <2>1, <2>2, <2>3 DEF PidsDiffer
<1>10. ASSUME NEW p \in Proc, Write(p) PROVE PidsDiffer'
  <2>1. UNCHANGED <<baks, inits>> /\ job' = [job EXCEPT ![p] = NoJob]
        /\ pc' = [pc EXCEPT ![p] = "skill"]
    BY <1>10 DEF Write, Goto
  <2> QED BY <1>1, <1>3, <2>1, PidsKept DEF PidsDiffer
<1>11. CASE EditSettings \/ RemoveSettings
  BY <1>11 DEF EditSettings, RemoveSettings, slots, PidsDiffer
<1> QED BY <1>4, <1>5, <1>6, <1>7, <1>8, <1>9, <1>10, <1>11 DEF SettingsNext

-----------------------------------------------------------------------------
(***************************************************************************)
(* What others put there.                                                  *)
(***************************************************************************)
LEMMA SurviveInit == Init => SurviveInv
BY DEF Init, InitSlots, InitSettings, SurviveInv, Guarded, SameName, Overwrites

\* What is safe stays so while its backup stays and nobody chooses its name.
LEMMA SafeStays ==
  ASSUME \A b \in baks : b.name \notin AtRisk => b \in baks' /\ b.name \notin AtRisk',
         NEW x, Safe(x)
  PROVE  Safe(x)'
BY DEF Safe

\* A step that only takes processes away from the copy and the write.
LEMMA SurviveKept ==
  ASSUME SurviveInv, UNCHANGED <<link, file, baks, exposed, theirs>>,
         \A p \in Proc :
           /\ pc'[p] = "copy" => pc[p] = "copy" /\ job'[p].bak = job[p].bak
           /\ pc'[p] = "write" => pc[p] = "write" /\ job'[p].behind = job[p].behind
  PROVE  SurviveInv'
<1>1. AtRisk' \subseteq AtRisk
  BY DEF AtRisk
<1>2. \A x : Safe(x) => Safe(x)'
  BY <1>1 DEF Safe
<1>3. Guarded' = Guarded /\ Things(file)' = Things(file)
  BY DEF Guarded, Things
<1>4. SameName' => SameName
  BY DEF SameName
<1>5. \A p \in Proc : Overwrites(p)' => Overwrites(p)
  BY DEF Overwrites
<1> QED BY <1>2, <1>3, <1>4, <1>5 DEF SurviveInv

LEMMA SurviveNext ==
  ASSUME TypeInv, SlotsType, PidsDiffer, SurviveInv, SettingsNext
  PROVE  SurviveInv'
<1> USE DEF disk, ghost
<1>1. /\ job \in [Proc -> Jobs] /\ pc \in [Proc -> Labels]
      /\ baks \subseteq [name : BakName, content : Content]
  BY Typed DEF SlotsType
<1>2. ASSUME NEW p \in Proc, Start(p) PROVE SurviveInv'
  BY <1>1, <1>2, SurviveKept DEF Start, Launch, Jobs
<1>3. ASSUME NEW p \in Proc, CheckLink(p) \/ SkillAbsent(p) PROVE SurviveInv'
  BY <1>1, <1>3, SurviveKept DEF CheckLink, SkillAbsent, Goto
<1>4. ASSUME NEW p \in Proc,
             \/ Refuses(p) \/ OnlyShows(p) \/ CopyFails(p) \/ SkillThere(p)
             \/ InstallSkill(p) \/ GivesUp(p)
      PROVE  SurviveInv'
  <2>1. Exit(p) /\ UNCHANGED <<link, file, baks, exposed, theirs>>
    BY <1>4 DEF Refuses, OnlyShows, CopyFails, SkillThere, InstallSkill, GivesUp
  <2> QED BY <1>1, <2>1, SurviveKept DEF Exit, Leave
<1>5. ASSUME NEW p \in Proc, NEW replace \in BOOLEAN, Loads(p, replace) PROVE SurviveInv'
  <2>1. /\ UNCHANGED <<link, file, baks, exposed, theirs>>
        /\ \A q \in Proc \ {p} : job'[q] = job[q] /\ pc'[q] = pc[q]
        /\ pc'[p] \in {"backup", "skill"}
    BY <1>1, <1>5 DEF Loads, Goto
  <2> QED BY <2>1, SurviveKept
<1>6. ASSUME NEW p \in Proc, NoBackup(p) PROVE SurviveInv'
  <2>1. /\ UNCHANGED <<link, file, baks, job, exposed, theirs>> /\ Target(p) = Absent
        /\ pc' = [pc EXCEPT ![p] = "write"] /\ pc[p] = "backup"
    BY <1>6 DEF NoBackup, Goto
  <2>2. (job[p].behind => link) => \A x \in Guarded : Safe(x)
    BY <2>1 DEF SurviveInv, Things, Target
  <2>3. AtRisk' \subseteq AtRisk
    BY <1>1, <2>1 DEF AtRisk
  <2>4. \A x : Safe(x) => Safe(x)'
    BY <2>1, <2>3 DEF Safe
  <2>5. Guarded' = Guarded /\ Things(file)' = Things(file)
    BY <2>1 DEF Guarded, Things
  <2>6. (\E q \in Proc : Overwrites(q)') => \A x \in Guarded : Safe(x)
    BY <1>1, <2>1, <2>2 DEF SurviveInv, Overwrites
  <2>7. SameName' => SameName
    BY <1>1, <2>1 DEF SameName
  <2> QED BY <2>4, <2>5, <2>6, <2>7 DEF SurviveInv
<1>7. ASSUME NEW p \in Proc, ChooseBackup(p) PROVE SurviveInv'
  <2> DEFINE n == job'[p].bak
  <2>1. /\ UNCHANGED <<link, file, baks, theirs>> /\ pc' = [pc EXCEPT ![p] = "copy"]
        /\ pc[p] = "backup" /\ exposed \subseteq exposed'
        /\ \A q \in Proc \ {p} : job'[q] = job[q]
    BY <1>1, <1>7 DEF ChooseBackup, Goto
  <2>2. n = BakOf(p, IF InUse(BakOf(p, 0)) THEN job[p].pid ELSE 0)
    BY <1>1, <1>7 DEF ChooseBackup, Jobs
  <2>3. ~ InUse(n)
    <3>1. job[p].pid # 0 /\ \A b \in baks : b.name.pid # job[p].pid
      BY <2>1 DEF PidsDiffer
    <3>2. BakOf(p, job[p].pid).pid = job[p].pid
      BY DEF BakOf
    <3> HIDE DEF n
    <3> QED BY <2>2, <3>1, <3>2 DEF InUse
  <2> HIDE DEF n
  <2>4. AtRisk' \subseteq AtRisk \union {n}
    BY <1>1, <2>1 DEF AtRisk, n
  <2>5. \A x : Safe(x) => Safe(x)'
    BY <2>1, <2>3, <2>4 DEF Safe, InUse
  <2>6. Guarded' \subseteq Guarded /\ Things(file)' = Things(file)
    BY <2>1 DEF Guarded, Things
  <2>7. ASSUME SameName' PROVE \A x \in Guarded' : Safe(x)
    <3>1. CASE SameName
      BY <2>6, <3>1 DEF SurviveInv
    <3>2. CASE \E q \in Proc \ {p} : pc[q] = "copy" /\ job[q].bak = n
      <4>1. exposed' = exposed \union Things(file)
        BY <1>7, <3>2 DEF ChooseBackup, n
      <4> QED BY <2>1, <2>6, <4>1 DEF SurviveInv, Guarded
    <3> QED BY <1>1, <2>1, <2>7, <3>1, <3>2 DEF SameName, n
  <2>8. (\E q \in Proc : Overwrites(q)') => \A x \in Guarded' : Safe(x)
    BY <1>1, <2>1, <2>6 DEF SurviveInv, Overwrites
  <2> QED BY <2>5, <2>6, <2>7, <2>8 DEF SurviveInv
<1>8. ASSUME NEW p \in Proc, CopyBackup(p) PROVE SurviveInv'
  <2> DEFINE n == job[p].bak
  <2>1. /\ UNCHANGED <<link, file, exposed, theirs>> /\ pc' = [pc EXCEPT ![p] = "write"]
        /\ pc[p] = "copy"
        /\ baks' = {b \in baks : b.name # n} \union {[name |-> n, content |-> Target(p)]}
        /\ \A q \in Proc \ {p} : job'[q] = job[q]
        /\ job'[p].behind = job[p].behind
    BY <1>1, <1>8 DEF CopyBackup, Put, Goto, Jobs
  <2>2. Guarded' = Guarded /\ n \in AtRisk /\ Things(file)' = Things(file)
    BY <2>1 DEF Guarded, AtRisk, Things
  <2> HIDE DEF n
  <2>3. AtRisk' \subseteq AtRisk
    BY <1>1, <2>1 DEF AtRisk
  <2>4. \A x : Safe(x) => Safe(x)'
    BY <2>1, <2>2, <2>3 DEF Safe
  <2>5. ASSUME job[p].behind => link, NEW x \in Guarded, x \in Things(file) PROVE Safe(x)'
    <3>0. Target(p) = file
      BY <2>5 DEF Target
    <3>1. CASE n \in AtRisk'
      <4>1. SameName
        BY <1>1, <2>1, <3>1 DEF AtRisk, SameName, n
      <4> QED BY <2>4, <2>5, <4>1 DEF SurviveInv
    <3>2. CASE n \notin AtRisk'
      <4> DEFINE b == [name |-> n, content |-> file]
      <4>1. b \in baks' /\ b.name = n /\ b.content = file
        BY <2>1, <3>0
      <4> HIDE DEF b
      <4>2. x \in Things(b.content)
        BY <2>5, <4>1
      <4> QED BY <3>2, <4>1, <4>2 DEF Safe, Things
    <3> QED BY <3>1, <3>2
  <2>6. (job[p].behind => link) => \A x \in Guarded : Safe(x)'
    BY <2>4, <2>5 DEF SurviveInv
  <2>7. (\E q \in Proc \ {p} : Overwrites(q)') \/ SameName' => \A x \in Guarded : Safe(x)
    BY <1>1, <2>1 DEF SurviveInv, Overwrites, SameName
  <2>8. Overwrites(p)' => (job[p].behind => link)
    BY <2>1 DEF Overwrites
  <2> QED BY <2>2, <2>4, <2>6, <2>7, <2>8 DEF SurviveInv
<1>9. ASSUME NEW p \in Proc, Write(p) PROVE SurviveInv'
  <2>1. /\ UNCHANGED <<baks, exposed, theirs>> /\ pc[p] = "write"
        /\ pc' = [pc EXCEPT ![p] = "skill"]
        /\ \A q \in Proc \ {p} : job'[q] = job[q]
    BY <1>1, <1>9 DEF Write, Goto
  <2>2. CASE job[p].behind => link
    <3>1. AtRisk' \subseteq AtRisk
      BY <1>1, <2>1 DEF AtRisk
    <3>2. \A x \in Guarded : Safe(x)'
      BY <2>1, <2>2, <3>1 DEF SurviveInv, Safe, Overwrites
    <3>3. Guarded' = Guarded
      BY <2>1 DEF Guarded
    <3> QED BY <3>2, <3>3 DEF SurviveInv
  <2>3. CASE job[p].behind /\ ~ link
    <3>1. UNCHANGED <<link, file>>
      BY <1>9, <2>3, Typed DEF Write
    <3> QED BY <1>1, <2>1, <3>1, SurviveKept
  <2> QED BY <2>2, <2>3
<1>10. CASE EditSettings
  <2>1. /\ UNCHANGED <<pc, link, baks, job>>
        /\ exposed' = IF TooLate THEN exposed \union (Things(file') \ theirs) ELSE exposed
        /\ theirs' = (theirs \ Things(file)) \union Things(file')
    BY <1>10 DEF EditSettings, slots
  <2>2. \A x : Safe(x) <=> Safe(x)'
    BY <2>1 DEF Safe, AtRisk
  <2>3. Things(file)' = Things(file')
    BY DEF Things
  <2>4. \A x \in Guarded' : x \in Things(file') \/ Safe(x)
    BY <2>1 DEF Guarded, SurviveInv
  <2>5. ASSUME (\E p \in Proc : Overwrites(p)) \/ SameName
        PROVE  \A x \in Guarded' : Safe(x)
    <3>1. TooLate
      BY <2>5 DEF TooLate, SameName, Between, Overwrites
    <3>2. Guarded' \subseteq Guarded
      BY <2>1, <3>1 DEF Guarded
    <3> QED BY <2>5, <3>2 DEF SurviveInv
  <2>6. (SameName' <=> SameName) /\ \A p \in Proc : (Overwrites(p)' <=> Overwrites(p))
    BY <2>1 DEF SameName, Overwrites
  <2> QED BY <2>2, <2>3, <2>4, <2>5, <2>6 DEF SurviveInv
<1>11. CASE RemoveSettings
  <2>1. UNCHANGED <<pc, baks, job, exposed>> /\ theirs' = theirs \ Things(file)
    BY <1>11 DEF RemoveSettings, slots
  <2>2. \A x \in Guarded' : Safe(x)
    BY <2>1 DEF Guarded, SurviveInv
  <2>3. \A x : Safe(x) <=> Safe(x)'
    BY <2>1 DEF Safe, AtRisk
  <2> QED BY <2>2, <2>3 DEF SurviveInv
<1> QED BY <1>2, <1>3, <1>4, <1>5, <1>6, <1>7, <1>8, <1>9, <1>10, <1>11 DEF SettingsNext

\* What others put into the settings and left there is still in them or in a
\* backup, but for the changes that came too late for one.
THEOREM SettingsSurvive == Spec => []TheirsSurvive
<1>1. Init => PidsDiffer /\ SurviveInv
  BY PidsInit, SurviveInit
<1>2. SlotsType /\ TypeInv /\ PidsDiffer /\ SurviveInv /\ [Next]_vars
        => PidsDiffer' /\ SurviveInv'
  <2> SUFFICES ASSUME SlotsType, TypeInv, PidsDiffer, SurviveInv, [Next]_vars
               PROVE  PidsDiffer' /\ SurviveInv'
    OBVIOUS
  <2>1. CASE UNCHANGED settings /\ Spares(InitLabels)
    <3>1. UNCHANGED <<link, file, baks, exposed, theirs, job, inits>>
      BY <2>1 DEF settings, disk, ghost
    <3>2. \A p \in Proc : \A l \in {"check", "load", "backup", "copy", "write"} :
            pc'[p] = l => pc[p] = l
      BY <2>1 DEF Spares, InitLabels
    <3>3. PidsDiffer'
      BY <3>1, <3>2, PidsKept DEF PidsDiffer
    <3>4. SurviveInv'
      BY <3>1, <3>2, SurviveKept
    <3> QED BY <3>3, <3>4
  <2> QED BY <2>1, SeenByInit, PidsNext, SurviveNext
<1>3. SurviveInv => TheirsSurvive
  BY DEF SurviveInv, TheirsSurvive, Guarded, Safe
<1> QED BY <1>1, <1>2, <1>3, TypeInvariant, PTL DEF Spec

=============================================================================
