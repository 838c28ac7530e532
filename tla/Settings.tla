------------------------------ MODULE Settings ------------------------------
(***************************************************************************)
(* ccpool init: it adds its statusline and its warn hooks to the settings  *)
(* of Claude Code, beside Claude Code, the user and other inits that write *)
(* the same file, and installs the bundled skill.                          *)
(*                                                                         *)
(*   internal/initcmd/init.go                                              *)
(*                                                                         *)
(* Contents are told apart by what init looks at or may destroy: what the  *)
(* file is, the keys and hooks of others (Key), the command of statusLine, *)
(* and how often each event has the warn hook of each launcher.  A command *)
(* of ccpool stands for the launcher in it, the path that ccpool was run   *)
(* under: init knows a command again by that path alone.                   *)
(***************************************************************************)
EXTENDS Slots

CONSTANTS
  Event,      \* warnEvents
  Key,        \* keys and hooks that are not ccpool's
  Foreign,    \* commands of other statuslines
  Host,       \* those of ccstatusline
  Odd,        \* a statusLine that has no command string
  Launcher,   \* the paths that ccpool may be run under
  Ccpool,     \* those of them that contain "ccpool"
  First,      \* what the settings may be at first
  MaxInits,   \* bound on the inits launched
  MaxChanges  \* bound on what others do to the settings

ASSUME SettingsAssumption ==
  /\ Host \subseteq Foreign /\ Odd \notin Foreign
  /\ (Foreign \union {Odd}) \cap (Key \union Launcher \union {"none"}) = {}
  /\ Ccpool \subseteq Launcher /\ "none" \notin Launcher
  /\ {MaxClock, MaxInits, MaxChanges} \subseteq Nat

\* shape: a JSON object; something else; an object whose hooks cannot be
\* merged into.
Content == [shape : {"object", "other", "badHooks"}, keys : SUBSET Key,
            sl : Foreign \union Launcher \union {Odd, "none"},
            warn : [Event -> [Launcher -> Nat]]]
Absent == [shape |-> "absent"]

\* No event has two hooks that init recognises, of one launcher or of two.
HooksOnce(c) ==
  \A e \in Event : \A l, m \in Ccpool :
    /\ c.warn[e][l] <= 1
    /\ l # m => c.warn[e][l] = 0 \/ c.warn[e][m] = 0

ASSUME FirstAssumption ==
  /\ First \subseteq Content \union {Absent}
  /\ \A c \in First \ {Absent} : HooksOnce(c)

VARIABLES
  link,     \* the settings path is a symlink
  file,     \* what it resolves to
  left,     \* once the link is gone, what it resolved to
  baks,     \* the backups: names and contents
  skill,    \* SKILL.md: absent or there
  job,      \* locals of each init, from their first use to their last
  inits,    \* inits launched: the last one's pid
  changes,  \* what others did so far
  \* ghosts
  stale,    \* the settings changed since this init read them
  exposed,  \* changes of others that came too late for a backup
  theirs    \* what others put into the settings and did not remove

disk  == <<link, file, left, baks, skill>>
ghost == <<stale, exposed, theirs>>
settings == <<disk, job, inits, changes, ghost>>

\* <settings.json>.bak.<now>, and .<pid> behind it (0: without), beside the
\* target behind the link or beside the name itself.
BakName == [behind : BOOLEAN, at : 0 .. MaxClock, pid : 0 .. MaxInits]
InUse(n) == \E b \in baks : b.name = n

-----------------------------------------------------------------------------
(***************************************************************************)
(* Detection, plan and its application.                                    *)
(***************************************************************************)
Fresh == [shape |-> "object", keys |-> {}, sl |-> "none",
          warn |-> [e \in Event |-> [l \in Launcher |-> 0]]]

\* The command contains "ccpool"; that it has the verb is the launcher's doing.
ccpoolCmd(cmd) == cmd \in Ccpool

\* Mutant: only a second hook counts.
Mutant_warnWired(c, e) == \E l \in Launcher : c.warn[e][l] > 1 /\ ccpoolCmd(l)

warnWired(c, e) == \E l \in Launcher : c.warn[e][l] > 0 /\ ccpoolCmd(l)

\* A statusLine whose command is not a string counts as none.
statuslineState(c) == IF c.sl \in {"none", Odd} THEN "absent"
                      ELSE IF ccpoolCmd(c.sl) THEN "ours" ELSE "foreign"

ccstatuslineHost(c) == c.sl \in Host

\* Mutant: a ccstatusline host is replaced like any other.
Mutant_makePlan(c, replace, skillAbsent) ==
  [addStatusline |-> \/ statuslineState(c) = "absent"
                     \/ statuslineState(c) = "foreign" /\ replace,
   addHooks |-> {e \in Event : ~ warnWired(c, e)},
   skill |-> skillAbsent]

makePlan(c, replace, skillAbsent) ==
  [addStatusline |-> \/ statuslineState(c) = "absent"
                     \/ statuslineState(c) = "foreign" /\ replace /\ ~ ccstatuslineHost(c),
   addHooks |-> {e \in Event : ~ warnWired(c, e)},
   skill |-> skillAbsent]

settingsChanges(pl) == pl.addStatusline \/ pl.addHooks # {}
Changes(pl) == settingsChanges(pl) \/ pl.skill

\* The statusline and the hooks of the launcher l.
applyPlan(c, pl, l) ==
  [c EXCEPT !.sl = IF pl.addStatusline THEN l ELSE @,
            !.warn = [e \in Event |->
               IF e \in pl.addHooks THEN [c.warn[e] EXCEPT ![l] = @ + 1] ELSE c.warn[e]]]

hooksUnmergeable(c) == c.shape = "badHooks"

\* What decodeOrdered does not turn into an object.
Unreadable(c) == c.shape = "other"

DanglingSymlink == link /\ file = Absent

\* The target is behind the link: what has no target is a fresh install, to be
\* written under the name itself.
realTarget == link /\ file # Absent

loadSettings == IF file = Absent THEN Fresh ELSE file

\* What others have in a content that init must not lose.
Things(c) ==
  IF c = Absent THEN {} ELSE c.keys \union ({c.sl} \ (Launcher \union {"none"}))

-----------------------------------------------------------------------------
NoPlan == [addStatusline |-> FALSE, addHooks |-> {}, skill |-> FALSE]
NoName == [behind |-> FALSE, at |-> 0, pid |-> 0]
NoJob  == [replace |-> FALSE, pid |-> 0, behind |-> FALSE,
           loaded |-> Fresh, plan |-> NoPlan, bak |-> NoName]

InitSettings ==
  /\ link \in BOOLEAN
  /\ file \in First
  /\ left = Absent
  /\ baks = {}
  /\ skill = "absent"
  /\ job = [p \in Proc |-> NoJob]
  /\ inits = 0 /\ changes = 0
  /\ stale = [p \in Proc |-> FALSE]
  /\ exposed = {}
  /\ theirs = Things(file)

Between(p) == pc[p] \in {"backup", "copy", "write"}

\* What p has seen of the settings or of the link may be outdated.
HasLooked(p) == pc[p] = "load" \/ Between(p)

Exit(p) ==
  /\ Leave(p)
  /\ job' = [job EXCEPT ![p] = NoJob]
  /\ stale' = [stale EXCEPT ![p] = FALSE]

Start(p) ==
  /\ inits < MaxInits
  /\ Launch(p, "check")
  /\ inits' = inits + 1
  /\ job' = [job EXCEPT ![p].pid = inits + 1]
  /\ UNCHANGED <<disk, changes, ghost>>

\* danglingSymlink comes before everything else.
CheckLink(p) ==
  /\ pc[p] = "check"
  /\ ~ DanglingSymlink
  /\ Goto(p, "load")
  /\ UNCHANGED <<disk, job, inits, changes, ghost>>

\* A dangling link, a file that is no object, hooks that cannot be merged.
Refuses(p) ==
  /\ \/ pc[p] = "check" /\ DanglingSymlink
     \/ pc[p] = "load" /\ (Unreadable(loadSettings) \/ hooksUnmergeable(loadSettings))
  /\ Exit(p)
  /\ UNCHANGED <<disk, inits, changes, exposed, theirs>>

\* The plan, with --apply.
Loads(p, replace) ==
  LET c == loadSettings
      pl == makePlan(c, replace, skill = "absent")
  IN /\ pc[p] = "load"
     /\ ~ Unreadable(c) /\ ~ hooksUnmergeable(c)
     /\ Changes(pl)
     /\ job' = IF settingsChanges(pl)
               THEN [job EXCEPT ![p].loaded = c, ![p].plan = pl, ![p].replace = replace,
                                ![p].behind = realTarget]
               ELSE [job EXCEPT ![p] = NoJob]
     /\ Goto(p, IF settingsChanges(pl) THEN "backup" ELSE "skill")
     /\ stale' = [stale EXCEPT ![p] = @ /\ DanglingSymlink]
     /\ UNCHANGED <<disk, inits, changes, exposed, theirs>>

\* A dry run, or nothing to change.
OnlyShows(p) ==
  /\ pc[p] = "load"
  /\ ~ Unreadable(loadSettings) /\ ~ hooksUnmergeable(loadSettings)
  /\ Exit(p)
  /\ UNCHANGED <<disk, inits, changes, exposed, theirs>>

-----------------------------------------------------------------------------
(***************************************************************************)
(* backupSettings and writeSettings.                                       *)
(***************************************************************************)
\* What p reads and writes: the target it has resolved, also when another init
\* has put a file in the link's place since.
Target(p) == IF job[p].behind /\ ~ link THEN left ELSE file

\* The name of p's backup, with the pid or without.
BakOf(p, pid) == [behind |-> job[p].behind, at |-> now[p], pid |-> pid]

NoBackup(p) ==
  /\ pc[p] = "backup"
  /\ Target(p) = Absent
  /\ Goto(p, "write")
  /\ UNCHANGED <<disk, job, inits, changes, ghost>>

\* Mutant: the name is taken whether or not it is in use.
Mutant_ChooseBackup(p) ==
  /\ pc[p] = "backup"
  /\ Target(p) # Absent
  /\ job' = [job EXCEPT ![p].bak = BakOf(p, 0)]
  /\ Goto(p, "copy")
  /\ UNCHANGED <<disk, inits, changes, ghost>>

\* The name is looked up here and written in the next step, so two inits of one
\* second may choose the same.
ChooseBackup(p) ==
  /\ pc[p] = "backup"
  /\ Target(p) # Absent
  /\ job' = [job EXCEPT ![p].pid = 0,
                        ![p].bak = BakOf(p, IF InUse(BakOf(p, 0)) THEN job[p].pid ELSE 0)]
  /\ exposed' = IF \E q \in Proc \ {p} : pc[q] = "copy" /\ job[q].bak = job'[p].bak
                THEN exposed \union Things(file) ELSE exposed
  /\ Goto(p, "copy")
  /\ UNCHANGED <<disk, inits, changes, stale, theirs>>

Put(n, c) == baks' = {b \in baks : b.name # n} \union {[name |-> n, content |-> c]}

\* Mutant: settings that are gone by now are copied all the same.
Mutant_CopyBackup(p) ==
  /\ pc[p] = "copy"
  /\ Put(job[p].bak, Target(p))
  /\ job' = [job EXCEPT ![p].bak = NoName]
  /\ Goto(p, "write")
  /\ UNCHANGED <<link, file, left, skill, inits, changes, ghost>>

CopyBackup(p) ==
  /\ pc[p] = "copy"
  /\ Target(p) # Absent
  /\ Put(job[p].bak, Target(p))
  /\ job' = [job EXCEPT ![p].bak = NoName]
  /\ Goto(p, "write")
  /\ UNCHANGED <<link, file, left, skill, inits, changes, ghost>>

\* The settings are gone: init ends with the error.
CopyFails(p) ==
  /\ pc[p] = "copy"
  /\ Target(p) = Absent
  /\ Exit(p)
  /\ UNCHANGED <<disk, inits, changes, exposed, theirs>>

\* The temp file is the process's own: only the rename is seen. It replaces
\* what was read behind the link, or else whatever has the name, so that a link
\* there is gone. The commands are those of the launcher that runs.
Write(p) ==
  /\ pc[p] = "write"
  /\ \E launcher \in Launcher :
       LET c == applyPlan(job[p].loaded, job[p].plan, launcher) IN
       IF job[p].behind /\ ~ link THEN left' = c /\ UNCHANGED file
       ELSE /\ file' = c
            /\ left' = IF link /\ ~ job[p].behind THEN file ELSE left
  /\ link' = (link /\ job[p].behind)
  /\ stale' = [q \in Proc |-> q # p /\ HasLooked(q)]
  /\ job' = [job EXCEPT ![p] = NoJob]
  /\ Goto(p, "skill")
  /\ UNCHANGED <<baks, skill, inits, changes, exposed, theirs>>

\* installSkill looks again, and then writes.
SkillAbsent(p) ==
  /\ pc[p] = "skill"
  /\ skill = "absent"
  /\ Goto(p, "install")
  /\ UNCHANGED <<disk, job, inits, changes, ghost>>

SkillThere(p) ==
  /\ pc[p] = "skill"
  /\ skill # "absent"
  /\ Exit(p)
  /\ UNCHANGED <<disk, inits, changes, exposed, theirs>>

InstallSkill(p) ==
  /\ pc[p] = "install"
  /\ skill' = "there"
  /\ Exit(p)
  /\ UNCHANGED <<link, file, left, baks, inits, changes, exposed, theirs>>

\* A step fails, or the process dies.
GivesUp(p) ==
  /\ pc[p] \in {"backup", "copy", "write", "skill", "install"}
  /\ Exit(p)
  /\ UNCHANGED <<disk, inits, changes, exposed, theirs>>

-----------------------------------------------------------------------------
(***************************************************************************)
(* The others: Claude Code and the user.                                   *)
(***************************************************************************)
\* A change that comes when a backup is made already, or while two inits are
\* at it, may be lost.
TooLate ==
  \/ \E p \in Proc : pc[p] = "write"
  \/ \E p, q \in Proc : p # q /\ Between(p) /\ Between(q)

\* The others' next settings: with another key or statusline, mended if they
\* were broken; or broken.
Edited(c) ==
  {[c EXCEPT !.shape = "object", !.keys = @ \union {k}] : k \in Key}
  \union {[c EXCEPT !.shape = "object", !.sl = f] : f \in Foreign}
  \union {[c EXCEPT !.shape = "other"]}

EditSettings ==
  /\ changes < MaxChanges
  /\ file' \in Edited(IF file = Absent THEN Fresh ELSE file)
  /\ changes' = changes + 1
  /\ stale' = [p \in Proc |-> HasLooked(p)]
  /\ exposed' = IF TooLate THEN exposed \union (Things(file') \ theirs) ELSE exposed
  /\ theirs' = (theirs \ Things(file)) \union Things(file')
  /\ UNCHANGED <<slots, link, left, baks, skill, job, inits>>

\* A dotfiles manager takes the file away; a link stays.
RemoveSettings ==
  /\ changes < MaxChanges
  /\ file # Absent
  /\ file' = Absent
  /\ changes' = changes + 1
  /\ stale' = [p \in Proc |-> HasLooked(p)]
  /\ theirs' = theirs \ Things(file)
  /\ UNCHANGED <<slots, link, left, baks, skill, job, inits, exposed>>

-----------------------------------------------------------------------------
SettingsNext ==
  \/ \E p \in Proc :
       \/ Start(p) \/ CheckLink(p) \/ Refuses(p) \/ OnlyShows(p)
       \/ \E replace \in BOOLEAN : Loads(p, replace)
       \/ NoBackup(p) \/ ChooseBackup(p) \/ CopyBackup(p) \/ CopyFails(p) \/ Write(p)
       \/ SkillAbsent(p) \/ SkillThere(p) \/ InstallSkill(p) \/ GivesUp(p)
  \/ EditSettings \/ RemoveSettings

-----------------------------------------------------------------------------
(***************************************************************************)
(* Correctness.                                                            *)
(***************************************************************************)

\* Every variable has its type.
SettingsTypeOK ==
  /\ link \in BOOLEAN
  /\ file \in Content \union {Absent} /\ left \in Content \union {Absent}
  /\ baks \subseteq [name : BakName, content : Content]
  /\ skill \in {"absent", "there"}
  /\ job \in [Proc -> [replace : BOOLEAN, pid : 0 .. MaxInits,
                       behind : BOOLEAN, loaded : Content,
                       plan : [addStatusline : BOOLEAN, addHooks : SUBSET Event,
                               skill : BOOLEAN],
                       bak : BakName]]
  /\ inits \in 0 .. MaxInits /\ changes \in 0 .. MaxChanges
  /\ stale \in [Proc -> BOOLEAN]
  /\ exposed \subseteq Key \union Foreign \union {Odd}
  /\ theirs \subseteq Key \union Foreign \union {Odd}

\* What others put into the settings and left there is still in them or in a
\* backup, whatever init wrote from what it had read before. Only a change that
\* came after the backup, beside two inits, or when both of them chose the same
\* name for it may be lost (init.go, "a timestamped backup is taken first").
TheirsSurvive ==
  \A x \in theirs \ exposed :
    x \in Things(file) \/ \E b \in baks : x \in Things(b.content)

\* An init that nobody overtakes takes away a foreign statusline if it was asked
\* to and it is not ccstatusline's, one without a command, and nothing else; it
\* leaves a file that it cannot parse or merge into alone, and a link a link
\* (init.go, applyPlan, "preserving every other key", danglingSymlink).
MayTake(p) == {Odd} \union IF job[p].replace THEN Foreign \ Host ELSE {}

OnlyAsPlanned ==
  [][\A p \in Proc :
       pc[p] = "write" /\ pc'[p] = "skill" /\ ~ stale[p] =>
         /\ link' = link
         /\ file # Absent => file.shape = "object"
         /\ Things(file) \ Things(file') \subseteq MayTake(p)]_<<slots, settings>>

\* ccpool is not wired twice, as long as the path it runs under has "ccpool" in
\* it: no event ever has two hooks that init recognises, however inits overlap,
\* and a second init with the flags of the first finds nothing to change
\* (init.go, ccpoolCmd, "detection (idempotency)").
InitIsIdempotent ==
  file # Absent =>
    /\ HooksOnce(file)
    /\ \A replace \in BOOLEAN, launcher \in Launcher :
         LET done == applyPlan(file, makePlan(file, replace, FALSE), launcher)
         IN ccpoolCmd(launcher) => ~ settingsChanges(makePlan(done, replace, FALSE))

=============================================================================
