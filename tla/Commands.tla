------------------------------ MODULE Commands ------------------------------
(***************************************************************************)
(* The commands of one machine that share no lock: init on the settings of *)
(* Claude Code, config init and hooks on ccpool.json, hooks on their       *)
(* markers, renders on the anomaly log, run on the snapshots.  A behaviour *)
(* has the kinds of one mix.                                               *)
(***************************************************************************)
EXTENDS Decisions, AnomalyLog, Settings

CONSTANTS
  Mixes,     \* the kinds of commands that run together
  Horizon,   \* kind -> bound on the clock
  MaxLag     \* bound on how long a command runs, where the clock moves

ASSUME CommandsAssumption ==
  /\ Mixes \subseteq SUBSET {"init", "config", "warn", "log", "decide"}
  /\ \A mix \in Mixes : \A k \in mix : Horizon[k] \in 0 .. MaxClock
  /\ MaxLag \in Nat

VARIABLES mix

vars == <<slots, settings, confs, warns, logs, decisions, mix>>

Init ==
  /\ InitSlots /\ InitSettings /\ InitConfig /\ InitWarn /\ InitLog /\ InitDecisions
  /\ mix \in Mixes
  /\ "init" \notin mix => file = Absent /\ ~ link   \* of no concern to others

Next ==
  /\ UNCHANGED mix
  /\ \/ "init" \in mix /\ SettingsNext /\ UNCHANGED <<confs, warns, logs, decisions>>
     \/ "config" \in mix /\ ConfigNext /\ UNCHANGED <<settings, warns, logs, decisions>>
     \/ "warn" \in mix /\ WarnNext /\ UNCHANGED <<settings, confs, logs, decisions>>
     \/ "log" \in mix /\ LogNext /\ UNCHANGED <<settings, confs, warns, decisions>>
     \/ "decide" \in mix /\ DecisionsNext /\ UNCHANGED <<settings, confs, warns, logs>>
     \/ /\ \A k \in mix :
             clock < Horizon[k] /\ \A p \in Proc : Idle(p) \/ clock < now[p] + MaxLag
        /\ Pass
        /\ UNCHANGED <<settings, confs, warns, logs, decisions>>

Spec == Init /\ [][Next]_vars

-----------------------------------------------------------------------------
\* Every variable has its type, a slot one command.
TypeOK ==
  /\ SettingsTypeOK /\ ConfigTypeOK /\ WarnTypeOK /\ LogTypeOK /\ DecisionsTypeOK
  /\ clock \in 0 .. MaxClock /\ now \in [Proc -> 0 .. MaxClock]
  /\ pc \in [Proc -> {"idle",
                      "check", "load", "backup", "copy", "write", "skill", "install",
                      "truncate", "fill", "rename", "look", "mark", "filling",
                      "empty", "lines", "weekly", "fiveHour"}]

=============================================================================
