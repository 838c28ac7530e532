-------------------------------- MODULE Warn --------------------------------
(***************************************************************************)
(* The hooks that warn the agent.  A warning is repeated after a tool use  *)
(* only when its marker, a file per signal and session, is old enough; a   *)
(* prompt of the user always gets it.                                      *)
(*                                                                         *)
(*   internal/warn/warn.go                                                 *)
(*                                                                         *)
(* What the snapshots say at a moment is a view: the age of the data, the  *)
(* weekly pace, the five-hour percentage, and the session's own context.   *)
(***************************************************************************)
EXTENDS ConfigFile

CONSTANTS
  Session,
  Views,        \* what the snapshots may say
  MaxStale, Coast, Margin, SesWarn, CtxWarn, CtxWarnLeft,
  Environ,      \* CCPOOL_ENABLED of the hooks, or Nil
  Throttle,     \* signal -> the gap between its repetitions
  MaxHooks      \* bound on the hooks that run

Signal == {"pace", "session", "ctx"}
Events == {"UserPromptSubmit", "PostToolUse"}
Marker == Signal \X Session

ASSUME WarnAssumption ==
  Throttle \in [Signal -> Nat \ {0}] /\ MaxHooks \in Nat

VARIABLES
  marker,   \* the time in each marker file, or Never: absent or empty
  hook,     \* event of each hook, the warnings it fires, those not marked yet
  hooks,
  \* ghosts
  shown,    \* when each warning was last printed
  loose     \* the markers that may not tell

warns == <<marker, hook, hooks, shown, loose>>

Never == -1

-----------------------------------------------------------------------------
\* Context is near its end: by what is left, or by its share when the size of
\* the window is not known.
ctxNear(own) == IF own.left # Nil THEN own.left <= CtxWarnLeft ELSE own.ctx >= CtxWarn

\* The warnings that a view calls for.
signals(v) ==
  LET fresh == v.age # Nil /\ v.age <= MaxStale IN
  {s \in Signal :
     \/ s = "pace" /\ fresh /\ v.wk # Nil /\ v.wk.delta > Margin /\ v.wk.toReset > Coast
     \/ s = "session" /\ fresh /\ v.fh # Nil /\ v.fh >= SesWarn
     \/ /\ s = "ctx" /\ v.own # Nil
        /\ v.own.age <= MaxStale /\ v.own.ctx \in 0 .. 100 /\ ctxNear(v.own)}

\* Mutants: a moment early; any session's marker counts.
Mutant_RecentEarly(p, m) == marker[m] # Never /\ now[p] - marker[m] < Throttle[m[1]] - 1

Mutant_RecentOthers(p, m) ==
  \E x \in Session : marker[<<m[1], x>>] # Never /\ now[p] - marker[<<m[1], x>>] < Throttle[m[1]]

Recent(p, m) == marker[m] # Never /\ now[p] - marker[m] < Throttle[m[1]]

NoHook == [event |-> "UserPromptSubmit", fire |-> {}, todo |-> {}, at |-> Nil]

InitWarn ==
  /\ marker = [m \in Marker |-> Never]
  /\ hook = [p \in Proc |-> NoHook]
  /\ hooks = 0
  /\ shown = [m \in Marker |-> Never]
  /\ loose = {}

\* The markers that a hook is going to write, or has written without having
\* printed the warning.
InHand(p) == IF pc[p] \in {"mark", "filling"} THEN hook[p].fire ELSE {}

EndHook(p) ==
  /\ Leave(p)
  /\ hook' = [hook EXCEPT ![p] = NoHook]

\* Hook and Run: nothing when the switch is off, else what the view calls for.
StartHook(p) ==
  /\ hooks < MaxHooks
  /\ HooksEnabled(Environ)
  /\ Launch(p, "look")
  /\ \E e \in Events, x \in Session, v \in Views :
       /\ signals(v) # {}
       /\ hook' = [hook EXCEPT ![p].event = e, ![p].fire = {<<s, x>> : s \in signals(v)}]
  /\ hooks' = hooks + 1
  /\ UNCHANGED <<marker, shown, loose>>

\* emit reads every marker before it writes any.
Look(p, fire) ==
  /\ pc[p] = "look"
  /\ loose' = loose \union {m \in hook[p].fire : \E q \in Proc \ {p} : m \in InHand(q)}
  /\ IF fire = {} THEN EndHook(p)
     ELSE /\ hook' = [hook EXCEPT ![p].fire = fire, ![p].todo = fire]
          /\ Goto(p, "mark")
  /\ UNCHANGED <<marker, hooks, shown>>

LookAfterPrompt(p) == hook[p].event = "UserPromptSubmit" /\ Look(p, hook[p].fire)

LookAfterTool(p) ==
  hook[p].event = "PostToolUse" /\ Look(p, {m \in hook[p].fire : ~ Recent(p, m)})

\* The markers are written in the order of the signals.
Rank == [pace |-> 1, session |-> 2, ctx |-> 3]
Due(p) == {m \in hook[p].todo : \A n \in hook[p].todo : Rank[m[1]] <= Rank[n[1]]}

\* writeMarker: the file is emptied, then the time written.
OpenMarker(p) ==
  /\ pc[p] = "mark"
  /\ \E m \in Due(p) :
       /\ marker' = [marker EXCEPT ![m] = Never]
       /\ hook' = [hook EXCEPT ![p].todo = @ \ {m}, ![p].at = m]
  /\ Goto(p, "filling")
  /\ UNCHANGED <<hooks, shown, loose>>

FillMarker(p) ==
  /\ pc[p] = "filling"
  /\ marker' = [marker EXCEPT ![hook[p].at] = now[p]]
  /\ hook' = [hook EXCEPT ![p].at = Nil]
  /\ Goto(p, "mark")
  /\ UNCHANGED <<hooks, shown, loose>>

\* The error of writeMarker is ignored: the warning is printed all the same.
MarkerFails(p) ==
  /\ pc[p] = "mark"
  /\ \E m \in Due(p) :
       /\ loose' = loose \union {m}
       /\ hook' = [hook EXCEPT ![p].todo = @ \ {m}]
  /\ UNCHANGED <<slots, marker, hooks, shown>>

\* The text goes out when every marker is written.
Prints(p) ==
  /\ pc[p] = "mark" /\ hook[p].todo = {}
  /\ shown' = [m \in Marker |-> IF m \in hook[p].fire THEN now[p] ELSE shown[m]]
  /\ loose' = {m \in loose : m \in hook[p].fire =>
                 marker[m] # now[p] \/ \E q \in Proc \ {p} : m \in InHand(q)}
  /\ EndHook(p)
  /\ UNCHANGED <<marker, hooks>>

\* Before it has looked a hook leaves no trace.
HookDies(p) ==
  /\ pc[p] \in {"mark", "filling"}
  /\ loose' = loose \union InHand(p)
  /\ EndHook(p)
  /\ UNCHANGED <<marker, hooks, shown>>

WarnNext ==
  \E p \in Proc :
    \/ StartHook(p) \/ LookAfterPrompt(p) \/ LookAfterTool(p)
    \/ OpenMarker(p) \/ FillMarker(p) \/ MarkerFails(p) \/ Prints(p) \/ HookDies(p)

-----------------------------------------------------------------------------
\* Every variable has its type.
WarnTypeOK ==
  /\ marker \in [Marker -> 0 .. MaxClock \union {Never}]
  /\ hook \in [Proc -> [event : Events, fire : SUBSET Marker, todo : SUBSET Marker,
                        at : Marker \union {Nil}]]
  /\ hooks \in 0 .. MaxHooks
  /\ shown \in [Marker -> 0 .. MaxClock \union {Never}]
  /\ loose \subseteq Marker

\* After tool uses a warning is repeated only when its throttle has passed since
\* it was last printed, by the times the hooks started; unless its marker was
\* looked at while another hook had it in hand, or could not be written
\* (warn.go, emit).
ThrottleHolds ==
  [][\A p \in Proc :
       Prints(p) /\ hook[p].event = "PostToolUse" =>
         \A m \in hook[p].fire \ loose :
           shown[m] = Never \/ now[p] - shown[m] >= Throttle[m[1]]]_<<slots, warns>>

\* A warning that applies is held back only when it really was printed a short
\* time ago: no signal is lost behind the marker of another signal, of another
\* session, or of a hook that never printed (warn.go, emit and marker), but for
\* one that has not printed yet or died.
HeldBackOnlyIfShown ==
  [][\A p \in Proc :
       LookAfterTool(p) =>
         \A m \in hook[p].fire \ (hook'[p].fire \union loose') :
           shown[m] # Never /\ now[p] - shown[m] < Throttle[m[1]]]_<<slots, warns>>

=============================================================================
