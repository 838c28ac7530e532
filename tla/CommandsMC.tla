----------------------------- MODULE CommandsMC -----------------------------
(***************************************************************************)
(* Commands on a small instance: two processes and two sessions; first     *)
(* settings for each branch of init; the kill switch and one detected      *)
(* field; a view with two warnings; a log of two lines; a week of three    *)
(* parts and the start of the next.                                        *)
(***************************************************************************)
EXTENDS Commands

CONSTANTS k1, f1, h1, PostToolUse, UserPromptSubmit, ccpool, pool, s1, s2, i1, i2, i3, i4, i5

Symmetry == Permutations(Proc) \union Permutations(Session)

Settings0(shape, keys, sl, wired) ==
  [shape |-> shape, keys |-> keys, sl |-> sl,
   warn |-> [e \in Event |-> [l \in Launcher |-> IF l = ccpool /\ e \in wired THEN 1 ELSE 0]]]

\* No file, a foreign statusline, and hooks that cannot be merged into, with one
\* wired, beside a statusLine without a command. Edits add a host and mend them.
FirstSettings ==
  {Absent,
   Settings0("object", {}, f1, {}),
   Settings0("badHooks", {}, Odd, {PostToolUse})}

Conf(enabled, pace) == [f \in Field |-> IF f = "enabled" THEN enabled ELSE pace]

Detected    == {Conf(Nil, Nil), Conf(Nil, "found")}
UserChoices == {Conf("off", Nil), Conf(Nil, "user")}

Seen(age, wk, fh, own) == [age |-> age, wk |-> wk, fh |-> fh, own |-> own]
Ahead == [delta |-> 9, toReset |-> 3]
Near  == [age |-> 0, ctx |-> 50, left |-> 1]

\* Ahead of pace and at the end of the context: two warnings.
AllViews == {Seen(0, Ahead, 10, Near)}

Gaps == [s \in Signal |-> IF s = "ctx" THEN 1 ELSE 2]

Horizons == [k \in {"init", "config", "warn", "log", "decide"} |->
               CASE k = "warn" -> 2 [] k = "decide" -> MaxClock [] OTHER -> 0]

\* A session may report resets late.
Slips == [x \in Session |-> {0, 1}]

\* The week starts with a quiet weekend.
Rhythm == [t \in 0 .. Week - 1 |-> IF t < 2 THEN 1 ELSE 6]

\* Also with a calibration that is rounded to nothing.
Spent == {Nil} \union [dpp : {0}, accrued : {0, 83}] \union [dpp : {1}, accrued : {83}]

Up(wk, fh) == [wk |-> wk, fh |-> fh]
Bursts == {Up(17, 0), Up(17, 95)}

=============================================================================
