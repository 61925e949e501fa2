---------------------------- MODULE SettleEngine ----------------------------
(***************************************************************************)
(* Calls and their settlement: packages/shared/src/call-scheduler.ts and   *)
(* settle-engine.ts.  Both are pure functions of signed match events.      *)
(*                                                                         *)
(* An event is [seq, kind, ts, side]: the message it came with and its     *)
(* kind identify it.  Goals, own goals and scored penalties are one kind.  *)
(* Of the five kinds of call the scheduler makes two, and these are        *)
(* modelled: "window" (a goal in the next ten minutes?) and "next" (who    *)
(* scores next?).  A gap is the pair of feed times around a break.         *)
(***************************************************************************)
EXTENDS Integers, FiniteSets

CONSTANTS
  None,
  Short,  \* duration of a window call
  Long    \* duration of a next-goal call

ASSUME DurationAssumption == Short \in Nat /\ Long \in Nat

\* Calls that event e opens.
CallOf(e, template, duration) ==
  [seq |-> e.seq, kind |-> e.kind, template |-> template,
   openedAt |-> e.ts, settlesBy |-> e.ts + duration]

CallsForEvent(e) ==
  CASE e.kind \in {"kickoff", "half-time"} ->
         {CallOf(e, "window", Short), CallOf(e, "next", Long)}
    [] e.kind = "goal" -> {CallOf(e, "window", Short)}
    [] OTHER -> {}

Terminal == {"full-time", "after-extra-time", "abandoned"}
Abandoned == {"abandoned"}

-----------------------------------------------------------------------------

\* The break touches the call's window.
Crosses(gap, call) == gap[1] <= call.settlesBy /\ gap[2] >= call.openedAt

GoalsIn(call, events) ==
  {e \in events : e.kind = "goal" /\ e.ts > call.openedAt /\ e.ts <= call.settlesBy}

\* Feed time first, then the event id, whose order is that of the messages as
\* long as their numbers have as many digits.
FirstOf(events) ==
  CHOOSE e \in events : \A f \in events : e.ts < f.ts \/ (e.ts = f.ts /\ e.seq <= f.seq)

\* by: the message that decided, if one did.
Pending == [status |-> "pending", option |-> None, at |-> 0, by |-> 0]
Void(reason) == [status |-> "void", option |-> reason, at |-> 0, by |-> 0]
Settled(option, at, by) == [status |-> "settled", option |-> option, at |-> at, by |-> by]

\* A goal of an unknown side settles a next-goal call as "neither".
WinningOption(call, goal) ==
  IF call.template = "window" THEN "yes"
  ELSE IF goal.side = None THEN "neither" ELSE goal.side

Fallback(call) == IF call.template = "window" THEN "no" ELSE "neither"

FaultWindowEndsEarly(call, c) == c.frontier >= call.settlesBy - 1 \/ c.status \in Terminal
WindowComplete(call, c) == c.frontier >= call.settlesBy \/ c.status \in Terminal

\* evaluateCall; c is the context [events, gaps, status, frontier].
EvaluateCall(call, c) ==
  LET goals == GoalsIn(call, c.events) IN
  IF \E gap \in c.gaps : Crosses(gap, call) THEN Void("feed-gap")
  ELSE IF c.status \in Abandoned THEN Void("abandoned")
  ELSE IF goals # {} THEN
    Settled(WinningOption(call, FirstOf(goals)), FirstOf(goals).ts, FirstOf(goals).seq)
  ELSE IF WindowComplete(call, c) THEN
    Settled(Fallback(call), IF c.frontier < call.settlesBy THEN c.frontier ELSE call.settlesBy, 0)
  ELSE Pending
=============================================================================
