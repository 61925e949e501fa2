--------------------------- MODULE FixtureMachine ---------------------------
(***************************************************************************)
(* The fold of one fixture's scores messages,                              *)
(* apps/worker/src/state/fixture-machine.ts: the fixture's status, its     *)
(* phase events and the gaps in the sequence numbers.                      *)
(*                                                                         *)
(* Status codes are named after the feed's labels; None is a message that  *)
(* carries no status.  Minutes and scorelines do not bear on the events    *)
(* and are left out.  Of the incidents on a message the goal is kept.      *)
(***************************************************************************)
EXTENDS SettleEngine

\* STATUS_PHASE_ORDER, for the codes that have a place in it.
Phase == [H1 |-> 1, HT |-> 2, H2 |-> 3, FET |-> 9, PE |-> 11, FT |-> 13]

\* statusFromCode.
StatusOf(code) ==
  CASE code = "H1" -> "first-half"        [] code = "HT" -> "half-time"
    [] code = "H2" -> "second-half"       [] code = "FET" -> "after-extra-time"
    [] code = "PE" -> "penalty-shootout"  [] code = "FT" -> "full-time"
    [] code = "AB" -> "abandoned"         [] OTHER -> "unknown"

\* PHASE_EVENT_BY_CODE: FET begins nothing.
PhaseEvent == [H1 |-> "kickoff", HT |-> "half-time", H2 |-> "second-half-start",
               PE |-> "penalty-shootout-start", FT |-> "full-time", AB |-> "abandoned"]

\* TERMINAL_STATUSES.
Final == {"full-time", "abandoned"}

\* seq 0 and ts 0 stand for null.
InitialMachine == [seq |-> 0, ts |-> 0, code |-> None, status |-> "scheduled", gaps |-> {}]

FaultAnyPhase(m, code) == FALSE
PhaseRegression(m, code) ==
  m.code \in DOMAIN Phase /\ code \in DOMAIN Phase /\ Phase[code] < Phase[m.code]

TerminalRegression(m, code) == m.status \in Final /\ StatusOf(code) \notin Final

FaultGapAtStart(m, seq, ts) == IF seq = m.seq + 1 THEN {} ELSE {<<m.ts, ts>>}
\* The gap a message closes: from the feed time of the last one to its own.
GapsAt(m, seq, ts) ==
  IF m.seq = 0 \/ seq = m.seq + 1 THEN {} ELSE {<<m.ts, ts>>}

PhaseEvents(m, seq, ts, code) ==
  IF code \in DOMAIN PhaseEvent \ {m.code}
  THEN {[seq |-> seq, kind |-> PhaseEvent[code], ts |-> ts, side |-> None]}
  ELSE {}

\* The events of a message; goals is its goal, if it reports one.
EventsAt(m, seq, ts, code, goals) ==
  IF TerminalRegression(m, code) THEN {}
  ELSE goals \cup (IF PhaseRegression(m, code) THEN {} ELSE PhaseEvents(m, seq, ts, code))

\* The machine after a message; a stale or repeated one never gets here.
StepTo(m, seq, ts, code) ==
  LET preserve == TerminalRegression(m, code) \/ PhaseRegression(m, code) IN
  [seq |-> seq, ts |-> ts,
   code |-> IF preserve THEN m.code ELSE code,
   status |-> IF preserve THEN m.status ELSE StatusOf(code),
   gaps |-> m.gaps \cup GapsAt(m, seq, ts)]
=============================================================================
