----------------------------- MODULE RoomScores -----------------------------
(***************************************************************************)
(* Fan IQ as one member's device shows it.  The rules are written twice:   *)
(* apps/desktop/workers/room-intelligence.js projects the calls and the    *)
(* board of a room from the answers it could verify, and                   *)
(* packages/shared/src/result-engine.ts with scoring.ts and                *)
(* receipt-state.ts derives scores, boards and fan reports from scored     *)
(* answers.  Definitions of the second are named Shared.                   *)
(*                                                                         *)
(* The room's answer references only grow, and a member has one per call   *)
(* (RoomTimeline).  An answer whose receipt cannot be had counts for       *)
(* nothing, as if it had not come.  Difficulties are percentages, as are   *)
(* points: the base is 100.  Fans are numbered in the order of their ids;  *)
(* display names and the lock, which decides nothing here, are left out.   *)
(***************************************************************************)
EXTENDS Integers, FiniteSets, SequencesExt

CONSTANTS
  Fans,
  Self,          \* currentUserId
  Questions,     \* the calls of the fixture
  Answers,       \* the options of a call
  Difficulties,  \* call.difficulty, 0 for null
  Undecided      \* the settlement of a call that has none

ASSUME FansAssumption == IsFiniteSet(Fans) /\ Fans \subseteq Nat /\ Self \in Fans
ASSUME DifficultyAssumption == Difficulties \subseteq 0 .. 100
ASSUME UndecidedAssumption == Undecided \notin Answers \cup {"void"}

VARIABLES
  terms,     \* of each call: whether it counts, and its difficulty
  verdict,   \* of each call: Undecided, "void" or the winning option
  answers    \* the room's answers whose receipts the device verified

scoresVars == <<terms, verdict, answers>>

AnswerRecords == [fan : Fans, question : Questions, choice : Answers]

ScoresOK ==
  /\ terms \in [Questions -> [scored : BOOLEAN, difficulty : Difficulties]]
  /\ verdict \in [Questions -> Answers \cup {"void", Undecided}]
  /\ answers \subseteq AnswerRecords

ScoresInit ==
  /\ terms \in [Questions -> [scored : BOOLEAN, difficulty : Difficulties]]
  /\ verdict = [q \in Questions |-> Undecided]
  /\ answers = {}

-----------------------------------------------------------------------------
(* Points. *)

Nearest(a, b) == (2 * a + b) \div (2 * b)
Clamped(x) == IF x < 100 THEN 100 ELSE IF x > 500 THEN 500 ELSE x

\* room-intelligence: 100 points times the multiplier, rounded.
Points(d) == IF d = 0 THEN 100 ELSE Clamped(Nearest(10000, d))

\* scoring.ts.
SharedPoints(d) == IF d = 0 THEN 100 ELSE Clamped(Nearest(10000, d))

-----------------------------------------------------------------------------
(* The device's projection. *)

Outcome(points, state, scored, correct) ==
  [points |-> points, state |-> state, scored |-> scored, correct |-> correct]

AnswerOutcome(a) ==
  LET q == a.question  right == a.choice = verdict[q] IN
  CASE verdict[q] = Undecided -> Outcome(0, "accepted", FALSE, FALSE)
    [] verdict[q] = "void" -> Outcome(0, "void", FALSE, FALSE)
    [] OTHER -> Outcome(IF terms[q].scored /\ right THEN Points(terms[q].difficulty) ELSE 0,
                        "proof-pending", terms[q].scored, right)

\* A row of a board.
Row(u, points, right, scored) == [fan |-> u, points |-> points, right |-> right, scored |-> scored]

\* Points, then accuracy, then the id; accuracy is 0 without a scored call.
FaultIdFirst(x, y) == x.points > y.points \/ (x.points = y.points /\ x.fan < y.fan)
Before(x, y) ==
  LET left == x.right * (IF y.scored = 0 THEN 1 ELSE y.scored)
      right == y.right * (IF x.scored = 0 THEN 1 ELSE x.scored)
  IN \/ x.points > y.points
     \/ x.points = y.points /\ left > right
     \/ x.points = y.points /\ left = right /\ x.fan < y.fan

\* A sorted array has each row at the place that the rows before it leave.
Sorted(rows, before(_, _)) ==
  [i \in 1 .. Cardinality(rows) |->
     CHOOSE x \in rows : Cardinality({y \in rows : before(y, x)}) = i - 1]

Scored(u) == {a \in answers : a.fan = u /\ AnswerOutcome(a).scored}
BoardRow(u) ==
  LET S == Scored(u) IN
  Row(u, SumFunction([a \in S |-> AnswerOutcome(a).points]),
      Cardinality({a \in S : AnswerOutcome(a).correct}), Cardinality(S))

\* projectFanIq: everybody who scored, and the current user.
Board == Sorted({BoardRow(u) : u \in {f \in Fans : Scored(f) # {}} \cup {Self}}, Before)
PlaceOn(board, u) == CHOOSE i \in DOMAIN board : board[i].fan = u

-----------------------------------------------------------------------------
(* The shared derivation, from the answers the device has. *)

\* scoreAnswerChoice: no score for a void or unscored call, or before a settlement.
SharedScore(a) ==
  LET q == a.question IN
  IF ~terms[q].scored \/ verdict[q] \in {"void", Undecided} THEN {}
  ELSE {[fan |-> a.fan, question |-> q, correct |-> a.choice = verdict[q],
         points |-> IF a.choice = verdict[q] THEN SharedPoints(terms[q].difficulty) ELSE 0]}

SharedScores == UNION {SharedScore(a) : a \in answers}

SharedRow(u) ==
  LET own == {s \in SharedScores : s.fan = u} IN
  Row(u, SumFunction([s \in own |-> s.points]), Cardinality({s \in own : s.correct}), Cardinality(own))

SharedBefore(x, y) ==
  LET left == x.right * y.scored  right == y.right * x.scored IN
  \/ x.points > y.points
  \/ x.points = y.points /\ left > right
  \/ x.points = y.points /\ left = right /\ x.fan < y.fan

\* buildLeaderboard.
Leaderboard == Sorted({SharedRow(s.fan) : s \in SharedScores}, SharedBefore)

\* buildFanReport: the user's rank among the room's scorers and herself, and
\* the percentile of that rank.
ReportRank(u) ==
  LET mine == SharedRow(u)
      rows == {SharedRow(f) : f \in {s.fan : s \in SharedScores} \cup {u}}
      accuracy(x, y) == x.right * (IF y.scored = 0 THEN 1 ELSE y.scored)
      ahead(x) == \/ x.points > mine.points
                  \/ x.points = mine.points /\ accuracy(x, mine) > accuracy(mine, x)
                  \/ x.points = mine.points /\ accuracy(x, mine) = accuracy(mine, x) /\ x.fan < u
  IN [rank |-> 1 + Cardinality({x \in rows : ahead(x)}), size |-> Cardinality(rows)]

Percentile(r) ==
  IF r.size <= 1 THEN 100 ELSE Nearest(100 * (r.size - r.rank), r.size - 1)

\* projectAcceptedReceiptState, without the observer of anchors, which nothing configures.
SharedReceipt(a) ==
  CASE verdict[a.question] = Undecided -> "accepted"
    [] verdict[a.question] = "void" -> "void"
    [] OTHER -> "proof-pending"

-----------------------------------------------------------------------------
(* What happens around the device. *)

Settle(q, x) ==
  /\ verdict[q] = Undecided
  /\ verdict' = [verdict EXCEPT ![q] = x]
  /\ UNCHANGED <<terms, answers>>

\* A reference reaches the device whenever its writer is replicated, also long
\* after the lock, and getVerifiedReceipt gives its receipt.
Resolve(a) ==
  /\ ~\E b \in answers : b.fan = a.fan /\ b.question = a.question
  /\ answers' = answers \cup {a}
  /\ UNCHANGED <<terms, verdict>>

ScoresNext ==
  \/ \E q \in Questions, x \in Answers \cup {"void"} : Settle(q, x)
  \/ \E a \in AnswerRecords : Resolve(a)

ScoresSpec == ScoresInit /\ [][ScoresNext]_scoresVars

-----------------------------------------------------------------------------
(* What must hold. *)

\* Both ways of counting agree once somebody has answered, whatever this device
\* could verify: the board is the shared leaderboard, but for the row of a current
\* user who has not scored; the rank it shows her is that of her report; and each
\* answer's receipt is in the same state.
BoardsAgree ==
  answers # {} =>
    LET rank == PlaceOn(Board, Self) IN
    /\ Leaderboard = IF Scored(Self) # {} THEN Board ELSE RemoveAt(Board, rank)
    /\ ReportRank(Self) = [rank |-> rank, size |-> Len(Board)]
    /\ rank = 1 => Percentile(ReportRank(Self)) = 100
    /\ \A a \in answers : AnswerOutcome(a).state = SharedReceipt(a)
=============================================================================
