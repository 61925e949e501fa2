---------------------------- MODULE AnswerLedger ----------------------------
(***************************************************************************)
(* What the answer attestor promises: a member's answer to a call is       *)
(* offered before the call locks, at most one of the member's offers is    *)
(* accepted, and what was accepted stays.                                  *)
(***************************************************************************)
CONSTANTS
  Users, Calls,
  Tokens      \* what tells a member's submissions about a call apart

VARIABLES
  offered,   \* submissions that reached the attestor in time
  accepted,  \* submissions with a receipt
  locked     \* calls past their lock

Answers == [token : Tokens, user : Users, call : Calls]
SameAnswer(a, b) == a.user = b.user /\ a.call = b.call

LedgerInit ==
  /\ offered = {} /\ accepted = {}
  /\ locked = {}

Offer(a) ==
  /\ a.call \notin locked
  /\ offered' = offered \cup {a}
  /\ UNCHANGED <<accepted, locked>>

\* A submission that was turned down or lost.
Forget ==
  /\ offered' \subseteq offered
  /\ UNCHANGED <<accepted, locked>>

Accept(a) ==
  /\ a \in offered
  /\ \A b \in accepted : ~SameAnswer(a, b)
  /\ accepted' = accepted \cup {a}
  /\ UNCHANGED <<offered, locked>>

Lock ==
  /\ locked \subseteq locked'
  /\ UNCHANGED <<offered, accepted>>

LedgerNext ==
  \/ \E a \in Answers : Offer(a) \/ Accept(a)
  \/ Forget
  \/ Lock

LedgerSpec == LedgerInit /\ [][LedgerNext]_<<offered, accepted, locked>>
=============================================================================
