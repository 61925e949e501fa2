---------------------------- MODULE PeerController ----------------------------
(***************************************************************************)
(* The Electron process's side of the worker: DesktopPeerController of     *)
(* apps/desktop/lib/desktop-peer-controller.js, from the start of the      *)
(* worker on.                                                              *)
(*                                                                         *)
(* A call is a request with an id of its own.  The worker answers each     *)
(* request it got late, never, or after the controller gave it up; it may  *)
(* exit or send a frame that does not parse at any time.  Events are in    *)
(* EventStreams.                                                           *)
(***************************************************************************)
EXTENDS Naturals, FiniteSets

CONSTANTS
  Callers,     \* the requests of preload, browsers and the notification centre
  MaxPending   \* maxPendingRequests

ASSUME ControllerAssumption == MaxPending \in Nat \ {0} /\ IsFiniteSet(Callers)

VARIABLES
  readyPromise,  \* "starting", "ready" or "rejected"
  failure,       \* the worker failed
  life,          \* "started", "closing" or "closed"
  call,          \* where each call is
  closeCall,     \* the system.close request: "none", "pending" or "ended"
  worker,        \* the worker process lives
  inbox          \* requests that the worker has and did not answer

controllerVars == <<readyPromise, failure, life, call, closeCall, worker, inbox>>

\* early: waits for the worker to be ready.
Ended == {"answered", "timedout", "refused"}
PendingCalls == {c \in Callers : call[c] = "pending"}

ControllerOK ==
  /\ readyPromise \in {"starting", "ready", "rejected"}
  /\ failure \in BOOLEAN /\ worker \in BOOLEAN
  /\ life \in {"started", "closing", "closed"}
  /\ call \in [Callers -> {"none", "early", "pending"} \cup Ended]
  /\ closeCall \in {"none", "pending", "ended"}
  /\ inbox \subseteq Callers
  /\ Cardinality(PendingCalls) <= MaxPending

ControllerInit ==
  /\ readyPromise = "starting" /\ failure = FALSE /\ life = "started"
  /\ call = [c \in Callers |-> "none"] /\ closeCall = "none"
  /\ worker = TRUE /\ inbox = {}

-----------------------------------------------------------------------------
(* Calls. *)

FaultTestOneLess == Cardinality(PendingCalls) <= MaxPending
HasRoom == Cardinality(PendingCalls) < MaxPending
Available == ~failure /\ life = "started"

\* _requestWhenReady, from the test of the failure on: no await before the write.
Submit(c) ==
  IF Available /\ HasRoom
  THEN /\ call' = [call EXCEPT ![c] = "pending"]
       /\ inbox' = IF worker THEN inbox \cup {c} ELSE inbox
  ELSE call' = [call EXCEPT ![c] = "refused"] /\ UNCHANGED inbox

Request(c) ==
  /\ call[c] = "none"
  /\ IF readyPromise = "ready" THEN Submit(c)
     ELSE call' = [call EXCEPT ![c] = "early"] /\ UNCHANGED inbox
  /\ UNCHANGED <<readyPromise, failure, life, closeCall, worker>>

\* The wait for the worker is over.
Wake(c) ==
  /\ call[c] = "early" /\ readyPromise # "starting"
  /\ IF readyPromise = "ready" THEN Submit(c)
     ELSE call' = [call EXCEPT ![c] = "refused"] /\ UNCHANGED inbox
  /\ UNCHANGED <<readyPromise, failure, life, closeCall, worker>>

HasTimer(c) == call[c] \in {"early", "pending"}

\* The timer of the wait for the worker, or of the request.
Timeout(c) ==
  /\ HasTimer(c)
  /\ call' = [call EXCEPT ![c] = "timedout"]
  /\ UNCHANGED <<readyPromise, failure, life, closeCall, worker, inbox>>

-----------------------------------------------------------------------------
(* Frames of the worker. *)

\* _resolveReady, once.
Ready ==
  /\ worker /\ readyPromise = "starting" /\ readyPromise' = "ready"
  /\ UNCHANGED <<failure, life, call, closeCall, worker, inbox>>

FaultAlways(c) == TRUE
StillPending(c) == call[c] = "pending"

\* A response, which may come too late.
Answer(c) ==
  /\ worker /\ c \in inbox
  /\ inbox' = inbox \ {c}
  /\ call' = IF StillPending(c) THEN [call EXCEPT ![c] = "answered"] ELSE call
  /\ UNCHANGED <<readyPromise, failure, life, closeCall, worker>>

AnswerClose ==
  /\ worker /\ closeCall = "pending" /\ closeCall' = "ended"
  /\ UNCHANGED <<readyPromise, failure, life, call, worker, inbox>>

Rejected == IF readyPromise = "starting" THEN "rejected" ELSE readyPromise

Refused == [c \in Callers |-> IF call[c] = "pending" THEN "refused" ELSE call[c]]

\* _failWorker, the first time.
Fail ==
  /\ failure' = TRUE
  /\ call' = Refused
  /\ closeCall' = IF closeCall = "pending" THEN "ended" ELSE closeCall
  /\ readyPromise' = Rejected

\* A frame that does not parse, also while closing.
BadFrame ==
  /\ worker /\ ~failure /\ life # "closed"
  /\ Fail
  /\ UNCHANGED <<life, worker, inbox>>

NoticesExit == life = "started"

\* The worker exits or its stream breaks; not a failure while closing.
WorkerExits ==
  /\ worker /\ worker' = FALSE /\ inbox' = {}
  /\ IF NoticesExit /\ ~failure THEN Fail
     ELSE UNCHANGED <<failure, call, closeCall, readyPromise>>
  /\ UNCHANGED life

-----------------------------------------------------------------------------
(* close *)

ControllerClose ==
  /\ life = "started" /\ life' = "closing"
  /\ closeCall' = "pending"
  /\ UNCHANGED <<readyPromise, failure, call, worker, inbox>>

\* The worker is given eight seconds.
CloseTimeout ==
  /\ closeCall = "pending" /\ closeCall' = "ended"
  /\ UNCHANGED <<readyPromise, failure, life, call, worker, inbox>>

FinishClose ==
  /\ life = "closing" /\ closeCall = "ended" /\ life' = "closed"
  /\ call' = Refused
  /\ readyPromise' = Rejected
  /\ worker' = FALSE /\ inbox' = {}
  /\ UNCHANGED <<failure, closeCall>>

ControllerNext ==
  \/ \E c \in Callers : Request(c) \/ Wake(c) \/ Timeout(c) \/ Answer(c)
  \/ Ready \/ AnswerClose \/ BadFrame \/ WorkerExits
  \/ ControllerClose \/ CloseTimeout \/ FinishClose

\* Timers and continuations run; nothing is asked of the worker or of callers.
ControllerFairness ==
  /\ \A c \in Callers : WF_controllerVars(Wake(c)) /\ WF_controllerVars(Timeout(c))
  /\ WF_controllerVars(CloseTimeout) /\ WF_controllerVars(FinishClose)

-----------------------------------------------------------------------------
(* Properties. *)

\* Nobody waits for a worker that is known to be gone: its failure or the end of close rejects what
\* is pending at once, and nothing becomes pending after it.
NobodyLeftBehind == failure \/ life = "closed" => PendingCalls = {}

\* What a caller was told stands: a late answer, a timer or a failure changes nothing for a call that
\* ended.
OutcomeIsFinal == [][\A c \in Callers : call[c] \in Ended => call'[c] = call[c]]_controllerVars

\* A call ends once, for one reason, and at the latest with the worker.
EachCallEndsOnce == []NobodyLeftBehind /\ OutcomeIsFinal

\* Every call ends, and so does close, whatever the worker does: again and again nobody waits, and
\* what ended stays so (OutcomeIsFinal).
EveryCallEnds ==
  []<>(life # "closing" /\ \A c \in Callers : call[c] \notin {"early", "pending"})
==============================================================================
