------------------------------ MODULE MCRequests ------------------------------
(***************************************************************************)
(* What is asked for comes to an end, as one instance for TLC: a request   *)
(* on the side of the Electron process (PeerController) and in the worker  *)
(* that dispatches it (RoomHandles), a phase call of the fixture worker    *)
(* (FixturePublisher), and an update of a room on its way to the windows   *)
(* (RoomUpdates).  They share no state: a behaviour runs the one that part *)
(* names, and the others stay in their initial state.                      *)
(***************************************************************************)
EXTENDS RoomHandles, PeerController, RoomUpdates, FixturePublisher

VARIABLE part
requestVars == <<part, handlesVars, controllerVars, vars, updateVars>>

RequestsInit ==
  /\ part \in {"controller", "handles", "publisher", "updates"}
  /\ HandlesInit /\ ControllerInit /\ Init /\ UpdatesInit

RequestsNext ==
  /\ part' = part
  /\ IF part = "controller" THEN ControllerNext ELSE UNCHANGED controllerVars
  /\ IF part = "handles" THEN HandlesNext ELSE UNCHANGED handlesVars
  /\ IF part = "publisher" THEN Next ELSE UNCHANGED vars
  /\ IF part = "updates" THEN UpdatesNext ELSE UNCHANGED updateVars

RequestsSpec ==
  /\ RequestsInit /\ [][RequestsNext]_requestVars
  /\ Fairness /\ ControllerFairness
  /\ WF_vars(Publish) /\ WF_vars(Close)

\* The state of each is well formed.
RequestsOK == HandlesOK /\ ControllerOK /\ UpdatesOK /\ TypeOK

\* Nobody waits forever: neither a window for the worker's answer, nor close for the worker's exit,
\* nor a request for the opens and closes of rooms that other requests started.
NobodyWaitsForever == EveryRequestEnds /\ EveryCallEnds
==============================================================================
