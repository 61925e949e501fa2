---------------------------- MODULE Notifications ----------------------------
(***************************************************************************)
(* System notifications for the messages of others in one room: the worker *)
(* (apps/desktop/workers/room-manager.js _queueRemoteMessageNotifications, *)
(* notification-store.js) and the Electron shell that shows them           *)
(* (electron/main.js, electron/notification-presenter.js).                 *)
(*                                                                         *)
(* An item, its intent and its native notification share the item's name.  *)
(* The intents and the queue are durable; what else there is ends with the *)
(* app.  The pipe from the worker orders its frames; here an offer, the    *)
(* answer to a lifecycle call and the answer to a drain may pass each      *)
(* other, which the waits inside the worker's handlers allow as well.  The *)
(* items that one update found are stored one after another in the code    *)
(* and in any order here.  A worker that ends by itself takes the app's    *)
(* use of the store with it, so that it is a crash.                        *)
(***************************************************************************)
EXTENDS Naturals, SequencesExt, FiniteSetsExt

CONSTANTS
  Items,
  MaxActive,     \* maxActive of the presenter
  MaxUpsets      \* bound on calls that time out, ends of the app and items withdrawn

ASSUME NotifyAssumption ==
  /\ IsFiniteSet(Items) /\ MaxActive \in Nat \ {0} /\ MaxUpsets \in Nat

VARIABLES
  shown,      \* text items of others in the room's view
  intent,     \* intent/<id>: its state
  inbox,      \* the ids under queue/
  app,        \* "up", "closing", "failed" (the controller gave up) or "down"
  knownItems, \* notificationKnownItems of the room
  enqueueing, \* how far enqueue has come for an item
  offers,     \* notification.queued events: <<item, state of its intent>>
  native,     \* active entries of the presenter
  calls,      \* callbackTail: lifecycle events to persist, the first one sent
  overdue,    \* calls that timed out and that the worker still handles
  drain,      \* notificationDrain
  scanned,    \* queue entries the drain's request has read
  lapsed,     \* a lifecycle call of this run of the app failed
  faults

store == <<intent, inbox>>
worker == <<knownItems, enqueueing, offers>>
presenter == <<native, calls, overdue, drain, scanned>>
notifyVars == <<shown, store, app, worker, presenter, lapsed, faults>>

Resolved == {"opened", "dismissed", "failed"}
IntentStates == {"none", "queued", "presented"} \cup Resolved
LifecycleCalls == [item : Items, to : IntentStates \ {"none", "queued"}]

NotifyOK ==
  /\ shown \subseteq Items /\ inbox \subseteq Items /\ scanned \subseteq Items
  /\ lapsed \in BOOLEAN
  /\ intent \in [Items -> IntentStates]
  /\ app \in {"up", "closing", "failed", "down"}
  /\ knownItems \subseteq Items
  /\ enqueueing \in [Items -> {"no", "unseen", "stored"}]
  /\ offers \subseteq Items \X IntentStates
  /\ native \in [Items -> {"no", "showing", "clicked", "presented"}]
  /\ calls \in Seq(LifecycleCalls)
  /\ overdue \subseteq LifecycleCalls
  /\ drain \in {"idle", "scanned", "answered"}
  /\ Cardinality({i \in Items : native[i] # "no"}) <= MaxActive

NotifyInit ==
  /\ shown = {}
  /\ intent = [i \in Items |-> "none"] /\ inbox = {}
  /\ app = "up"
  /\ knownItems = {} /\ enqueueing = [i \in Items |-> "no"] /\ offers = {}
  /\ native = [i \in Items |-> "no"] /\ calls = <<>> /\ overdue = {}
  /\ drain = "idle" /\ scanned = {}
  /\ lapsed = FALSE /\ faults = 0

-----------------------------------------------------------------------------
(* The room's view. *)

Running == app \in {"up", "closing"}

\* A projection with an item that no projection of this run of the app had.
Arrive(i) ==
  /\ i \notin shown /\ shown' = shown \cup {i}
  /\ knownItems' = IF Running THEN knownItems \cup {i} ELSE knownItems
  /\ enqueueing' = IF Running /\ i \notin knownItems THEN [enqueueing EXCEPT ![i] = "unseen"] ELSE enqueueing
  /\ UNCHANGED <<store, app, offers, presenter, lapsed, faults>>

\* Re-linearization rejects an operation that the view had accepted.
Withdraw(i) ==
  /\ i \in shown /\ faults < MaxUpsets
  /\ shown' = shown \ {i} /\ faults' = faults + 1
  /\ UNCHANGED <<store, app, worker, presenter, lapsed>>

-----------------------------------------------------------------------------
(* The worker. *)

\* The member turned notifications off for the room.
Muted(i) ==
  /\ Running /\ enqueueing[i] = "unseen"
  /\ enqueueing' = [enqueueing EXCEPT ![i] = "no"]
  /\ UNCHANGED <<shown, store, app, knownItems, offers, presenter, lapsed, faults>>

\* An intent that exists is returned as it is, and offered.
FaultStoreAgain(i) == TRUE
Missing(i) == intent[i] = "none"
StoreIntent(i) ==
  /\ Running /\ enqueueing[i] = "unseen"
  /\ IF Missing(i)
     THEN /\ intent' = [intent EXCEPT ![i] = "queued"]
          /\ enqueueing' = [enqueueing EXCEPT ![i] = "stored"]
          /\ UNCHANGED offers
     ELSE /\ enqueueing' = [enqueueing EXCEPT ![i] = "no"]
          /\ offers' = offers \cup {<<i, intent[i]>>}
          /\ UNCHANGED intent
  /\ UNCHANGED <<shown, inbox, app, knownItems, presenter, lapsed, faults>>

QueueIntent(i) ==
  /\ Running /\ enqueueing[i] = "stored"
  /\ inbox' = inbox \cup {i}
  /\ offers' = offers \cup {<<i, "queued">>}
  /\ enqueueing' = [enqueueing EXCEPT ![i] = "no"]
  /\ UNCHANGED <<shown, intent, app, knownItems, presenter, lapsed, faults>>

\* drainPendingNotifications: one at a time, and none for a closing app.  The
\* worker's NotificationStore.pending reads the queue.
Wake ==
  IF app = "up" /\ drain = "idle"
  THEN drain' = "scanned" /\ scanned' = inbox'
  ELSE UNCHANGED <<drain, scanned>>

\* NotificationStore.transition.
After(state) ==
  CASE state = "queued" -> {"presented", "failed"}
    [] state = "presented" -> Resolved
    [] OTHER -> {}
Unqueue(call) == inbox \ {call.item}
Transition(call) ==
  IF call.to \in After(intent[call.item])
  THEN /\ intent' = [intent EXCEPT ![call.item] = call.to]
       /\ inbox' = Unqueue(call)
  ELSE UNCHANGED <<intent, inbox>>
AcceptedCall(call) == call.to \in After(intent[call.item]) \cup {intent[call.item]}

\* The callback of the first lifecycle event: the worker's transition, then a
\* new drain.
LifecycleCall ==
  /\ Running /\ calls # <<>>
  /\ Transition(Head(calls))
  /\ calls' = Tail(calls)
  /\ IF AcceptedCall(Head(calls))
     THEN Wake /\ UNCHANGED lapsed
     ELSE lapsed' = TRUE /\ UNCHANGED <<drain, scanned>>
  /\ UNCHANGED <<shown, app, worker, native, overdue, faults>>

PersistLate(call) ==
  /\ Running /\ call \in overdue
  /\ Transition(call)
  /\ overdue' = overdue \ {call}
  /\ UNCHANGED <<shown, app, worker, native, calls, drain, scanned, lapsed, faults>>

\* NotificationStore.pending has read the queue and reads each entry's intent;
\* one that was resolved in between is an error, and the drain ends.
ReadIntents ==
  /\ Running /\ drain = "scanned"
  /\ IF \A i \in scanned : intent[i] = "queued"
     THEN drain' = "answered" /\ UNCHANGED scanned
     ELSE drain' = "idle" /\ scanned' = {}
  /\ UNCHANGED <<shown, store, app, worker, native, calls, overdue, lapsed, faults>>

-----------------------------------------------------------------------------
(* The shell. *)

OnScreen == {i \in Items : native[i] # "no"}
Slots == MaxActive - Cardinality(OnScreen)

\* presentQueuedNotification.  An offer of an intent that is not queued any
\* more throws inside the frame handler, which fails the controller for good.
FreeSlot(i) == i \notin OnScreen /\ Slots >= 1
Offer(i, state) ==
  /\ Running /\ <<i, state>> \in offers
  /\ offers' = offers \ {<<i, state>>}
  /\ UNCHANGED <<shown, store, knownItems, enqueueing, calls, overdue, lapsed, faults>>
  /\ CASE app = "up" /\ state # "queued" ->
            app' = "failed" /\ UNCHANGED <<native, drain, scanned>>
       [] app = "up" /\ state = "queued" /\ FreeSlot(i) ->
            native' = [native EXCEPT ![i] = "showing"] /\ UNCHANGED <<app, drain, scanned>>
       [] app = "up" /\ state = "queued" /\ i \notin OnScreen /\ Slots < 1 ->
            Wake /\ UNCHANGED <<app, native>>
       [] OTHER -> UNCHANGED <<app, native, drain, scanned>>

\* The answer to the drain: intents are presented while there are slots.
Drained ==
  /\ Running /\ drain = "answered"
  /\ LET new == scanned \ OnScreen IN
     \E P \in SUBSET new :
       /\ Cardinality(P) = IF app # "up" THEN 0
                           ELSE IF Cardinality(new) < Slots THEN Cardinality(new) ELSE Slots
       /\ native' = [i \in Items |-> IF i \in P THEN "showing" ELSE native[i]]
  /\ drain' = "idle" /\ scanned' = {}
  /\ UNCHANGED <<shown, store, app, worker, calls, overdue, lapsed, faults>>

Emit(i, state, events) ==
  /\ native' = [native EXCEPT ![i] = state]
  /\ calls' = calls \o [k \in DOMAIN events |-> [item |-> i, to |-> events[k]]]
  /\ UNCHANGED <<shown, store, app, worker, overdue, drain, scanned, lapsed, faults>>

\* A click that came before the show event counts from then.
Show(i) ==
  /\ app = "up"
  /\ \/ native[i] = "showing" /\ Emit(i, "presented", <<"presented">>)
     \/ native[i] = "clicked" /\ Emit(i, "no", <<"presented", "opened">>)

Click(i) ==
  /\ app = "up"
  /\ \/ native[i] = "showing" /\ Emit(i, "clicked", <<>>)
     \/ native[i] = "presented" /\ Emit(i, "no", <<"opened">>)

\* Closed by the user, or by the timer of its lifetime.
Dismiss(i) == app = "up" /\ native[i] = "presented" /\ Emit(i, "no", <<"dismissed">>)

\* Not shown in time, closed before it was shown, or a native failure.
FailNative(i) == app = "up" /\ native[i] # "no" /\ Emit(i, "no", <<"failed">>)

\* The answer does not come in time; the worker handles the call at any time.
LifecycleTimesOut ==
  /\ Running /\ calls # <<>> /\ faults < MaxUpsets
  /\ calls' = Tail(calls) /\ overdue' = overdue \cup {Head(calls)}
  /\ lapsed' = TRUE /\ faults' = faults + 1
  /\ UNCHANGED <<shown, store, app, worker, native, drain, scanned>>

-----------------------------------------------------------------------------
(* The app ends and starts. *)

\* Presenter.close: what is shown is dismissed, what is not yet shown failed.
Quit ==
  /\ app = "up" /\ faults < MaxUpsets
  /\ app' = "closing" /\ faults' = faults + 1
  /\ \E order \in SetToSeqs(OnScreen) :
       calls' = calls \o [k \in DOMAIN order |->
         [item |-> order[k], to |-> IF native[order[k]] = "presented" THEN "dismissed" ELSE "failed"]]
  /\ native' = [i \in Items |-> "no"]
  /\ UNCHANGED <<shown, store, worker, overdue, drain, scanned, lapsed>>

Ended ==
  /\ app' = "down"
  /\ knownItems' = {} /\ enqueueing' = [i \in Items |-> "no"] /\ offers' = {}
  /\ native' = [i \in Items |-> "no"] /\ calls' = <<>> /\ overdue' = {}
  /\ drain' = "idle" /\ scanned' = {} /\ lapsed' = FALSE
  /\ UNCHANGED <<shown, store>>

Stop ==
  /\ app = "closing" /\ calls = <<>>
  /\ Ended /\ UNCHANGED faults

Crash ==
  /\ \/ app = "failed" /\ UNCHANGED faults
     \/ app = "up" /\ faults < MaxUpsets /\ faults' = faults + 1
  /\ Ended

\* bridge.ready starts a drain; the room's first projection only marks what is
\* in the view.
Start ==
  /\ app = "down"
  /\ app' = "up" /\ drain' = "scanned" /\ scanned' = inbox /\ knownItems' = shown
  /\ UNCHANGED <<shown, store, enqueueing, offers, native, calls, overdue, lapsed, faults>>

-----------------------------------------------------------------------------
NotifyWorker ==
  \/ LifecycleCall \/ ReadIntents
  \/ \E i \in Items : Muted(i) \/ StoreIntent(i) \/ QueueIntent(i)
  \/ \E call \in LifecycleCalls : PersistLate(call)

NotifyShell ==
  \/ Drained
  \/ \E i \in Items : Show(i) \/ Dismiss(i) \/ FailNative(i) \/ \E state \in IntentStates : Offer(i, state)

NotifyNext ==
  \/ NotifyWorker \/ NotifyShell
  \/ LifecycleTimesOut \/ Quit \/ Stop \/ Crash \/ Start
  \/ \E i \in Items : Arrive(i) \/ Withdraw(i) \/ Click(i)

\* Handlers go on; a native notification is shown or fails by its show timer
\* and is dismissed by its lifetime timer.
NotifyFairness ==
  /\ WF_notifyVars(LifecycleCall)
  /\ WF_notifyVars(ReadIntents) /\ WF_notifyVars(Drained)
  /\ \A i \in Items :
       /\ WF_notifyVars(Muted(i) \/ StoreIntent(i)) /\ WF_notifyVars(QueueIntent(i))
       /\ WF_notifyVars(\E state \in IntentStates : Offer(i, state))
       /\ WF_notifyVars(native[i] \in {"showing", "clicked"} /\ (Show(i) \/ FailNative(i)))
       /\ WF_notifyVars(Dismiss(i) \/ FailNative(i))

NotifySafety == NotifyInit /\ [][NotifyNext]_notifyVars
NotifySpec == NotifySafety /\ NotifyFairness

-----------------------------------------------------------------------------
(* What must hold. *)

\* Every queue entry has an intent that is queued: NotificationStore.pending
\* throws for one that has not, and would do so at every drain from then on.
\* Enqueueing writes twice and a transition in one batch, the app may end in
\* between, and late calls come in any order.
QueueIsReadable == \A i \in inbox : intent[i] = "queued"

\* An item is stored as a new intent once, whatever leaves and enters the view
\* and however often the app starts: a resolved intent is never queued again.
NeverRequeued ==
  [][\A i \in Items : intent[i] # "none" => intent'[i] # "none" /\ (intent'[i] = "queued" => intent[i] = "queued")
                      /\ (i \in inbox' \ inbox => enqueueing[i] = "stored")]_notifyVars

\* An item is offered to the presenter by one intent at most, which can be read.
OneIntentEach == []QueueIsReadable /\ NeverRequeued

\* notification-presenter.js:92: over capacity, "leave this durable intent
\* queued for retry".
CapacityIsRetried ==
  \A i \in Items : (i \in inbox /\ app = "up") ~> (i \notin inbox \/ lapsed \/ app # "up")
=============================================================================
