----------------------------- MODULE SlipMarket -----------------------------
(***************************************************************************)
(* How a poll gets its market: the author's app signs and sends a          *)
(* transaction to the chain, waits for its confirmation, and attaches the  *)
(* reference to the poll in the room.  In a browser                        *)
(* (apps/web/components/poll-market.tsx) this starts by itself for a poll  *)
(* that has no market; on the phone (ChatTab in apps/mobile/app/index.tsx) *)
(* the author's button posts the poll first.  Both keep a record of what   *)
(* is under way, in localStorage or SecureStore.                           *)
(*                                                                         *)
(* A view is one instance of the component.  A creation belongs to the     *)
(* view that started it and goes on when the view is gone: a switch of     *)
(* tabs, or a vote in the list of polls, replaces the view.  One view is   *)
(* mounted at a time; a second window would be another one.                *)
(*                                                                         *)
(* The chain confirms what was sent, or drops it, at any time.  What an    *)
(* error tells the author is left out, and so are rulebooks, tickets and   *)
(* claims.                                                                 *)
(***************************************************************************)
EXTENDS Naturals, FiniteSets

CONSTANTS
  Views,
  PollIds,
  MarketIds,
  Null

ASSUME NullAssumption == Null \notin PollIds /\ Null \notin MarketIds

VARIABLES
  flow,       \* "web" or "phone"
  posted,     \* polls in the room
  bound,      \* marketReference of each poll
  chain,      \* what became of each market: "new", "sent" or "confirmed"
  retained,   \* the stored record: at most one [poll, ref]
  shown,      \* the page has heard of the poll's reference
  mounted,    \* views that are mounted
  pending,    \* pendingMarket of each view of the phone
  creation,   \* what each view's creation is doing
  recorded,   \* [poll, ref] that a creation stored after its confirmation
  raced       \* a creation began beside another, or from an outdated copy

slipVars == <<flow, posted, bound, chain, retained, shown, mounted, pending, creation,
              recorded, raced>>

Markers == [poll : PollIds, ref : MarketIds \cup {Null}]
Marker(o, m) == [poll |-> o, ref |-> m]
Doing(stage, o, m) == [at |-> stage, poll |-> o, ref |-> m]
NoCreation == Doing("idle", Null, Null)
Running(v) == creation[v].at \notin {"idle", "done"}

SlipOK ==
  /\ flow \in {"web", "phone"} /\ shown \in BOOLEAN /\ raced \in BOOLEAN
  /\ posted \subseteq PollIds
  /\ bound \in [PollIds -> MarketIds \cup {Null}]
  /\ chain \in [MarketIds -> {"new", "sent", "confirmed"}]
  /\ retained \subseteq Markers /\ Cardinality(retained) <= 1
  /\ mounted \subseteq Views /\ Cardinality(mounted) <= 1
  /\ \A v \in Views :
       /\ pending[v] \subseteq Markers /\ Cardinality(pending[v]) <= 1
       /\ creation[v].at \in {"idle", "posting", "minting", "confirming", "keeping", "binding", "done"}
       /\ creation[v].at \in {"confirming", "keeping", "binding"} => creation[v].ref \in MarketIds
  /\ recorded \subseteq Markers

SlipInit ==
  /\ flow \in {"web", "phone"}
  /\ posted \in IF flow = "web" THEN {{o} : o \in PollIds} ELSE {{}}
  /\ bound = [o \in PollIds |-> Null]
  /\ chain = [m \in MarketIds |-> "new"]
  /\ retained = {} /\ shown = FALSE
  /\ mounted = {} /\ pending = [v \in Views |-> {}]
  /\ creation = [v \in Views |-> NoCreation]
  /\ recorded = {} /\ raced = FALSE

-----------------------------------------------------------------------------
(* Views come and go. *)

\* The phone reads its record once, when the tab is mounted.
Mount(v) ==
  /\ mounted = {} /\ creation[v] = NoCreation
  /\ mounted' = {v}
  /\ pending' = [pending EXCEPT ![v] = IF flow = "phone" THEN retained ELSE {}]
  /\ UNCHANGED <<flow, posted, bound, chain, retained, shown, creation, recorded, raced>>

Unmount(v) ==
  /\ v \in mounted
  /\ mounted' = {}
  /\ pending' = [pending EXCEPT ![v] = {}]
  /\ creation' = [creation EXCEPT ![v] = IF Running(v) THEN @ ELSE NoCreation]
  /\ UNCHANGED <<flow, posted, bound, chain, retained, shown, recorded, raced>>

Show ==
  /\ flow = "web" /\ ~shown
  /\ \E o \in posted : bound[o] # Null
  /\ shown' = TRUE
  /\ UNCHANGED <<flow, posted, bound, chain, retained, mounted, pending, creation, recorded, raced>>

\* The page is loaded anew, or the app ends.
Restart ==
  /\ mounted # {} \/ \E v \in Views : Running(v)
  /\ mounted' = {} /\ shown' = FALSE
  /\ pending' = [v \in Views |-> {}]
  /\ creation' = [v \in Views |-> NoCreation]
  /\ UNCHANGED <<flow, posted, bound, chain, retained, recorded, raced>>

-----------------------------------------------------------------------------
(* A creation. *)

\* outdated: what the creation starts from is not what is stored, or in the room.
Begin(v, step, outdated) ==
  /\ creation' = [creation EXCEPT ![v] = step]
  /\ raced' = (raced \/ outdated \/ \E w \in Views : Running(w))
  /\ UNCHANGED <<flow, posted, bound, chain, retained, shown, mounted, pending, recorded>>

\* What a creation does about poll o first, given the record it knows.
FaultMintAnew(o, known) == Doing("minting", o, Null)
FirstStep(o, known) ==
  IF \E r \in known : r.ref # Null
  THEN Doing("binding", o, (CHOOSE r \in known : TRUE).ref)
  ELSE Doing("minting", o, Null)

\* The effect of PollMarket: any rendering of a view whose creationStarted is
\* not set.  It reads the record as it starts.
StartByItself(v) ==
  /\ flow = "web" /\ v \in mounted /\ ~shown
  /\ creation[v] = NoCreation
  /\ \E o \in posted :
       Begin(v, FirstStep(o, retained), bound[o] # Null /\ retained = {})

\* createPoll, with the record of the view.
Press(v) ==
  /\ flow = "phone" /\ v \in mounted /\ creation[v] = NoCreation
  /\ IF pending[v] = {} THEN Begin(v, Doing("posting", Null, Null), retained # {})
     ELSE \E r \in pending[v] : Begin(v, FirstStep(r.poll, {r}), pending[v] # retained)

\* The record is stored; the view that is still mounted follows.
Retain(v, records) ==
  /\ retained' = records
  /\ pending' = IF flow = "phone" /\ v \in mounted THEN [pending EXCEPT ![v] = records] ELSE pending

Goes(v, step) == creation' = [creation EXCEPT ![v] = step]

\* room.poll.create, whose answer may be lost.
PostPoll(v) ==
  /\ creation[v].at = "posting"
  /\ \E o \in PollIds \ posted :
       /\ posted' = posted \cup {o}
       /\ \/ Retain(v, {Marker(o, Null)}) /\ Goes(v, Doing("minting", o, Null))
          \/ Goes(v, NoCreation) /\ UNCHANGED <<retained, pending>>
  /\ UNCHANGED <<flow, bound, chain, shown, mounted, recorded, raced>>

\* createMarketFromRulebook or createMobileMarketReference: a new market id,
\* signed and sent.
Mint(v) ==
  /\ creation[v].at = "minting"
  /\ \E m \in MarketIds :
       /\ chain[m] = "new"
       /\ chain' = [chain EXCEPT ![m] = "sent"]
       /\ Goes(v, Doing("confirming", creation[v].poll, m))
  /\ UNCHANGED <<flow, posted, bound, retained, shown, mounted, pending, recorded, raced>>

Land(m) ==
  /\ chain[m] = "sent"
  /\ chain' = [chain EXCEPT ![m] = "confirmed"]
  /\ UNCHANGED <<flow, posted, bound, retained, shown, mounted, pending, creation, recorded, raced>>

\* sendSlipInstructions returns when the signature's status is confirmed.
StatusConfirmed(m) == chain[m] = "confirmed"

SeeConfirmed(v) ==
  LET c == creation[v] IN
  /\ c.at = "confirming" /\ StatusConfirmed(c.ref)
  /\ Goes(v, Doing("keeping", c.poll, c.ref))
  /\ UNCHANGED <<flow, posted, bound, chain, retained, shown, mounted, pending, recorded, raced>>

\* The reference is written down.  The market of a creation that stops before
\* this, or whose write fails, is on the chain and nowhere else.
KeepReference(v) ==
  LET c == creation[v] IN
  /\ c.at = "keeping"
  /\ Retain(v, {Marker(c.poll, c.ref)})
  /\ Goes(v, Doing("binding", c.poll, c.ref))
  /\ recorded' = recorded \cup {Marker(c.poll, c.ref)}
  /\ UNCHANGED <<flow, posted, bound, chain, shown, mounted, raced>>

\* applyMarketReference: another reference than the poll has is rejected.
Accepts(o, m) == bound[o] \in {Null, m}

\* room.market.reference, whose answer may be lost.
Attach(v) ==
  LET c == creation[v] IN
  /\ c.at = "binding" /\ Accepts(c.poll, c.ref)
  /\ bound' = [bound EXCEPT ![c.poll] = c.ref]
  /\ \/ /\ Retain(v, {})
        /\ Goes(v, IF flow = "web" /\ v \in mounted THEN Doing("done", c.poll, c.ref) ELSE NoCreation)
     \/ Goes(v, NoCreation) /\ UNCHANGED <<retained, pending>>
  /\ UNCHANGED <<flow, posted, chain, shown, mounted, recorded, raced>>

\* A step fails: no wallet, a request or rejection, 90 seconds without a status,
\* a write of the record.
Fail(v) ==
  /\ Running(v)
  /\ Goes(v, NoCreation)
  /\ UNCHANGED <<flow, posted, bound, chain, retained, shown, mounted, pending, recorded, raced>>

-----------------------------------------------------------------------------

SlipNext ==
  \/ Show \/ Restart
  \/ \E m \in MarketIds : Land(m)
  \/ \E v \in Views :
       \/ Mount(v) \/ Unmount(v) \/ StartByItself(v) \/ Press(v)
       \/ PostPoll(v) \/ Mint(v) \/ SeeConfirmed(v) \/ KeepReference(v) \/ Attach(v) \/ Fail(v)

SlipSpec == SlipInit /\ [][SlipNext]_slipVars

-----------------------------------------------------------------------------
(* What must hold. *)

\* The reference that members get to see names a market that the chain
\* confirmed and that the author's app had on record for that poll.
BoundIsConfirmed ==
  \A o \in PollIds : bound[o] # Null =>
    chain[bound[o]] = "confirmed" /\ Marker(o, bound[o]) \in recorded

\* PEAR-ROOMS-HANDOFF.md:123: a confirmed market is not lost when its attachment
\* fails: once its reference is on record the poll has a market, or the record
\* names one for it.  Unless creations raced each other, it is the only one
\* recorded for the poll, and no creation is on its way to another: retries
\* after a failed attachment, a lost answer or a restart mint no second market.
\* Before the reference is on record nothing is promised: a creation that ends
\* between the confirmation and the write is tried again with a new market.
Kept(c) == bound[c.poll] # Null \/ \E r \in retained : r.poll = c.poll /\ r.ref # Null
BeforeRecord == {"minting", "confirming", "keeping"}
MarketsAreKept ==
  /\ flow = "web" \/ ~raced => \A c \in recorded : Kept(c)
  /\ ~raced => \A c \in recorded :
       /\ \A d \in recorded : c.poll = d.poll => c = d
       /\ \A v \in Views : creation[v].poll = c.poll => creation[v].at \notin BeforeRecord

\* A poll gets its market once and for good.
PollsKeepTheirMarket == BoundIsConfirmed /\ MarketsAreKept
=============================================================================
