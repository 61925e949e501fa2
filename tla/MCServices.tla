----------------------------- MODULE MCServices ------------------------------
(***************************************************************************)
(* The two services that sign logs, the fixture worker and the answer      *)
(* attestor, the feed that the first reads and the receipts that bind what *)
(* they record, as one instance for TLC.  They share no state: a behaviour *)
(* runs the one that part names.                                           *)
(***************************************************************************)
EXTENDS FixturePublisher, AnswerAttestation, ReceiptProofs, FeedStreams

VARIABLE part

\* Two calls, one settled and one void; answers to the first at two lengths of
\* the feed, two of them alike but for the member, and one to the second.
MCFeed ==
  << [kind |-> "call.open", call |-> "d1", scored |-> TRUE],
     [kind |-> "call.open", call |-> "d2", scored |-> TRUE],
     [kind |-> "call.settled", call |-> "d1", winner |-> "yes"],
     [kind |-> "call.settled", call |-> "d2", winner |-> "void"] >>
MCTokens ==
  {[id |-> 1, call |-> "d1", length |-> 1], [id |-> 2, call |-> "d1", length |-> 2],
   [id |-> 3, call |-> "d1", length |-> 2], [id |-> 4, call |-> "d2", length |-> 2]}

ServicesInit ==
  /\ part \in {"publisher", "attestor", "proofs", "streams"}
  /\ Init /\ AttestInit /\ ProofsInit /\ StreamsInit
  /\ part # "streams" => strict /\ activation = 1  \* one initial state each

ServicesNext ==
  /\ part' = part
  /\ IF part = "publisher" THEN Next ELSE UNCHANGED vars
  /\ IF part = "attestor" THEN AttestNext ELSE UNCHANGED attestVars
  /\ IF part = "proofs" THEN ProofsNext ELSE UNCHANGED proofVars
  /\ IF part = "streams" THEN StreamsNext ELSE UNCHANGED feedVars

ServicesSpec == ServicesInit /\ [][ServicesNext]_<<part, vars, attestVars, proofVars, feedVars>>

\* The state of each is well formed.
ServicesOK == TypeOK /\ AttestOK /\ ProofsOK /\ StreamsOK
=============================================================================
