---------------------------- MODULE ReceiptProofs ----------------------------
(***************************************************************************)
(* Portable receipts: packages/shared/src/receipt-proofs.ts.  A scored     *)
(* claim binds the token of an accepted answer to the blocks of the        *)
(* fixture feed that open and settle its call; claims are collected into   *)
(* a batch with a Merkle root; a proof shows that a claim is in a batch;   *)
(* and an anchor, which says where the root was committed, counts only     *)
(* with what an observer read back.                                        *)
(*                                                                         *)
(* A hash is the term it is made of, so that two are equal when their      *)
(* inputs are; claims are sorted by some order.  A record is named by its  *)
(* place in the feed, which has one fork; references are taken from heads  *)
(* of that feed.  Schemas and encodings are left out.                      *)
(***************************************************************************)
EXTENDS Naturals, FiniteSets, SequencesExt

CONSTANTS
  Feed,          \* the fixture feed: records with a kind and a call
  AnswerTokens,  \* accepted answers: call, feed length at the acceptance, choice
  Transactions,
  Nowhere,
  MaxClaims,     \* MAX_RECEIPT_BATCH_CLAIMS
  MaxBatches     \* bound on the batches of a behaviour

VARIABLES
  batches,    \* sets of claims that were batched
  committed,  \* the root that a transaction committed, or Nowhere
  anchors     \* anchor records

proofVars == <<batches, committed, anchors>>

-----------------------------------------------------------------------------
(* Claims. *)

Opening(call) == CHOOSE i \in DOMAIN Feed : Feed[i].kind = "call.open" /\ Feed[i].call = call
Reference(n, i) == [length |-> n, index |-> i, record |-> Feed[i]]

\* The claim that t and the reference s to a settlement make, if they make one:
\* the settlement is of the token's call and later in the feed, and neither the
\* settlement is void nor the call unscored.
Scored(t, s) ==
  LET i == Opening(t.call)  open == Reference(t.length, i) IN
  {c \in {[token |-> t, open |-> open, settled |-> s]} :
     /\ s.record.kind = "call.settled" /\ s.record.call = t.call
     /\ s.length >= open.length /\ s.index > open.index
     /\ Feed[i].scored /\ s.record.winner # "void"}

References == UNION {{Reference(n, i) : i \in 1 .. n} : n \in DOMAIN Feed}
Claims == UNION {Scored(t, s) : t \in AnswerTokens, s \in References}

-----------------------------------------------------------------------------
(* Batches and their trees. *)

\* A list of claims, one for a token.
Batchable(S) ==
  /\ IsFiniteSet(S) /\ Cardinality(S) \in 1 .. MaxClaims
  /\ Cardinality({c.token : c \in S}) = Cardinality(S)

\* The result of nextPowerOfTwo, turn by turn of its loop, and the turns it takes.
Doubled[k \in 0 .. MaxClaims] == IF k = 0 THEN 1 ELSE 2 * Doubled[k - 1]
Height(n) == CHOOSE h \in 0 .. n : Doubled[h] >= n /\ \A k \in 0 .. h - 1 : Doubled[k] < n
Hashes(b) == SetToSeq(b)

Leaves(b) ==
  [i \in 1 .. Doubled[Height(Cardinality(b))] |->
     IF i <= Cardinality(b) THEN <<"leaf", Hashes(b)[i]>> ELSE <<"padding", i - 1>>]
ParentLevel(level) ==
  [i \in 1 .. Len(level) \div 2 |-> <<"node", level[2 * i - 1], level[2 * i]>>]
Levels(b) ==
  LET up[k \in 0 .. Height(Cardinality(b))] == IF k = 0 THEN Leaves(b) ELSE ParentLevel(up[k - 1])
  IN up
Root(b) == Levels(b)[Height(Cardinality(b))][1]

-----------------------------------------------------------------------------
(* Proofs of inclusion.  An index counts from 0; the side of a step follows *)
(* from it.                                                                *)

\* Where the path from a leaf to the root passes, level by level.
Path(index, height) ==
  LET at[k \in 0 .. height] == IF k = 0 THEN index ELSE at[k - 1] \div 2
  IN at
OnTheRight(index) == index % 2 = 1

\* createReceiptInclusionProof.
Proof(b, c) ==
  LET height == Height(Cardinality(b))
      index == (CHOOSE i \in 1 .. Cardinality(b) : Hashes(b)[i] = c) - 1
      at == Path(index, height)
  IN [root |-> Root(b), claim |-> c, index |-> index, count |-> Cardinality(b),
      siblings |-> [k \in 1 .. height |->
        Levels(b)[k - 1][IF OnTheRight(at[k - 1]) THEN at[k - 1] ELSE at[k - 1] + 2]]]

\* verifyReceiptInclusionProof.
Walk(p) ==
  LET at == Path(p.index, Len(p.siblings))
      up[k \in 0 .. Len(p.siblings)] ==
        IF k = 0 THEN <<"leaf", p.claim>>
        ELSE IF OnTheRight(at[k - 1]) THEN <<"node", p.siblings[k], up[k - 1]>>
        ELSE <<"node", up[k - 1], p.siblings[k]>>
  IN up[Len(p.siblings)]
Included(b, p, c) ==
  /\ p.root = Root(b) /\ p.count = Cardinality(b)
  /\ p.claim = c /\ Hashes(b)[p.index + 1] = c
  /\ Walk(p) = Root(b)

-----------------------------------------------------------------------------
(* Anchors. *)

\* verifyReceiptAnchor, with what an observer reads at the anchor's transaction.
FaultAnchorAlone(b, a) == a.root = Root(b)
Anchored(b, a) == a.root = Root(b) /\ committed[a.transaction] = Root(b)
ProofState(b) == IF \E a \in anchors : Anchored(b, a) THEN "anchored" ELSE "proof-pending"

-----------------------------------------------------------------------------

\* Transactions are finite, and no root is Nowhere.
ASSUME AnchorAssumption ==
  /\ MaxClaims \in Nat /\ IsFiniteSet(Transactions)
  /\ \A S \in SUBSET Claims : Batchable(S) => Root(S) # Nowhere

ProofsOK ==
  /\ batches \subseteq SUBSET Claims
  /\ DOMAIN committed = Transactions
  /\ \A a \in anchors : a.transaction \in Transactions

ProofsInit ==
  /\ batches = {} /\ anchors = {}
  /\ committed = [x \in Transactions |-> Nowhere]

MakeBatch(S) ==
  /\ Batchable(S) /\ S \notin batches /\ Cardinality(batches) < MaxBatches
  /\ batches' = batches \cup {S}
  /\ UNCHANGED <<committed, anchors>>

\* Transactions commit roots, of these batches or of others.
Commit(x, b) ==
  /\ committed[x] = Nowhere
  /\ committed' = [committed EXCEPT ![x] = Root(b)]
  /\ UNCHANGED <<batches, anchors>>

\* An anchor record can name any transaction.
Anchor(x, b) ==
  /\ anchors' = anchors \cup {[root |-> Root(b), transaction |-> x]}
  /\ UNCHANGED <<batches, committed>>

ProofsNext ==
  \/ \E S \in SUBSET Claims : MakeBatch(S)
  \/ \E x \in Transactions, b \in batches : Commit(x, b) \/ Anchor(x, b)

ProofsSpec == ProofsInit /\ [][ProofsNext]_proofVars

-----------------------------------------------------------------------------
(* What must hold. *)

\* receipt-proofs.ts:4: a proof of a claim of a batch shows that claim in that
\* place of that batch, and nothing of another claim or another batch, also when
\* the two have claims in common or trees of different sizes; a batch counts an
\* answer once; and a transaction, whatever anchors name it, anchors one batch.
ReceiptsProveThemselves ==
  /\ \A b, d \in batches : \A c \in b, e \in d : Included(d, Proof(b, c), e) <=> b = d /\ c = e
  /\ \A b \in batches : \A c, d \in b : c.token = d.token => c = d
  /\ Cardinality({b \in batches : ProofState(b) = "anchored"}) <=
       Cardinality({x \in Transactions : committed[x] # Nowhere})
=============================================================================
