---------------------------- MODULE MCProduction ----------------------------
(***************************************************************************)
(* Block production of one node, its first synchronisation, and the        *)
(* fetching of one block.  Fetching shares no state with the others: the   *)
(* chain grows in FirstSync by blocks that are fetched, and Fetch shows    *)
(* that a block is.  Production and synchronisation meet only in the event *)
(* DwlDone and in the calls of the node.  So they are explored one beside  *)
(* the other: `sync' with chains of all heights and two calls, in the      *)
(* first interval, in which the committee cannot notify anybody, and       *)
(* `production' with all times and three calls, in a node without peers.   *)
(***************************************************************************)
EXTENDS Production, Fetch

VARIABLE part    \* the component this behaviour is about

MCMember == <<"m1", "m2">>
SyncCalls == 2

MCInit ==
  /\ ProdInit /\ FetchInit
  /\ part \in {"production", "sync", "fetch"}
  /\ part # "sync" => top = 0
  /\ part = "fetch" => once

InProduction == part' = "production" /\ peerHeight' = peerHeight /\ top' = 0

InSync == part' = "sync" /\ calls' <= SyncCalls /\ now' = now /\ committee' = committee

MCNext ==
  \/ part = "production" /\ ProdNext /\ InProduction /\ UNCHANGED fetchVars
  \/ part = "sync" /\ ProdNext /\ InSync /\ UNCHANGED fetchVars
  \/ part = "fetch" /\ FetchNext /\ UNCHANGED <<part, allVars>>

Step(A) == part # "fetch" /\ Running /\ A

\* The goroutines go on: syncFirst, whose tickers keep ticking, the workers until
\* they are in the ledger, and the caller of the node.  Blocks that others have are
\* fetched.
ProdFairness ==
  /\ WF_allVars(Step(DwlDone \/ (SyncStep /\ UNCHANGED prodVars)))
  /\ WF_allVars(Step(ChainGrows /\ UNCHANGED prodVars))
  /\ \A w \in Worker : WF_allVars(Step(WorkerStep(w)))
  /\ WF_allVars(Step(CallStep))

\* The pool's loop keeps asking and time goes on.  A message that is sent again
\* and again arrives at last.
FetchFairness ==
  /\ WF_fetchVars(part = "fetch" /\ AskHashes)
  /\ WF_fetchVars(part = "fetch" /\ Second)
  /\ SF_fetchVars(part = "fetch" /\ AnswerHashes)
  /\ SF_fetchVars(part = "fetch" /\ HandleHashes)
  /\ SF_fetchVars(part = "fetch" /\ AnswerBlocks)
  /\ SF_fetchVars(part = "fetch" /\ HandleBlocks)

MCSpec ==
  /\ MCInit /\ [][MCNext]_<<part, allVars, fetchVars>>
  /\ ProdFairness /\ FetchFairness

-----------------------------------------------------------------------------
(* Properties of the node as a whole, and those that need fairness.        *)

\* The variables have their types.
NodeTypeOK == ProdTypeOK /\ FetchTypeOK

\* While the pool lacks a block, the block is brought to AddBlock again and again,
\* whatever messages were lost before, and also if an earlier fetch of it has been
\* marked done.  So a block that was never compounded gets into the pool.  One
\* that the pool has dropped is fetched as well, and refused: the run lost_block.
BlockFetched ==
  <>[](part = "fetch" /\ ~have) => []<><<HandleBlocks>>_fetchVars

\* StopMiner returns unless what it waits for never ends: the goroutine of an
\* earlier start, or one that is in MiningSnapshotBlock.  So with the ledger as it
\* is, a miner that was never notified can be stopped, whatever the committee
\* does meanwhile, and one that has begun a block cannot.
MinerStops ==
  (call \in {"stop2", "node stop2"}) ~>
    (call \notin {"stop2", "node stop2"} \/ Stray \/ InLedger \/ ~Running)

\* The first synchronisation ends, unless no node of the network has a block
\* above the height the chosen peer had: then it waits without a timeout.
FirstSyncEnds ==
  (part # "fetch" /\ at \in Waiting) ~>
    (done \/ syncClosed \/ ~Running \/ (at = "wait" /\ top <= taHeight))

=============================================================================
