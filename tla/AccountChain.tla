---------------------------- MODULE AccountChain ----------------------------
(***************************************************************************)
(* The accounts' side of the ledger: the account chains with their         *)
(* snapshot points (chain/account_chain.go, chain/chain.go), the store     *)
(* (store/block_store.go), the request pool (ledger/req_pool.go), the two  *)
(* verifiers, and the chains of the account pools (pool/bc_pool.go).       *)
(*                                                                         *)
(* The module has the state, what the code reads from it, and, as actions, *)
(* the functions that change it.  A nil pointer that the code follows is   *)
(* recorded in panic; nothing runs after that.                             *)
(***************************************************************************)
EXTENDS Integers, Sequences, FiniteSets, SequencesExt, FiniteSetsExt

CONSTANTS
    Account,     \* addresses
    ABlock,      \* every account block: made here or by peers, forks included
    Body,        \* ABlock -> the fields of the block
    GenesisOf,   \* Account -> the account's block in the store at start, or Nil
    SBlock,      \* every snapshot block
    SBody,       \* SBlock -> height, and accounts: a sequence of [addr, block]
    SGenesis,    \* the genesis snapshot block
    Nil,         \* Go's nil and the empty hash ""
    MaxHeight    \* bound: the height of the highest account block

Height == 0..MaxHeight
BlockOrNil == ABlock \cup {Nil}
BlockType == {"GENESIS", "SEND", "RECEIVED"}

(***************************************************************************)
(* A hash identifies a block; `signer' owns the chain the block is in.     *)
(* `snapshot' is the snapshot block referred to and `source' the sent      *)
(* block that a RECEIVED block receives.                                   *)
(***************************************************************************)
ASSUME BodyAssumption ==
    /\ MaxHeight \in Nat
    /\ Nil \notin ABlock \cup SBlock
    /\ Body \in [ABlock -> [height : Height, preHash : BlockOrNil,
                            signer : Account, blockType : BlockType,
                            to : Account, amount : Int, modified : Int,
                            snapshot : SBlock, source : BlockOrNil]]
    /\ GenesisOf \in [Account -> BlockOrNil]
    /\ SGenesis \in SBlock
    /\ SBody \in [SBlock -> [height : Nat, accounts : Seq([addr : Account, block : ABlock])]]

BlockHeight == [b \in ABlock |-> Body[b].height]
PreHash == [b \in ABlock |-> Body[b].preHash]
SHeight(sb) == SBody[sb].height
Refer(b) == SHeight(Body[b].snapshot)

(***************************************************************************)
(* What nodes that run this code put into blocks: NewAccountBlock and      *)
(* NewAccountBlockFrom count heights and link blocks within one account;   *)
(* ResponseAccountBlock signs for the receiver, and is called for what     *)
(* ListRequest has shown; NextAccountSnapshot ranges over a map.           *)
(***************************************************************************)
ASSUME MadeAssumption ==
    /\ \A b \in ABlock : PreHash[b] # Nil =>
          /\ BlockHeight[b] = BlockHeight[PreHash[b]] + 1
          /\ Body[PreHash[b]].signer = Body[b].signer
    /\ \A b \in ABlock : Body[b].blockType = "RECEIVED" =>
          /\ Body[b].to = Body[b].signer
          /\ Body[b].source \in ABlock
          /\ Body[Body[b].source].blockType = "SEND"
          /\ Body[Body[b].source].to = Body[b].signer
    /\ \A a \in Account : GenesisOf[a] # Nil =>
          /\ Body[GenesisOf[a]].signer = a
          /\ BlockHeight[GenesisOf[a]] = 0
          /\ Body[GenesisOf[a]].blockType = "GENESIS"
    /\ \A sb \in SBlock : \A i, j \in DOMAIN SBody[sb].accounts :
          i # j => SBody[sb].accounts[i].addr # SBody[sb].accounts[j].addr

VARIABLES
    head,        \* accountChain.head, per account
    byHeight,    \* store.accountHeight, per account
    points,      \* accountChain.snapshotPoint, per account: a stack
    inMap,       \* the accounts that blockchain.ac has a chain for
    byHash,      \* store.accountHash
    sourceHash,  \* store.sourceHash
    reqs,        \* reqPool: 2 open, 1 received, 0 dirty, -1 no entry
    sdisk,       \* the snapshot blocks on disk above genesis
    chains,      \* chainPool.chains, per account; chains are numbered by genChainId
    current,     \* chainPool.current, per account; 0 while there is no pool
    known,       \* the pools' compoundBlocks
    panic,       \* "", or which nil pointer was followed
    spoiled,     \* history: accounts whose chain lost a block or was replaced
    strayed      \* history: accounts whose pool was switched off the disk's head,
                 \* or during an insertion

diskVars == <<head, byHeight, points, inMap, byHash, sourceHash, reqs>>
poolVars == <<chains, current, known>>
dataVars == <<diskVars, poolVars, sdisk, panic, spoiled, strayed>>

-----------------------------------------------------------------------------
(***************************************************************************)
(* Reading the chains                                                      *)
(***************************************************************************)
AtHeight(a, h) == IF h \in Height THEN byHeight[a][h] ELSE Nil
HeadHeight(a) == IF head[a] = Nil THEN -1 ELSE BlockHeight[head[a]]
OnDisk(b) == AtHeight(Body[b].signer, BlockHeight[b]) = b
TopPoint(a) == IF points[a] = <<>> THEN -1 ELSE points[a][Len(points[a])].aHeight

SnapshotAt(h) == IF h = 0 THEN SGenesis ELSE IF h \in DOMAIN sdisk THEN sdisk[h] ELSE Nil
SnapshotHead == SnapshotAt(Len(sdisk))

\* Faulty: the search begins above the head.
ReceiptFromAbove(a, src) ==
    LET hit == {h \in 1..(HeadHeight(a) + 1) :
                   \/ AtHeight(a, h) = Nil
                   \/ /\ Body[AtHeight(a, h)].blockType = "RECEIVED"
                      /\ Body[AtHeight(a, h)].source = src}
    IN  IF hit = {} THEN [hole |-> FALSE, block |-> Nil]
        ELSE [hole |-> AtHeight(a, Max(hit)) = Nil, block |-> AtHeight(a, Max(hit))]

\* Both walks go down from the head and follow a nil block at a hole.
\* getBySourceBlock, down to height 1: the receipt of a sent block.
Receipt(a, src) ==
    LET hit == {h \in 1..HeadHeight(a) :
                   \/ AtHeight(a, h) = Nil
                   \/ /\ Body[AtHeight(a, h)].blockType = "RECEIVED"
                      /\ Body[AtHeight(a, h)].source = src}
    IN  IF hit = {} THEN [hole |-> FALSE, block |-> Nil]
        ELSE [hole |-> AtHeight(a, Max(hit)) = Nil, block |-> AtHeight(a, Max(hit))]

\* findAccountAboveSnapshotHeight, down to height 0.
AboveSnapshotHeight(a, sh) ==
    LET hit == {h \in 0..HeadHeight(a) :
                   AtHeight(a, h) = Nil \/ Refer(AtHeight(a, h)) <= sh}
    IN  IF hit = {} THEN Nil ELSE AtHeight(a, Max(hit))

-----------------------------------------------------------------------------
(***************************************************************************)
(* The account verifier                                                    *)
(***************************************************************************)
\* checkGenesis: a chain that starts with a receipt must be empty.
CheckGenesis(b) ==
    IF /\ head[Body[b].signer] = Nil
       /\ PreHash[b] = Nil
       /\ Body[b].modified = Body[b].amount
    THEN "SUCCESS" ELSE "FAIL"

CheckSelfAmount(b) ==
    LET last == head[Body[b].signer]
    IN  IF /\ last # Nil
           /\ last = PreHash[b]
           /\ Refer(last) <= Refer(b)
           /\ Body[b].blockType = "SEND" => Body[b].modified <= 0
           /\ Body[b].blockType = "RECEIVED" => Body[b].modified >= 0
           /\ Body[last].amount + Body[b].modified = Body[b].amount
           /\ Body[b].amount > 0
        THEN "SUCCESS" ELSE "FAIL"

\* Faulty: a sent block may be received again.
VerifySelfAgain(b) ==
    IF Body[b].blockType = "RECEIVED" /\ BlockHeight[b] = 0
    THEN CheckGenesis(b) ELSE CheckSelfAmount(b)

VerifySelf(b) ==
    IF Body[b].blockType = "RECEIVED" /\ BlockHeight[b] = 0 THEN CheckGenesis(b)
    ELSE IF /\ Body[b].blockType = "RECEIVED"
            /\ Receipt(Body[b].to, Body[b].source).block # Nil
    THEN "FAIL"
    ELSE CheckSelfAmount(b)

\* Faulty: a source that is not there yet is not waited for.
VerifyFromLater(b) == "SUCCESS"

\* checkFromAmount: the sent block is looked up by its height.
VerifyFrom(b) ==
    LET src == Body[b].source
        found == AtHeight(Body[src].signer, BlockHeight[src])
    IN  IF Body[b].blockType # "RECEIVED" THEN "SUCCESS"
        ELSE IF found = Nil THEN "PENDING"
        ELSE IF /\ found = src
                /\ Refer(b) >= Refer(src)
                /\ Body[src].modified + Body[b].modified = 0
        THEN "SUCCESS" ELSE "FAIL"

VerifySnapshot(b) ==
    IF SnapshotAt(Refer(b)) = Body[b].snapshot THEN "SUCCESS" ELSE "PENDING"

\* VerifyReferred and VerifyResult.
VerifyAccount(b) ==
    LET results == {VerifySnapshot(b), VerifySelf(b), VerifyFrom(b)}
    IN  IF Body[b].blockType = "GENESIS"
        THEN IF GenesisOf[Body[b].signer] = b THEN "SUCCESS" ELSE "FAIL"
        ELSE IF "FAIL" \in results THEN "FAIL"
        ELSE IF "PENDING" \in results THEN "PENDING" ELSE "SUCCESS"

\* The walk for an earlier receipt meets a hole.
VerifyPanics(b) == /\ Body[b].blockType = "RECEIVED" /\ BlockHeight[b] > 0
                   /\ Receipt(Body[b].to, Body[b].source).hole

\* What a pending verification asks for: verifyTask.Requests.
Requests(b) == IF VerifyFrom(b) = "PENDING" THEN {Body[b].source} ELSE {}

-----------------------------------------------------------------------------
(***************************************************************************)
(* The snapshot verifier: the accounts of the block, in order, up to the   *)
(* first that differs.                                                     *)
(***************************************************************************)
AccountResult(h) ==
    LET found == AtHeight(h.addr, BlockHeight[h.block])
    IN  IF found = Nil THEN "PENDING" ELSE IF found = h.block THEN "SUCCESS" ELSE "FAIL"

VerifyAccounts(sb) ==
    LET hs == SBody[sb].accounts
        r == [i \in DOMAIN hs |-> AccountResult(hs[i])]
        fails == {i \in DOMAIN hs : r[i] = "FAIL"}
    IN  IF fails # {} THEN [result |-> "FAIL", of |-> {hs[Min(fails)]}]
        ELSE [result |-> IF \A i \in DOMAIN hs : r[i] = "SUCCESS" THEN "SUCCESS" ELSE "PENDING",
              of |-> {hs[i] : i \in {j \in DOMAIN hs : r[j] = "PENDING"}}]

-----------------------------------------------------------------------------
(***************************************************************************)
(* insertChain of an account chain, in the two halves other goroutines can *)
(* tell apart: the block can be read (Put) before the listener, which is   *)
(* the request pool, has heard of it (Notify).                             *)
(***************************************************************************)
Put(b) ==
    LET a == Body[b].signer
    IN  /\ byHeight' = [byHeight EXCEPT ![a][BlockHeight[b]] = b]
        /\ head' = [head EXCEPT ![a] = b]
        /\ byHash' = byHash \cup {b}

\* The entry of the request pool that a block is about, and whether
\* blockInsert or blockRollback would follow a nil pointer to it.
ReqOf(b) == IF Body[b].blockType = "SEND" THEN b ELSE Body[b].source
NoReq(b) == Body[b].blockType # "GENESIS" /\ reqs[ReqOf(b)] = -1
Unheard(b) == Body[b].blockType = "RECEIVED" /\ NoReq(b)

\* Faulty: a received request stays open.
BlockInsertOpen(b) ==
    CASE Body[b].blockType = "SEND" -> [reqs EXCEPT ![b] = 2]
      [] OTHER -> reqs

\* reqPool.blockInsert: the state of the requests after it.
BlockInsert(b) ==
    CASE Body[b].blockType = "SEND" -> [reqs EXCEPT ![b] = 2]
      [] Body[b].blockType = "RECEIVED" -> [reqs EXCEPT ![Body[b].source] = 1]
      [] OTHER -> reqs

\* reqPool.blockRollback
BlockRollback(b) ==
    CASE Body[b].blockType = "SEND" -> [reqs EXCEPT ![b] = 0]
      [] Body[b].blockType = "RECEIVED" -> [reqs EXCEPT ![Body[b].source] = 2]
      [] OTHER -> reqs

\* getReqs: what ListRequest shows of the sent blocks, dirty ones included.
ListRequest(a) == {b \in ABlock : Body[b].to = a /\ reqs[b] \in {0, 2}}

SourceHash(b, r) == IF Body[b].blockType = "RECEIVED"
                    THEN [sourceHash EXCEPT ![Body[b].source] = r] ELSE sourceHash

Notify(b) == /\ reqs' = BlockInsert(b)
             /\ sourceHash' = SourceHash(b, b)

(***************************************************************************)
(* removeChain, for a block that no snapshot point protects.  The new head *)
(* is looked up by the hash of the removed block, before it is deleted.    *)
(* The listener is called after the store has forgotten the block.         *)
(***************************************************************************)
Delete(a, b) ==
    /\ byHash' = byHash \ {b}
    /\ byHeight' = [byHeight EXCEPT ![a][BlockHeight[b]] = Nil]
    /\ spoiled' = spoiled \cup {a}

RemoveChain(a, b) ==
    /\ Delete(a, b)
    /\ reqs' = BlockRollback(b)
    /\ head' = [head EXCEPT ![a] = IF b \in byHash THEN b ELSE Nil]
    /\ sourceHash' = SourceHash(b, Nil)

-----------------------------------------------------------------------------
(***************************************************************************)
(* Snapshot points                                                         *)
(***************************************************************************)
Point(sb, h) == [sHeight |-> SHeight(sb), sHash |-> sb,
                 aHeight |-> BlockHeight[h.block], aHash |-> h.block]

\* SnapshotPoint's checks.
PointValid(sb, h) ==
    LET p == points[h.addr]
    IN  /\ head[h.addr] # Nil
        /\ p # <<>> => /\ SHeight(sb) > p[Len(p)].sHeight
                       /\ BlockHeight[h.block] >= p[Len(p)].aHeight
        /\ AtHeight(h.addr, BlockHeight[h.block]) = h.block

\* InsertSnapshotBlock: the block is stored first; the points are pushed in
\* the order of the block's accounts, up to the first that is refused.
Refused(sb) == {i \in DOMAIN SBody[sb].accounts : ~PointValid(sb, SBody[sb].accounts[i])}

Pushed(sb, a) == {i \in DOMAIN SBody[sb].accounts :
                     SBody[sb].accounts[i].addr = a /\ \A j \in Refused(sb) : i < j}

InsertSnapshotBlock(sb) ==
    /\ sdisk' = Append(SubSeq(sdisk, 1, SHeight(sb) - 1), sb)
    /\ points' = [a \in Account |->
                    IF Pushed(sb, a) = {} THEN points[a]
                    ELSE Append(points[a],
                                Point(sb, SBody[sb].accounts[CHOOSE i \in Pushed(sb, a) : TRUE]))]

\* RollbackSnapshotPoint(start, end): points are popped while they are below
\* end, and the one at end's height with them.  A point above end stops it.
\* It leaves the lowest k points.
PopsTo(p, end, k) ==
    /\ \A i \in k+1..Len(p) : p[i].aHeight <= end.aHeight
    /\ \A i \in k+2..Len(p) : p[i].aHeight # end.aHeight
    /\ \/ k = 0
       \/ k < Len(p) /\ p[k + 1].aHeight = end.aHeight
       \/ p[k].aHeight > end.aHeight

\* All points are popped and end's was not among them.
PopsTooFar(p, end, k) == k = 0 /\ p[1].aHeight # end.aHeight

\* getUnlockAccountSnapshot: the snapshot blocks above the fork point that
\* name account a; the head of the disk always counts, even genesis.
UnlockHeights(a, n) ==
    {h \in 0..Len(sdisk) : /\ h > n \/ h = Len(sdisk)
                           /\ \E x \in Range(SBody[SnapshotAt(h)].accounts) : x.addr = a}

PointAt(h, a) == Point(SnapshotAt(h), CHOOSE x \in Range(SBody[SnapshotAt(h)].accounts) : x.addr = a)

-----------------------------------------------------------------------------
(***************************************************************************)
(* The account pools' chains.  0 stands for the disk as a chain referred   *)
(* to.  Nil marks an absent key of heightBlocks.                           *)
(***************************************************************************)
Disk == 0
Current(a) == chains[a][current[a]]
HasPool(a) == current[a] # 0

\* Faulty: the chain of an empty account begins a height too low.
ChainBelow(b) == [tailHeight |-> IF b = Nil THEN -2 ELSE BlockHeight[b], tailHash |-> b,
                  headHeight |-> IF b = Nil THEN -1 ELSE BlockHeight[b], headHash |-> b,
                  heightBlocks |-> [h \in Height |-> Nil], referChain |-> Disk]

\* forkedChain.init at block b, or below height 0 for an empty account.
ChainAt(b) == [tailHeight |-> IF b = Nil THEN -1 ELSE BlockHeight[b], tailHash |-> b,
               headHeight |-> IF b = Nil THEN -1 ELSE BlockHeight[b], headHash |-> b,
               heightBlocks |-> [h \in Height |-> Nil], referChain |-> Disk]

\* forkChain with a snippet of the one block b; its tailHash stays "".
ForkOf(b, c) == [tailHeight |-> BlockHeight[b] - 1, tailHash |-> Nil,
                 headHeight |-> BlockHeight[b], headHash |-> b,
                 heightBlocks |-> [h \in Height |-> IF h = BlockHeight[b] THEN b ELSE Nil],
                 referChain |-> c]

AddHead(c, b) == [c EXCEPT !.headHash = b, !.headHeight = BlockHeight[b],
                           !.heightBlocks = [@ EXCEPT ![BlockHeight[b]] = b]]
AddTail(c, b) == [c EXCEPT !.tailHash = PreHash[b], !.tailHeight = BlockHeight[b] - 1,
                           !.heightBlocks = [@ EXCEPT ![BlockHeight[b]] = b]]
RemoveTail(c, b) == [c EXCEPT !.tailHash = b, !.tailHeight = BlockHeight[b],
                              !.heightBlocks = [@ EXCEPT ![BlockHeight[b]] = Nil]]

OwnBlock(a, c, h) == IF h \in Height THEN chains[a][c].heightBlocks[h] ELSE Nil

\* forkedChain.getBlock(h, true): the lookup ignores the chains' bounds.
GetBlock(a, c, h) ==
    LET get[d \in DOMAIN chains[a]] ==
            IF OwnBlock(a, d, h) # Nil THEN OwnBlock(a, d, h)
            ELSE IF chains[a][d].referChain = Disk THEN AtHeight(a, h)
            ELSE get[chains[a][d].referChain]
    IN  get[c]

\* findForkPoint for a snippet of the one block b.
HasForkPoint(a, c, b) ==
    /\ PreHash[b] # Nil /\ GetBlock(a, c, BlockHeight[b] - 1) = PreHash[b]
    /\ GetBlock(a, c, BlockHeight[b]) \notin {b, Nil}

\* chainPool.init and currentModify: a new chain becomes the current one.
NewCurrent(a) ==
    /\ chains' = [chains EXCEPT ![a] = Append(@, ChainAt(head[a]))]
    /\ current' = [current EXCEPT ![a] = Len(chains[a]) + 1]

\* Faulty: the old chain stays current.
InsertNotifyKeep(a) == UNCHANGED <<chains, current>>

\* insertNotify: the current chain follows the disk if it is empty and ends
\* below the new head; otherwise a fresh chain takes its place.
Follows(a) == LET c == Current(a)
                  pre == IF head[a] = Nil THEN Nil ELSE PreHash[head[a]]
              IN  c.headHeight = c.tailHeight /\ c.tailHash = pre /\ c.headHash = pre

InsertNotify(a) ==
    IF Follows(a)
    THEN /\ chains' = [chains EXCEPT ![a] = [@ EXCEPT ![current[a]] =
                [Current(a) EXCEPT !.tailHeight = HeadHeight(a), !.tailHash = head[a],
                                   !.headHeight = HeadHeight(a), !.headHash = head[a]]]]
         /\ UNCHANGED current
    ELSE NewCurrent(a)

(***************************************************************************)
(* ForkAccountTo(h).  FindInChain, then a chain that has the block, by the *)
(* order of the map (whichChain), then the fork point of that chain and    *)
(* the current one (getForkPointByChains): the highest block they share,   *)
(* found only if neither has a hole above it.  It begins with the heads of *)
(* both chains, which it takes to be there.                                *)
(***************************************************************************)
InChains(h) == {c \in DOMAIN chains[h.addr] :
                   OwnBlock(h.addr, c, BlockHeight[h.block]) = h.block}

WhichChain(h) == IF InChains(h) = {} THEN {0} ELSE InChains(h)

NoHead(a, c) == GetBlock(a, c, chains[a][c].headHeight) = Nil

ForkBlock(a, c) ==
    LET top == Min({chains[a][c].headHeight, Current(a).headHeight})
        pair(i) == {GetBlock(a, c, i), GetBlock(a, current[a], i)}
        stop == {i \in 0..top : Nil \in pair(i) \/ Cardinality(pair(i)) = 1}
    IN  IF stop = {} \/ Nil \in pair(Max(stop)) THEN Nil ELSE GetBlock(a, c, Max(stop))

(***************************************************************************)
(* getWaitRollbackAccounts: who must be rolled back, and how far, when the *)
(* accounts of tasks are.  A round takes every task over into wait, where  *)
(* canAdd and addWaitRollback together let the later one win, and looks up *)
(* the receipts of the sent blocks that go (TryRollback); of two receipts  *)
(* of one account the lower becomes the next task.  A missing receipt is   *)
(* dereferenced before it is compared with nil.                            *)
(***************************************************************************)
NoTasks == [a \in Account |-> Nil]

Sends(a, b) ==
    IF b = Nil \/ AtHeight(a, IF b = Nil THEN 0 ELSE BlockHeight[b]) # b THEN {}
    ELSE {x \in ABlock : /\ OnDisk(x) /\ Body[x].signer = a /\ Body[x].blockType = "SEND"
                         /\ BlockHeight[x] > BlockHeight[b]
                         /\ BlockHeight[x] <= HeadHeight(a)}

SendsOf(tasks) == UNION {Sends(a, tasks[a]) : a \in Account}
ReceiptsOf(tasks, a) == {Receipt(a, x).block : x \in {y \in SendsOf(tasks) : Body[y].to = a}}

NextTasks(tasks) ==
    [a \in Account |-> IF ReceiptsOf(tasks, a) = {} THEN Nil
                       ELSE CHOOSE r \in ReceiptsOf(tasks, a) :
                                \A q \in ReceiptsOf(tasks, a) : BlockHeight[r] <= BlockHeight[q]]

TakenOver(wait, tasks) == [a \in Account |-> IF tasks[a] = Nil THEN wait[a] ELSE tasks[a]]

\* The checks at the end of rollback and at the beginning of
\* currentModifyToChain.  No chain goes through the empty block that stands
\* for no head.
OffHead(a) == Current(a).tailHeight # HeadHeight(a) \/ Current(a).tailHash # head[a]
ThroughHead(a, c) == head[a] # Nil /\ GetBlock(a, c, HeadHeight(a)) = head[a]

\* modifyRefer: `from' hands its top block below to's tail over, one at most.
HandedOver(a, to) ==
    LET from == chains[a][to].referChain
        h == chains[a][to].tailHeight
    IN  IF h > chains[a][from].tailHeight THEN OwnBlock(a, from, h) ELSE Nil

HandsNil(a, to) ==
    LET from == chains[a][to].referChain
        h == chains[a][to].tailHeight
    IN  h > chains[a][from].tailHeight /\ OwnBlock(a, from, h) = Nil

Turned(a, to) ==
    LET from == chains[a][to].referChain
        b == HandedOver(a, to)
        upper == IF b = Nil THEN chains[a][to] ELSE AddTail(chains[a][to], b)
        lower == IF b = Nil THEN chains[a][from] ELSE RemoveTail(chains[a][from], b)
    IN  [c \in DOMAIN chains[a] |->
            IF c = from THEN [lower EXCEPT !.referChain = to]
            ELSE IF c = to THEN [upper EXCEPT !.referChain = chains[a][from].referChain]
            ELSE chains[a][c]]
=============================================================================
