------------------------------- MODULE Ledger -------------------------------
(***************************************************************************)
(* The goroutines that share the account chains:                           *)
(*                                                                         *)
(*  - callers of the ledger make a block on the head they read, then add   *)
(*    it directly (AddDirectAccountBlock);                                 *)
(*  - the network and loopCompact put blocks of peers into account pools;  *)
(*  - loopTryInsert verifies the blocks of the pools and writes them;      *)
(*  - the snapshot pool's loop verifies the next snapshot block against    *)
(*    the accounts, writes it, or forks the account that differs;          *)
(*  - the snapshot pool's fork check unlocks and rolls back accounts.      *)
(*                                                                         *)
(* All but the last hold the ledger's lock for reading only, so that they  *)
(* interleave; rMu keeps the insertions into one account apart, and no     *)
(* lock keeps them from insertVerifyFail's rollback.  Making a block and   *)
(* loopCompact take no lock of the ledger at all.                          *)
(***************************************************************************)
EXTENDS AccountChain

CONSTANTS
    Caller,      \* goroutines that call RequestAccountBlock, ResponseAccountBlock
    Local,       \* the blocks that can be made here
    Asked,       \* the accounts whose balance is asked for while they are set up
    Announced,   \* the blocks that peers send without being asked
    Branch,      \* the snapshot chains: sequences of snapshot blocks above genesis
    MaxVersion   \* bound on the fork version

ASSUME LedgerAssumption ==
    /\ Asked \subseteq Account
    /\ Local \subseteq ABlock /\ Announced \subseteq ABlock \ Local
    /\ \A b \in Local : Body[b].blockType # "GENESIS"
    /\ MaxVersion \in Nat
    /\ Branch \in Seq(Seq(SBlock)) /\ Branch # <<>>
    /\ \A br \in DOMAIN Branch : \A h \in DOMAIN Branch[br] : SHeight(Branch[br][h]) = h

VARIABLES
    ever,      \* the account blocks ever written
    version,   \* the fork version
    arriving,  \* account blocks that a peer may deliver
    branch,    \* the snapshot pool's current chain
    stail,     \* the height of its tail: what it has written
    tailed,    \* whether it has a tail hash: a chain that forked off has none
    caller,    \* per caller: where it is, its block, the version it saw
    inserter,  \* the same for loopTryInsert, and the chain it inserts from
    snap,      \* a fork of accounts: by the snapshot loop, or by the fork check
    loading    \* accounts whose chain a reader has built and not yet published

goVars == <<ever, version, arriving, branch, stail, tailed, caller, inserter, snap, loading>>
vars == <<dataVars, goVars>>

Idle == [pc |-> "idle", block |-> Nil, chain |-> 0, version |-> 0]

(***************************************************************************)
(* snap: br is the branch that the fork check switches to, with the write  *)
(* lock held, or 0 for the snapshot loop; n is the height of the fork      *)
(* point; todo the accounts still to unlock; keys the accounts still to    *)
(* fork; chain the chain to switch the first of them to; tasks and wait    *)
(* are getWaitRollbackAccounts'; acc is the account that is rolled back    *)
(* and height how far that has come.                                       *)
(***************************************************************************)
NoFork == [pc |-> "idle", br |-> 0, n |-> 0, todo |-> {}, keys |-> <<>>, chain |-> 0,
           tasks |-> NoTasks, wait |-> NoTasks, acc |-> Nil, height |-> 0]

Init ==
    \* newAccountChain: the head the store has, no snapshot points.
    /\ head = GenesisOf
    /\ byHeight = [a \in Account |-> [h \in Height |-> IF h = 0 THEN GenesisOf[a] ELSE Nil]]
    /\ points = [a \in Account |-> <<>>]
    /\ inMap = {}
    /\ byHash = {GenesisOf[a] : a \in Account} \ {Nil}
    /\ sourceHash = [b \in ABlock |-> Nil]
    /\ reqs = [b \in ABlock |-> -1]
    /\ sdisk = <<>>
    /\ chains = [a \in Account |-> <<>>]
    /\ current = [a \in Account |-> 0]
    /\ known = {} /\ ever = {} /\ spoiled = {} /\ strayed = {} /\ loading = {}
    /\ panic = ""
    /\ version = 0
    /\ arriving = Announced
    /\ branch = 1
    /\ stail = 0 /\ tailed = TRUE
    /\ caller = [g \in Caller |-> Idle]
    /\ inserter = Idle
    /\ snap = NoFork

Running == panic = ""
WriteLocked == snap.br # 0

-----------------------------------------------------------------------------
(***************************************************************************)
(* First use of an account.  selfPendingAc makes its pool, which reads the *)
(* head and so has selfAc make the account chain.  A reader that looked    *)
(* for the chain before (HeadAccount, for a balance) publishes the one it  *)
(* built afterwards, over the one in use.                                  *)
(***************************************************************************)
SelfPendingAc(a) ==
    /\ Running /\ ~HasPool(a)
    /\ inMap' = inMap \cup {a}
    /\ NewCurrent(a)
    /\ UNCHANGED <<head, byHeight, points, byHash, sourceHash, reqs, sdisk, known, panic,
                   spoiled, strayed, goVars>>

SelfAcMiss(a) ==
    /\ Running /\ a \in Asked /\ a \notin inMap \cup loading
    /\ loading' = loading \cup {a}
    /\ UNCHANGED <<dataVars, ever, version, arriving, branch, stail, tailed, caller, inserter, snap>>

SelfAcStore(a) ==
    /\ Running /\ a \in loading
    /\ loading' = loading \ {a}
    /\ inMap' = inMap \cup {a}
    /\ head' = [head EXCEPT ![a] = GenesisOf[a]]
    /\ points' = [points EXCEPT ![a] = <<>>]
    /\ spoiled' = IF head[a] = GenesisOf[a] /\ points[a] = <<>>
                  THEN spoiled ELSE spoiled \cup {a}
    /\ UNCHANGED <<byHeight, byHash, sourceHash, reqs, sdisk, poolVars, panic, strayed,
                   ever, version, arriving, branch, stail, tailed, caller, inserter, snap>>

-----------------------------------------------------------------------------
(***************************************************************************)
(* The network and loopCompact.  A block whose predecessor the pool does   *)
(* not have waits in a snippet (SnapshotPool has that part); a block that  *)
(* can be placed extends a chain, or forks off the current one.            *)
(***************************************************************************)
Arrived(b) == /\ Running /\ HasPool(Body[b].signer)
              /\ b \in arriving \ known
              \* What it names of ours, we have sent.
              /\ {PreHash[b], Body[b].source} \cap Local \subseteq arriving
              \* compactLock
              /\ inserter.pc # "idle" => Body[inserter.block].signer # Body[b].signer

Ends(b) == {c \in DOMAIN chains[Body[b].signer] :
               /\ chains[Body[b].signer][c].headHeight = BlockHeight[b] - 1
               /\ chains[Body[b].signer][c].headHash = PreHash[b]}

CompactExtend(b) ==
    LET a == Body[b].signer
    IN  /\ Arrived(b)
        /\ \E c \in Ends(b) :
              chains' = [chains EXCEPT ![a] = [@ EXCEPT ![c] = AddHead(chains[a][c], b)]]
        /\ known' = known \cup {b}
        /\ UNCHANGED <<diskVars, current, sdisk, panic, spoiled, strayed, goVars>>

CompactFork(b) ==
    LET a == Body[b].signer
    IN  /\ Arrived(b) /\ Ends(b) = {}
        /\ BlockHeight[b] - 1 <= HeadHeight(a)
        /\ HasForkPoint(a, current[a], b)
        /\ chains' = [chains EXCEPT ![a] = Append(@, ForkOf(b, current[a]))]
        /\ known' = known \cup {b}
        /\ UNCHANGED <<diskVars, current, sdisk, panic, spoiled, strayed, goVars>>

-----------------------------------------------------------------------------
(***************************************************************************)
(* Callers.  The heads are read without a lock when the block is made.     *)
(***************************************************************************)
Busy(p, a) == p.pc \in {"verified", "put", "next"} /\ Body[p.block].signer = a

\* Faulty: rMu is not taken.
RMuIgnored(a) == TRUE

\* Nobody holds rMu of the account's pool.
RMuFree(a) == ~Busy(inserter, a) /\ \A g \in Caller : ~Busy(caller[g], a)

\* NewAccountBlockFrom in RequestAccountBlock, NewAccountBlock in
\* ResponseAccountBlock: the block that follows the head.
MadeHere(b) ==
    LET prev == head[Body[b].signer]
        first == IF Body[b].blockType = "SEND" THEN 1 ELSE 0
    IN  /\ PreHash[b] = prev
        /\ BlockHeight[b] = IF prev = Nil THEN first ELSE BlockHeight[prev] + 1
        /\ Body[b].amount = Body[b].modified + (IF prev = Nil THEN 0 ELSE Body[prev].amount)
        /\ Body[b].snapshot = SnapshotHead
        /\ Body[b].blockType = "RECEIVED" =>
              /\ Body[b].source \in byHash
              /\ Body[b].modified = - Body[Body[b].source].modified

MakeBlock(g, b) ==
    /\ Running /\ caller[g].pc = "idle"
    /\ b \in Local \ ever
    /\ MadeHere(b)
    /\ caller' = [caller EXCEPT ![g] = [pc |-> "made", block |-> b, chain |-> 0, version |-> 0]]
    /\ UNCHANGED <<dataVars, ever, version, arriving, branch, stail, tailed, inserter, snap, loading>>

\* AddDirectBlock, under the read lock and rMu: the version is read first.
AddDirectVerify(g) ==
    LET b == caller[g].block
    IN  /\ Running /\ ~WriteLocked /\ caller[g].pc = "made"
        /\ HasPool(Body[b].signer) /\ RMuFree(Body[b].signer)
        /\ panic' = IF VerifyPanics(b) THEN "hole" ELSE ""
        /\ caller' = [caller EXCEPT ![g] =
                        IF VerifyAccount(b) = "SUCCESS" /\ ~VerifyPanics(b)
                        THEN [pc |-> "verified", block |-> b, chain |-> 0, version |-> version]
                        ELSE Idle]
        /\ UNCHANGED <<diskVars, poolVars, sdisk, spoiled, strayed,
                       ever, version, arriving, branch, stail, tailed, inserter, snap, loading>>

\* accountCh.insertChain refuses a block verified under another version.
SameVersion(p) == p.version = version

AddDirectInsert(g) ==
    LET b == caller[g].block
    IN  /\ Running /\ caller[g].pc = "verified" /\ SameVersion(caller[g])
        /\ Put(b)
        /\ ever' = ever \cup {b}
        /\ caller' = [caller EXCEPT ![g] = [@ EXCEPT !.pc = "put"]]
        /\ UNCHANGED <<points, inMap, sourceHash, reqs, poolVars, sdisk, panic, spoiled, strayed,
                       version, arriving, branch, stail, tailed, inserter, snap, loading>>

AddDirectRefuse(g) ==
    /\ Running /\ caller[g].pc = "verified" /\ ~SameVersion(caller[g])
    /\ caller' = [caller EXCEPT ![g] = Idle]
    /\ UNCHANGED <<dataVars, ever, version, arriving, branch, stail, tailed, inserter, snap, loading>>

AddDirectNotify(g) ==
    LET b == caller[g].block
    IN  /\ Running /\ caller[g].pc = "put" /\ ~Unheard(b)
        /\ Notify(b)
        /\ InsertNotify(Body[b].signer)
        /\ caller' = [caller EXCEPT ![g] = Idle]
        \* BroadcastAccountBlocks: peers have it and may send it back.
        /\ arriving' = arriving \cup {b}
        /\ UNCHANGED <<head, byHeight, points, inMap, byHash, known, sdisk, panic, spoiled,
                       strayed, ever, version, branch, stail, tailed, inserter, snap, loading>>

\* reqPool.blockInsert follows the nil pointer of a request it does not have.
NotifyPanics(p) ==
    /\ Running /\ p.pc = "put" /\ Unheard(p.block)
    /\ panic' = "no request"
    /\ UNCHANGED <<diskVars, poolVars, sdisk, spoiled, strayed, goVars>>

-----------------------------------------------------------------------------
(***************************************************************************)
(* loopTryInsert: an account's current chain, from its tail up to the      *)
(* first block that cannot be written yet.  The chain is read once, and    *)
(* rMu is held until the end: "next" is between two blocks.  Tasks only    *)
(* delay the next attempt, for 5 s at most.                                *)
(***************************************************************************)
AtNext(a) == inserter.pc = "next" /\ Body[inserter.block].signer = a
TryChain(a) == IF AtNext(a) THEN inserter.chain ELSE current[a]
TryHeight(a) == IF AtNext(a) THEN BlockHeight[inserter.block] + 1
                ELSE Current(a).tailHeight + 1

NextOf(a) == OwnBlock(a, TryChain(a), TryHeight(a))

CanTryInsert(a) ==
    /\ Running /\ HasPool(a)
    /\ AtNext(a) \/ (~WriteLocked /\ inserter.pc = "idle" /\ RMuFree(a))
    /\ TryHeight(a) <= chains[a][TryChain(a)].headHeight

\* The block is not there, or the verifier's walk meets a hole.
TryInsertPanics(a) ==
    /\ CanTryInsert(a)
    /\ \/ NextOf(a) = Nil /\ panic' = "gap"
       \/ NextOf(a) # Nil /\ VerifyPanics(NextOf(a)) /\ panic' = "hole"
    /\ UNCHANGED <<diskVars, poolVars, sdisk, spoiled, strayed, goVars>>

TryInsertVerify(a) ==
    /\ CanTryInsert(a) /\ NextOf(a) # Nil
    /\ ~VerifyPanics(NextOf(a)) /\ VerifyAccount(NextOf(a)) = "SUCCESS"
    /\ inserter' = [pc |-> "verified", block |-> NextOf(a), chain |-> TryChain(a),
                    version |-> version]
    /\ UNCHANGED <<dataVars, ever, version, arriving, branch, stail, tailed, caller, snap, loading>>

\* fetchForTask: what is missing is asked for unless its pool has a block at
\* that height.
TryInsertPending(a) ==
    /\ CanTryInsert(a) /\ NextOf(a) # Nil
    /\ ~VerifyPanics(NextOf(a)) /\ VerifyAccount(NextOf(a)) = "PENDING"
    /\ arriving' = arriving \cup
          {b \in Requests(NextOf(a)) :
              LET o == Body[b].signer
              IN  HasPool(o) => Current(o).heightBlocks[BlockHeight[b]] = Nil}
    /\ inserter' = Idle
    /\ UNCHANGED <<dataVars, ever, version, branch, stail, tailed, caller, snap, loading>>

\* The walk ends at the head of the chain, or at a block that is refused.
TryInsertEnd(a) ==
    /\ Running /\ AtNext(a)
    /\ CanTryInsert(a) => /\ NextOf(a) # Nil /\ ~VerifyPanics(NextOf(a))
                          /\ VerifyAccount(NextOf(a)) = "FAIL"
    /\ inserter' = Idle
    /\ UNCHANGED <<dataVars, ever, version, arriving, branch, stail, tailed, caller, snap, loading>>

StillNext == LET b == inserter.block
             IN  BlockHeight[b] = chains[Body[b].signer][inserter.chain].tailHeight + 1

TryInsertWrite ==
    LET b == inserter.block
    IN  /\ Running /\ inserter.pc = "verified" /\ SameVersion(inserter) /\ StillNext
        /\ Put(b)
        /\ ever' = ever \cup {b}
        /\ inserter' = [inserter EXCEPT !.pc = "put"]
        /\ UNCHANGED <<points, inMap, sourceHash, reqs, poolVars, sdisk, panic, spoiled, strayed,
                       version, arriving, branch, stail, tailed, caller, snap, loading>>

TryInsertRefuse ==
    /\ Running /\ inserter.pc = "verified" /\ ~(SameVersion(inserter) /\ StillNext)
    /\ inserter' = Idle
    /\ UNCHANGED <<dataVars, ever, version, arriving, branch, stail, tailed, caller, snap, loading>>

TryInsertNotify ==
    LET b == inserter.block
        a == Body[b].signer
    IN  /\ Running /\ inserter.pc = "put" /\ ~Unheard(b)
        /\ Notify(b)
        /\ chains' = [chains EXCEPT ![a] = [@ EXCEPT ![inserter.chain] =
                                     RemoveTail(chains[a][inserter.chain], b)]]
        /\ inserter' = [inserter EXCEPT !.pc = "next"]
        /\ UNCHANGED <<head, byHeight, points, inMap, byHash, current, known, sdisk, panic,
                       spoiled, strayed, ever, version, arriving, branch, stail, tailed, caller, snap,
                       loading>>

-----------------------------------------------------------------------------
(***************************************************************************)
(* The snapshot pool's loop: the next block of its current chain.          *)
(***************************************************************************)
NextSnapshot == Branch[branch][stail + 1]

\* A peer that names one of our blocks has got it from us.
Sent(sb) == \A h \in Range(SBody[sb].accounts) : h.block \in Local => h.block \in arriving

CanSnapshot == /\ Running /\ snap.pc = "idle" /\ stail < Len(Branch[branch])
               /\ Sent(NextSnapshot)
Verified == VerifyAccounts(NextSnapshot)

SnapshotInsert ==
    /\ CanSnapshot /\ Verified.result = "SUCCESS"
    /\ InsertSnapshotBlock(NextSnapshot)
    /\ stail' = IF Refused(NextSnapshot) = {} THEN stail + 1 ELSE stail
    /\ tailed' = (tailed \/ Refused(NextSnapshot) = {})
    /\ UNCHANGED <<head, byHeight, inMap, byHash, sourceHash, reqs, poolVars, panic, spoiled,
                   strayed, ever, version, arriving, branch, caller, inserter, snap, loading>>

\* insertVerifyPending and PendingAccountTo
SnapshotPending ==
    /\ CanSnapshot /\ Verified.result = "PENDING"
    /\ \A h \in Verified.of : HasPool(h.addr)
    /\ arriving' = arriving \cup {h.block : h \in {x \in Verified.of : InChains(x) = {}}}
    /\ UNCHANGED <<dataVars, ever, version, branch, stail, tailed, caller, inserter, snap, loading>>

\* insertVerifyFail begins: the account that differs is to be forked.
SnapshotFail ==
    /\ CanSnapshot /\ Verified.result = "FAIL" /\ version < MaxVersion
    /\ \E h \in Range(SBody[NextSnapshot].accounts) :
          /\ h \in Verified.of
          /\ snap' = [NoFork EXCEPT !.pc = "key", !.keys = <<h>>]
    /\ UNCHANGED <<dataVars, ever, version, arriving, branch, stail, tailed, caller, inserter, loading>>

-----------------------------------------------------------------------------
(***************************************************************************)
(* snapshotFork, under the write lock, to another branch br of snapshot    *)
(* blocks.  When br is long enough is LongestChain's business and modelled *)
(* in SnapshotPool; here it may happen at any time.                        *)
(***************************************************************************)
NoReader == /\ inserter.pc = "idle" /\ snap.pc = "idle"
            /\ \A g \in Caller : caller[g].pc \in {"idle", "made"}

\* getForkPoint: the branches share their blocks up to height n.
ForkPoint(br, n) ==
    /\ n + 1 \in DOMAIN Branch[branch] \cap DOMAIN Branch[br]
    /\ \A h \in 1..n : Branch[branch][h] = Branch[br][h]
    /\ Branch[branch][n + 1] # Branch[br][n + 1]

SnapshotFork(br) ==
    /\ Running /\ NoReader /\ version < MaxVersion
    /\ \E n \in 0..Len(Branch[br]) :
          /\ ForkPoint(br, n) /\ Sent(Branch[br][n + 1])
          /\ snap' = [NoFork EXCEPT !.pc = "unlock", !.br = br, !.n = n,
                                    !.todo = {a \in Account : UnlockHeights(a, n) # {}},
                                    !.keys = SBody[Branch[br][n + 1]].accounts]
    /\ UNCHANGED <<dataVars, ever, version, arriving, branch, stail, tailed, caller, inserter, loading>>

\* One round of UnLockAccounts, which gives up at the first error, with the
\* points of the highest and the lowest snapshot block that names the account.
UnLockAccount(a) ==
    LET p == points[a]
        start == PointAt(Max(UnlockHeights(a, snap.n)), a)
        end == PointAt(Min(UnlockHeights(a, snap.n)), a)
    IN  /\ Running /\ snap.pc = "unlock" /\ a \in snap.todo
        /\ \/ /\ ~(p # <<>> /\ p[Len(p)] = start)
              /\ snap' = NoFork /\ UNCHANGED points
           \/ /\ p # <<>> /\ p[Len(p)] = start
              /\ \E k \in {j \in 0..Len(p) : PopsTo(p, end, j)} :
                    /\ points' = [points EXCEPT ![a] = SubSeq(p, 1, k)]
                    /\ snap' = IF PopsTooFar(p, end, k) THEN NoFork
                               ELSE [snap EXCEPT !.todo = @ \ {a}]
        /\ UNCHANGED <<head, byHeight, inMap, byHash, sourceHash, reqs, poolVars, sdisk, panic,
                       spoiled, strayed, ever, version, arriving, branch, stail, tailed, caller,
                       inserter, loading>>

\* FindRollbackPointByReferSnapshot: the pools whose head refers to the fork
\* point or above.
Touched(n) == {a \in Account : /\ HasPool(a)
                               /\ head[a] = Nil => n = 0
                               /\ head[a] # Nil => Refer(head[a]) >= n}

\* ForkAccounts begins.  Where it finds no block it follows a nil pointer.
ForkAccounts ==
    LET tasks == [a \in Account |-> IF a \in Touched(snap.n)
                                    THEN AboveSnapshotHeight(a, snap.n) ELSE Nil]
    IN  /\ Running /\ snap.pc = "unlock" /\ snap.todo = {}
        /\ IF \E a \in Touched(snap.n) : tasks[a] = Nil
           THEN panic' = "no block" /\ UNCHANGED snap
           ELSE snap' = [snap EXCEPT !.pc = "wait", !.tasks = tasks] /\ UNCHANGED panic
        /\ UNCHANGED <<diskVars, poolVars, sdisk, spoiled, strayed,
                       ever, version, arriving, branch, stail, tailed, caller, inserter, loading>>

-----------------------------------------------------------------------------
(***************************************************************************)
(* The part that ForkAccounts and ForkAccountTo share: who waits, then one *)
(* account after the other, block by block.                                *)
(***************************************************************************)
\* A round of getWaitRollbackAccounts.
WaitRollback ==
    LET sends == SendsOf(snap.tasks)
    IN  /\ Running /\ snap.pc = "wait" /\ snap.tasks # NoTasks
        /\ IF \E x \in sends : Receipt(Body[x].to, x).hole
           THEN panic' = "hole" /\ UNCHANGED snap
           ELSE IF \E x \in sends : Receipt(Body[x].to, x).block = Nil
           THEN panic' = "no receipt" /\ UNCHANGED snap
           ELSE /\ snap' = [snap EXCEPT !.wait = TakenOver(@, snap.tasks),
                                        !.tasks = NextTasks(@)]
                /\ UNCHANGED panic
        /\ UNCHANGED <<diskVars, poolVars, sdisk, spoiled, strayed,
                       ever, version, arriving, branch, stail, tailed, caller, inserter, loading>>

\* rollback begins, at the tail of the current chain.
Rollback(a) ==
    /\ Running /\ snap.pc = "wait" /\ snap.tasks = NoTasks
    /\ snap.wait[a] # Nil /\ HasPool(a)
    /\ snap' = [snap EXCEPT !.pc = "rollback", !.acc = a, !.height = Current(a).tailHeight]
    /\ UNCHANGED <<dataVars, ever, version, arriving, branch, stail, tailed, caller, inserter, loading>>

\* The loop is over: ForkAccounts gives up after an error, ForkAccountTo
\* goes on.
Ended(err) == IF err /\ snap.chain = 0 THEN NoFork
              ELSE [snap EXCEPT !.pc = "wait", !.wait = [@ EXCEPT ![snap.acc] = Nil]]

More == snap.pc = "rollback" /\ snap.height > BlockHeight[snap.wait[snap.acc]]
Victim == AtHeight(snap.acc, snap.height)

\* Faulty: the snapshot points are not looked at.
RemovableConfirmed == More /\ Victim # Nil

\* hasSnapshotPoint: blocks at or below the last point stay.
Removable == More /\ Victim # Nil /\ TopPoint(snap.acc) < snap.height

\* A round of rollback: the block leaves the disk for the current chain.  A
\* nil pointer is followed where the disk has no block, and where the request
\* pool has no request for the block, which the store has then forgotten.
RollbackBlock ==
    LET a == snap.acc
        b == Victim
    IN  /\ Running /\ Removable
        /\ IF NoReq(b)
           THEN /\ panic' = "no request" /\ Delete(a, b)
                /\ UNCHANGED <<head, sourceHash, reqs, chains, snap>>
           ELSE /\ RemoveChain(a, b) /\ UNCHANGED panic
                /\ chains' = [chains EXCEPT ![a] = [@ EXCEPT ![current[a]] = AddTail(Current(a), b)]]
                /\ snap' = [snap EXCEPT !.height = @ - 1]
        /\ UNCHANGED <<points, inMap, current, known, sdisk, strayed,
                       ever, version, arriving, branch, stail, tailed, caller, inserter, loading>>

RollbackEnd ==
    /\ Running /\ snap.pc = "rollback" /\ ~Removable
    /\ IF More /\ Victim = Nil
       THEN panic' = "hole" /\ UNCHANGED snap
       ELSE snap' = Ended(More \/ OffHead(snap.acc)) /\ UNCHANGED panic
    /\ UNCHANGED <<diskVars, poolVars, sdisk, spoiled, strayed,
                   ever, version, arriving, branch, stail, tailed, caller, inserter, loading>>

RolledBack == snap.pc = "wait" /\ snap.tasks = NoTasks /\ snap.wait = NoTasks
Key == Head(snap.keys)
KeyDone == [snap EXCEPT !.pc = "key", !.keys = Tail(@), !.chain = 0]

\* ForkAccounts goes on to the accounts of the key point.
ForkKeys ==
    /\ Running /\ RolledBack /\ snap.chain = 0
    /\ snap' = [snap EXCEPT !.pc = "key"]
    /\ UNCHANGED <<dataVars, ever, version, arriving, branch, stail, tailed, caller, inserter, loading>>

\* getForkPointByChains asks both chains for their heads.
Headless(a, c) == c \notin {0, current[a]} /\ (NoHead(a, c) \/ NoHead(a, current[a]))

\* ForkAccountTo decides: nothing to do, a block to ask for, or a chain to
\* switch to and who is rolled back for it.
ForkAccountTo ==
    LET a == Key.addr
        to(c) == IF c \in {0, current[a]} \/ ForkBlock(a, c) \notin ABlock THEN KeyDone
                 ELSE [snap EXCEPT !.pc = "wait", !.chain = c,
                                   !.tasks = [NoTasks EXCEPT ![a] = ForkBlock(a, c)]]
    IN  /\ Running /\ snap.pc = "key" /\ snap.keys # <<>> /\ HasPool(a)
        /\ \E c \in WhichChain(Key) :
              IF Headless(a, c)
              THEN panic' = "no head" /\ UNCHANGED <<arriving, snap>>
              ELSE /\ arriving' = arriving \cup IF c = 0 THEN {Key.block} ELSE {}
                   /\ snap' = to(c)
                   /\ UNCHANGED panic
        /\ UNCHANGED <<diskVars, poolVars, sdisk, spoiled, strayed,
                       ever, version, branch, stail, tailed, caller, inserter, loading>>

\* currentModifyToChain is refused if the chain does not go through the head ...
ModifyCheck ==
    /\ Running /\ RolledBack /\ snap.chain # 0
    /\ snap' = IF ThroughHead(Key.addr, snap.chain) THEN [snap EXCEPT !.pc = "refer"] ELSE KeyDone
    /\ UNCHANGED <<dataVars, ever, version, arriving, branch, stail, tailed, caller, inserter, loading>>

\* ... turns the references around until the chain refers to the disk, even
\* if one of the chains is being inserted from ...
ModifyRefer ==
    LET a == Key.addr
    IN  /\ Running /\ snap.pc = "refer" /\ chains[a][snap.chain].referChain # Disk
        /\ IF HandsNil(a, snap.chain)
           THEN panic' = "gap" /\ UNCHANGED <<chains, strayed>>
           ELSE /\ chains' = [chains EXCEPT ![a] = Turned(a, snap.chain)]
                /\ strayed' = IF RMuFree(a) THEN strayed ELSE strayed \cup {a}
                /\ UNCHANGED panic
        /\ UNCHANGED <<diskVars, current, known, sdisk, spoiled, goVars>>

\* ... and makes it current.  It may not start at the head: the lookup ignores
\* bounds, refused rollbacks were ignored, an insertion may be in progress.
Strays(a, c) == \/ chains[a][c].tailHeight # HeadHeight(a)
                \/ chains[a][c].tailHash \notin {head[a], Nil}
                \/ ~RMuFree(a)

ModifyCurrent ==
    LET a == Key.addr
    IN  /\ Running /\ snap.pc = "refer" /\ chains[a][snap.chain].referChain = Disk
        /\ current' = [current EXCEPT ![a] = snap.chain]
        /\ strayed' = IF Strays(a, snap.chain) THEN strayed \cup {a} ELSE strayed
        /\ snap' = KeyDone
        /\ UNCHANGED <<diskVars, chains, known, sdisk, panic, spoiled,
                       ever, version, arriving, branch, stail, tailed, caller, inserter, loading>>

\* insertVerifyFail ends: the version goes up, whether or not anything was
\* forked.
FailEnd ==
    /\ Running /\ snap.pc = "key" /\ snap.keys = <<>> /\ snap.br = 0
    /\ version' = version + 1
    /\ snap' = NoFork
    /\ UNCHANGED <<dataVars, ever, arriving, branch, stail, tailed, caller, inserter, loading>>

\* snapshotFork ends: the snapshot blocks above the fork point go, the other
\* branch becomes current and the version goes up.  rollback reports an error
\* when the disk is ahead of the chain, and, if it had nothing to remove, when
\* the chain has no tail hash.  Whether the new chain has one depends on the
\* blocks that the turn-around hands over.  SnapshotPool has that part, and the
\* hole it leaves when the fork point is two or more above the tail (run
\* deep_fork); here the branch is handed over whole.
ForkEnd ==
    LET n == snap.n
    IN  /\ Running /\ snap.pc = "key" /\ snap.keys = <<>> /\ snap.br # 0
        /\ snap' = NoFork
        /\ IF n >= stail /\ (Len(sdisk) # stail \/ ~tailed)
           THEN UNCHANGED <<sdisk, version, branch, stail, tailed>>
           ELSE /\ sdisk' = IF n < Len(sdisk) THEN SubSeq(sdisk, 1, n) ELSE sdisk
                /\ version' = version + 1
                /\ branch' = snap.br
                /\ stail' = IF n < stail THEN n ELSE stail
                /\ tailed' \in BOOLEAN
        /\ UNCHANGED <<diskVars, poolVars, panic, spoiled, strayed,
                       ever, arriving, caller, inserter, loading>>

-----------------------------------------------------------------------------
Pools == \/ \E a \in Account : SelfPendingAc(a) \/ SelfAcMiss(a) \/ SelfAcStore(a)
         \/ \E b \in ABlock : CompactExtend(b) \/ CompactFork(b)

Callers == \E g \in Caller : \/ \E b \in Local : MakeBlock(g, b)
                             \/ AddDirectVerify(g) \/ AddDirectInsert(g) \/ AddDirectRefuse(g)
                             \/ AddDirectNotify(g)

Inserter == \/ \E a \in Account : \/ TryInsertPanics(a) \/ TryInsertVerify(a)
                                   \/ TryInsertPending(a) \/ TryInsertEnd(a)
            \/ TryInsertWrite \/ TryInsertRefuse \/ TryInsertNotify

Procs == {inserter} \cup {caller[g] : g \in Caller}

Snapshots == \/ SnapshotInsert \/ SnapshotPending \/ SnapshotFail
             \/ \E br \in DOMAIN Branch : SnapshotFork(br)

Forks == \/ \E a \in Account : UnLockAccount(a) \/ Rollback(a)
         \/ ForkAccounts \/ WaitRollback \/ RollbackBlock \/ RollbackEnd
         \/ ForkKeys \/ ForkAccountTo \/ ModifyCheck \/ ModifyRefer \/ ModifyCurrent
         \/ FailEnd \/ ForkEnd

Next == \/ Pools \/ Callers \/ Inserter \/ Snapshots \/ Forks
        \/ \E p \in Procs : NotifyPanics(p)

Spec == Init /\ [][Next]_vars
-----------------------------------------------------------------------------
(***************************************************************************)
(* Properties                                                              *)
(***************************************************************************)
Sound(a) == a \notin spoiled
Writing(a) == ~RMuFree(a)
Switching(a) == snap.pc = "refer" /\ Key.addr = a

ChainRec == [tailHeight : -1..MaxHeight, tailHash : BlockOrNil,
             headHeight : -1..MaxHeight, headHash : BlockOrNil,
             heightBlocks : [Height -> BlockOrNil], referChain : Nat]
PointRec == [sHeight : Nat, sHash : SBlock, aHeight : Height, aHash : ABlock]
Proc == [pc : {"idle", "made", "verified", "put", "next"}, block : BlockOrNil, chain : Nat,
         version : 0..MaxVersion]
KeyRec == [addr : Account, block : ABlock]
Keys == Seq(KeyRec)
Fork == [pc : {"idle", "unlock", "wait", "rollback", "key", "refer"},
         br : Nat, n : Nat, todo : SUBSET Account,
         keys : Keys, chain : Nat,
         tasks : [Account -> BlockOrNil], wait : [Account -> BlockOrNil],
         acc : Account \cup {Nil}, height : -1..MaxHeight]

DiskTypeOK ==
    /\ head \in [Account -> BlockOrNil]
    /\ byHeight \in [Account -> [Height -> BlockOrNil]]
    /\ points \in [Account -> Seq(PointRec)]
    /\ inMap \subseteq Account /\ byHash \subseteq ABlock
    /\ sourceHash \in [ABlock -> BlockOrNil]
    /\ reqs \in [ABlock -> -1..2]
    /\ sdisk \in Seq(SBlock)

\* Every chain that a chain refers to, or that somebody works on, exists.
PoolTypeOK ==
    /\ chains \in [Account -> Seq(ChainRec)]
    /\ current \in [Account -> Nat]
    /\ \A a \in Account :
          /\ current[a] \in 0..Len(chains[a])
          /\ current[a] = 0 => chains[a] = <<>>
          /\ \A c \in 1..Len(chains[a]) : chains[a][c].referChain \in 0..Len(chains[a])

ProcTypeOK(p) ==
    /\ p.pc # "idle" => p.block \in ABlock
    /\ p.pc \in {"verified", "put", "next"} => HasPool(Body[p.block].signer)

ForkTypeOK ==
    /\ snap \in Fork
    /\ snap.br # 0 => snap.br \in DOMAIN Branch /\ snap.n < Len(Branch[snap.br])
    /\ snap.pc = "idle" => snap.br = 0
    /\ snap.pc # "idle" => version < MaxVersion
    /\ snap.pc = "rollback" => /\ snap.acc \in Account /\ HasPool(snap.acc)
                               /\ snap.wait[snap.acc] # Nil
    /\ snap.chain # 0 => snap.keys # <<>> /\ snap.chain \in 1..Len(chains[Key.addr])
    /\ snap.pc = "refer" => snap.chain # 0

\* The state has the shape the code gives it: no chain is referred to that
\* does not exist, heights stay in bounds, and whoever is in the middle of
\* something has what the next step follows a pointer to.
LedgerTypeOK ==
    /\ DiskTypeOK /\ PoolTypeOK /\ ForkTypeOK
    /\ version \in 0..MaxVersion /\ branch \in DOMAIN Branch
    /\ stail \in 0..Len(Branch[branch]) /\ stail <= Len(sdisk) /\ tailed \in BOOLEAN
    /\ caller \in [Caller -> Proc] /\ \A g \in Caller : ProcTypeOK(caller[g])
    /\ inserter \in Proc /\ ProcTypeOK(inserter)
    /\ inserter.pc \in {"verified", "put", "next"} =>
          inserter.chain \in 1..Len(chains[Body[inserter.block].signer])

(***************************************************************************)
(* While no block of an account was removed, its chain on disk is unbroken *)
(* and hash-linked from its first block to its head and nothing lies above *)
(* the head, however callers that read an old head, blocks from the        *)
(* network and the fork check interleave.  Between two insertions the      *)
(* pool's current chain starts where the disk ends, unless the pool is     *)
(* being switched, or was switched to a chain that does not or in the      *)
(* middle of an insertion.                                                 *)
(***************************************************************************)
AccountsLinked ==
    \A a \in Account : Sound(a) =>
        /\ \A h \in Height : AtHeight(a, h) # Nil <=> h <= HeadHeight(a)
        /\ AtHeight(a, HeadHeight(a)) = head[a]
        /\ \A h \in 1..HeadHeight(a) : PreHash[AtHeight(a, h)] = AtHeight(a, h - 1)
        /\ HasPool(a) /\ ~Writing(a) /\ ~Switching(a) /\ a \notin strayed =>
              /\ Current(a).tailHeight = HeadHeight(a)
              /\ Current(a).tailHash \in {head[a], Nil}

Receives(r, b) == OnDisk(r) /\ Body[r].blockType = "RECEIVED" /\ Body[r].source = b

\* Every receipt on disk has its sent block on disk, with the opposite
\* amount, unless the sender's chain lost blocks; and no chain receives a
\* block twice, except for one that it received with its very first block,
\* which the verifier's search stops short of.
ReceiptsBacked ==
    \A r \in ABlock : \A b \in ABlock : Receives(r, b) =>
        /\ OnDisk(b) \/ ~Sound(Body[b].signer)
        /\ Body[r].modified + Body[b].modified = 0
        /\ \A q \in ABlock : Receives(q, b) /\ q # r =>
              \/ ~Sound(Body[r].signer)
              \/ BlockHeight[q] = 0 \/ BlockHeight[r] = 0

\* A block that an account received with its first block and again later.
FirstAgain(b) == \E r, q \in ABlock : /\ Receives(r, b) /\ Receives(q, b) /\ r # q
                                       /\ BlockHeight[r] = 0

\* No money appears or disappears while no chain lost blocks and no account
\* received the block of its first receipt again: the balances and the
\* amounts sent and not yet received add up to the genesis balances.
MoneyKept ==
    spoiled = {} /\ (\A b \in ABlock : ~FirstAgain(b)) =>
        LET amount(b) == IF b = Nil THEN 0 ELSE Body[b].amount
            open == {b \in ABlock : /\ OnDisk(b) /\ Body[b].blockType = "SEND"
                                    /\ ~\E r \in ABlock : Receives(r, b)}
        IN  MapThenSumSet(LAMBDA a : amount(head[a]), Account)
                - MapThenSumSet(LAMBDA b : Body[b].modified, open)
            = MapThenSumSet(LAMBDA a : amount(GenesisOf[a]), Account)

\* While no chain lost blocks and no insertion is in progress, ListRequest
\* shows exactly the sent blocks that nobody received.
RequestsOpen ==
    spoiled = {} /\ Running /\ (\A a \in Account : ~Writing(a)) =>
        \A a \in Account :
            ListRequest(a) = {b \in ABlock : /\ OnDisk(b)
                                             /\ Body[b].blockType = "SEND" /\ Body[b].to = a
                                             /\ ~\E r \in ABlock : Receives(r, b)}

\* The snapshot points of an account that lost no block rise, in the heights
\* of the snapshot chain and of the account, and name blocks on its disk.
PointsConfirm ==
    \A a \in Account : Sound(a) =>
        LET p == points[a]
        IN  /\ \A i \in DOMAIN p : AtHeight(a, p[i].aHeight) = p[i].aHash
            /\ \A i, j \in DOMAIN p : i < j => /\ p[i].sHeight < p[j].sHeight
                                               /\ p[i].aHeight <= p[j].aHeight

\* The process ends in these ways only: a chain that lost blocks is walked
\* down to a hole; a receipt overtakes the listener's call for its sent
\* block; an account is rolled back whose sent block has no receipt the
\* search can find; an account that has no block at or below the fork point
\* is asked for one; a pool's chain has a gap, which takes a rollback or a
\* switch during an insertion, or a chain to hand over that has no such block;
\* a chain that reads its head from a disk that lost it is asked for the head.
PanicsExplained ==
    /\ panic = "hole" => spoiled # {}
    /\ panic = "no request" =>
          \/ spoiled # {}
          \/ \E p \in Procs :
                p.pc = "put" /\ Body[p.block].blockType = "SEND"
    /\ panic = "no receipt" =>
          \E b \in ABlock : /\ OnDisk(b) /\ Body[b].blockType = "SEND"
                            /\ \A r \in ABlock : Receives(r, b) =>
                                  BlockHeight[r] = 0 \/ ~Sound(Body[r].signer)
    /\ panic = "no block" =>
          \E a \in Account :
             /\ HasPool(a)
             /\ ~Sound(a) \/ head[a] = Nil \/ Refer(AtHeight(a, 0)) > snap.n
    /\ panic = "gap" => spoiled # {} \/ strayed # {} \/ snap.pc = "refer"
    /\ panic = "no head" => spoiled # {}

\* A block at or below its account's last snapshot point leaves the disk in no
\* step that leaves the point, and while the chain has lost no block it is not
\* overwritten either.
ConfirmedStay ==
    [][\A a \in Account : \A h \in Height :
          /\ h <= TopPoint(a)
          /\ AtHeight(a, h)' # AtHeight(a, h)
          => \/ TopPoint(a)' < h
             \/ ~Sound(a) /\ AtHeight(a, h)' # Nil]_vars

\* The verifier's "check if it has been received" (account_verifier.go:52)
\* holds for every receipt: no chain on disk receives a block twice.
ReceivedOnce ==
    \A b \in ABlock : Cardinality({r \in ABlock : Receives(r, b)}) <= 1
=============================================================================
