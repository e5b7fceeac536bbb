---------------------------- MODULE SnapshotPool ----------------------------
(***************************************************************************)
(* The snapshot pool of pool/snapshot_pool.go: three kinds of goroutine    *)
(* around one BCPool.                                                      *)
(*                                                                         *)
(*  - the network handlers call AddBlock;                                  *)
(*  - loop() compounds free blocks into snippets, attaches the snippets to *)
(*    forked chains, asks peers for what is missing, and writes verified   *)
(*    blocks of the current chain to disk;                                 *)
(*  - loopCheckFork() switches to a chain that is longer than the current  *)
(*    one by more than ForkMargin.                                         *)
(*                                                                         *)
(* The lock rwMu excludes the fork (write lock) from the insertion (read   *)
(* lock) and from nothing else: the two goroutines interleave everywhere   *)
(* else.  Go maps are iterated in a random order, so every copy of a map   *)
(* into a slice is a free choice of an order.                              *)
(*                                                                         *)
(* Accounts are outside this module: a verification, the unlocking of      *)
(* accounts and their rollback succeed or fail by a free choice.           *)
(***************************************************************************)
EXTENDS BCPool

CONSTANTS
    Announced,    \* the blocks that peers send without being asked
    ForkMargin,   \* 4 in LongestChain
    PointErrors   \* may InsertSnapshotBlock fail after it stored the block?

ASSUME SnapshotPoolAssumption ==
    /\ Announced \subseteq Block
    /\ ForkMargin \in Nat
    /\ PointErrors \in BOOLEAN

VARIABLES
    arriving,   \* blocks that a peer may deliver: announced or asked for
    crashed,    \* a goroutine panicked, which ends the process
    pc,         \* where loop() is
    \* locals of loopGenSnippetChains
    pending,    \* the rest of sortPending
    list,       \* the slice chains
    headMap,    \* the keys (heads) left in headMap
    next,       \* the index of the merge loop
    \* locals of loopAppendChains and forky
    todo,       \* the rest of sortSnippets
    w,          \* the snippet being attached, or Nil
    tmpChains,  \* the slice tmpChains
    visit,      \* the index of forky's loop over tmpChains
    \* loopCheckFork
    fork        \* where it is, and its locals

\* snapshotFork is not running: the locals have their zero values.
NoFork == [pc      |-> "idle",
           longest |-> Genesis,   \* the chain it decided for
           point   |-> 0,         \* the height of the fork point
           block   |-> Nil,       \* the block that rollback or modifyRefer moves
           from    |-> Genesis]   \* modifyRefer's from

genVars == <<pending, list, headMap, next>>
appendVars == <<todo, w, tmpChains, visit>>
netVars == <<freeBlocks, compoundBlocks, arriving>>
vars == <<poolVars, arriving, crashed, pc, genVars, appendVars, fork>>

\* A slice copied from a map with the keys S has them in any order.
Orders(S) == SetToSeqs(S)

Init ==
    /\ freeBlocks = {} /\ compoundBlocks = {}
    /\ snippetIds = {} /\ snippetChains = [b \in Block |-> NoSnippet]
    /\ chainIds = {Genesis} /\ chains = [b \in Block |-> NoChain]
    /\ current = Genesis
    /\ diskChain = [head     |-> Genesis,
                    byHeight |-> [NoBlocks EXCEPT ![0] = Genesis],
                    byHash   |-> {Genesis}]
    /\ arriving = Announced
    /\ crashed = FALSE
    /\ pc = "gen"
    /\ pending = {} /\ list = <<>> /\ headMap = {} /\ next = 1
    /\ todo = {} /\ w = Nil /\ tmpChains = <<>> /\ visit = 1
    /\ fork = NoFork

-----------------------------------------------------------------------------
(***************************************************************************)
(* The network: AddBlock under pendingMu.  A block the pool has seen is    *)
(* ignored.                                                                *)
(***************************************************************************)
AddBlock(b) ==
    /\ ~crashed
    /\ b \in arriving
    /\ b \notin freeBlocks \cup compoundBlocks
    /\ freeBlocks' = freeBlocks \cup {b}
    /\ UNCHANGED <<compoundBlocks, snippetIds, snippetChains, chainIds, chains,
                   current, diskChain, arriving, crashed, pc, genVars,
                   appendVars, fork>>

-----------------------------------------------------------------------------
(***************************************************************************)
(* loopGenSnippetChains                                                    *)
(***************************************************************************)
GenStart ==
    /\ ~crashed /\ pc = "gen"
    /\ pending' = freeBlocks
    /\ list' \in Orders(snippetIds)
    /\ pc' = "compound"
    /\ UNCHANGED <<poolVars, arriving, crashed, headMap, next, appendVars, fork>>

\* blockPool.compound
Compound(b) ==
    /\ ~crashed /\ pc = "compound" /\ b \in pending
    /\ pending' = pending \ {b}
    /\ compoundBlocks' = compoundBlocks \cup {b}
    /\ freeBlocks' = freeBlocks \ {b}
    /\ UNCHANGED <<snippetIds, chainIds, chains, current, diskChain, arriving,
                   crashed, pc, headMap, next, appendVars, fork>>

\* tryInsert stops at the first snippet of the slice that the block extends
\* or whose heights it falls strictly inside.
Extends(s, b) == snippetChains[s].tailHash = b
Inside(s, b) == /\ BlockHeight[s] > BlockHeight[b]
                /\ BlockHeight[b] > snippetChains[s].tailHeight
Hits(b) == {i \in DOMAIN list : Extends(list[i], b) \/ Inside(list[i], b)}
FirstHit(b) == list[Min(Hits(b))]

GenAddTail(b) ==
    /\ Compound(b)
    /\ Hits(b) # {} /\ Extends(FirstHit(b), b)
    /\ snippetChains' = [snippetChains EXCEPT ![FirstHit(b)] = AddTail(@, b)]
    /\ UNCHANGED list

\* The block is compounded and kept nowhere.
GenDrop(b) ==
    /\ Compound(b)
    /\ Hits(b) # {} /\ ~Extends(FirstHit(b), b)
    /\ UNCHANGED <<snippetChains, list>>

GenNewSnippet(b) ==
    /\ Compound(b)
    /\ Hits(b) = {}
    /\ snippetChains' = [snippetChains EXCEPT ![b] = NewSnippet(b)]
    /\ list' = Append(list, b)

\* splitToMap
GenSplit ==
    /\ ~crashed /\ pc = "compound" /\ pending = {}
    /\ headMap' = Range(list)
    /\ next' = 1
    /\ pc' = "merge"
    /\ UNCHANGED <<poolVars, arriving, crashed, pending, list, appendVars, fork>>

\* The snippet whose head is the tail of snippet s, if it was not taken yet.
BelowInMap(s) == /\ snippetChains[s].tailHash \in headMap
                 /\ snippetChains[s].tailHash # s

GenMerge ==
    /\ ~crashed /\ pc = "merge" /\ next <= Len(list)
    /\ LET s == list[next]
           oc == snippetChains[s].tailHash
       IN  /\ BelowInMap(s)
           /\ headMap' = headMap \ {oc}
           /\ snippetChains' = [snippetChains EXCEPT ![s] = Merge(@, snippetChains[oc])]
    /\ UNCHANGED <<netVars, snippetIds, chainIds, chains, current, diskChain,
                   crashed, pc, pending, list, next, appendVars, fork>>

GenMerged ==
    /\ ~crashed /\ pc = "merge" /\ next <= Len(list)
    /\ ~BelowInMap(list[next])
    /\ next' = next + 1
    /\ UNCHANGED <<poolVars, arriving, crashed, pc, pending, list, headMap,
                   appendVars, fork>>

GenDone ==
    /\ ~crashed /\ pc = "merge" /\ next > Len(list)
    /\ snippetIds' = headMap
    /\ snippetChains' = [b \in Block |-> IF b \in headMap THEN snippetChains[b]
                                                          ELSE NoSnippet]
    /\ list' = <<>> /\ headMap' = {} /\ next' = 1
    /\ pc' = "append"
    /\ UNCHANGED <<netVars, chainIds, chains, current, diskChain, crashed,
                   pending, appendVars, fork>>

-----------------------------------------------------------------------------
(***************************************************************************)
(* loopAppendChains.  Snippets are taken by rising tail height; for each,  *)
(* forky visits the chains of tmpChains in order, one per step.            *)
(***************************************************************************)
AppendNone ==
    /\ ~crashed /\ pc = "append" /\ snippetIds = {}
    /\ pc' = "insert"
    /\ UNCHANGED <<poolVars, arriving, crashed, genVars, appendVars, fork>>

AppendStart ==
    /\ ~crashed /\ pc = "append" /\ snippetIds # {}
    /\ todo' = snippetIds
    /\ tmpChains' \in Orders(chainIds)
    /\ pc' = "forky"
    /\ UNCHANGED <<poolVars, arriving, crashed, genVars, w, visit, fork>>

AppendNext ==
    /\ ~crashed /\ pc = "forky" /\ w = Nil
    /\ \E s \in todo :
          /\ \A r \in todo : snippetChains[s].tailHeight <= snippetChains[r].tailHeight
          /\ w' = s
          /\ todo' = todo \ {s}
    /\ visit' = 1
    /\ UNCHANGED <<poolVars, arriving, crashed, pc, genVars, tmpChains, fork>>

AppendDone ==
    /\ ~crashed /\ pc = "forky" /\ w = Nil /\ todo = {}
    /\ tmpChains' = <<>> /\ visit' = 1
    /\ pc' = "fetch"
    /\ UNCHANGED <<poolVars, arriving, crashed, genVars, todo, w, fork>>

\* The chain forky looks at.
Visiting == ~crashed /\ pc = "forky" /\ w # Nil /\ visit <= Len(tmpChains)
Visited == tmpChains[visit]

\* What forky decides before it compares blocks: the snippet continues the
\* chain, or it starts above the chain's head or does not reach beyond it.
Continues(c) == /\ snippetChains[w].tailHeight = chains[c].headHeight
                /\ snippetChains[w].tailHash = chains[c].headHash
OutOfReach(c) == \/ snippetChains[w].tailHeight > chains[c].headHeight
                 \/ BlockHeight[w] <= chains[c].headHeight

\* sameChain: the chain's head is a block of the snippet.
SameChain(c) == /\ HeadBlock(c) # Nil
                /\ snippetChains[w].heightBlocks[chains[c].headHeight] = HeadBlock(c)

\* The steps that are done with snippet w leave these alone.
AppendFrame == UNCHANGED <<netVars, current, diskChain, crashed, pc, genVars,
                           todo, fork>>

DeleteSnippet(s) ==
    /\ snippetIds' = snippetIds \ {s}
    /\ snippetChains' = [snippetChains EXCEPT ![s] = NoSnippet]

\* insertSnippet(c, w), of the snippet as sn: insert refuses a first block
\* that does not follow the head of the chain.
InsertSnippet(c, sn) ==
    /\ IF /\ sn.tailHeight = chains[c].headHeight
          /\ PreHash[sn.heightBlocks[sn.tailHeight + 1]] = chains[c].headHash
       THEN /\ chains' = [chains EXCEPT ![c] = Extended(c, w, sn)]
            /\ DeleteSnippet(w)
       ELSE /\ snippetChains' = [snippetChains EXCEPT ![w] = sn]
            /\ UNCHANGED <<chains, snippetIds>>
    /\ w' = Nil /\ visit' = 1
    /\ UNCHANGED <<chainIds, tmpChains>>

\* forkChain(c, w), of the snippet as sn.
ForkChain(c, sn) ==
    /\ chainIds' = chainIds \cup {w}
    /\ chains' = [chains EXCEPT ![w] = ForkOf(w, sn, c)]
    /\ tmpChains' = Append(tmpChains, w)
    /\ DeleteSnippet(w)
    /\ w' = Nil /\ visit' = 1

AppendInsert ==
    /\ Visiting /\ Continues(Visited)
    /\ InsertSnippet(Visited, snippetChains[w])
    /\ AppendFrame

AppendSkip ==
    /\ Visiting /\ ~Continues(Visited) /\ OutOfReach(Visited)
    /\ visit' = visit + 1
    /\ UNCHANGED <<snippetIds, snippetChains, chainIds, chains, w, tmpChains>>
    /\ AppendFrame

\* cutSnippet; the snippet reaches beyond the chain, so that blocks are left.
AppendSame ==
    /\ Visiting /\ ~Continues(Visited) /\ ~OutOfReach(Visited)
    /\ SameChain(Visited)
    /\ InsertSnippet(Visited, CutTo(snippetChains[w], chains[Visited].headHeight))
    /\ AppendFrame

AppendFork ==
    /\ Visiting /\ ~Continues(Visited) /\ ~OutOfReach(Visited)
    /\ HeadBlock(Visited) # Nil /\ ~SameChain(Visited)
    /\ HasForkPoint(w, Visited, FALSE)
    /\ ForkChain(Visited, Trimmed(w, Visited, FALSE))
    /\ AppendFrame

\* A snippet that was trimmed to nothing is deleted.
Used(sn) == sn.tailHeight = BlockHeight[w]
KeepSnippet(sn) ==
    IF Used(sn) THEN DeleteSnippet(w)
                ELSE /\ snippetChains' = [snippetChains EXCEPT ![w] = sn]
                     /\ UNCHANGED snippetIds

\* No fork point on this chain.
AppendPass ==
    /\ Visiting /\ ~Continues(Visited) /\ ~OutOfReach(Visited)
    /\ HeadBlock(Visited) # Nil /\ ~SameChain(Visited)
    /\ ~HasForkPoint(w, Visited, FALSE)
    /\ LET sn == Trimmed(w, Visited, FALSE)
       IN  /\ KeepSnippet(sn)
           /\ w' = IF Used(sn) THEN Nil ELSE w
           /\ visit' = IF Used(sn) THEN 1 ELSE visit + 1
    /\ UNCHANGED <<chainIds, chains, tmpChains>>
    /\ AppendFrame

\* sameChain asks a head that cannot be found for its height.
AppendPanic ==
    /\ Visiting /\ ~Continues(Visited) /\ ~OutOfReach(Visited)
    /\ HeadBlock(Visited) = Nil
    /\ crashed' = TRUE
    /\ UNCHANGED <<poolVars, arriving, pc, genVars, appendVars, fork>>

\* After the last chain: the blocks on disk, seen through the current chain.
DiskReached == /\ ~crashed /\ pc = "forky" /\ w # Nil /\ visit > Len(tmpChains)
BelowDiskHead == snippetChains[w].tailHeight <= BlockHeight[diskChain.head]

AppendDiskFork ==
    /\ DiskReached /\ BelowDiskHead
    /\ HasForkPoint(w, current, TRUE)
    /\ ForkChain(current, Trimmed(w, current, TRUE))
    /\ AppendFrame

AppendLeave ==
    /\ DiskReached
    /\ ~(BelowDiskHead /\ HasForkPoint(w, current, TRUE))
    /\ KeepSnippet(IF BelowDiskHead THEN Trimmed(w, current, TRUE)
                                    ELSE snippetChains[w])
    /\ w' = Nil /\ visit' = 1
    /\ UNCHANGED <<chainIds, chains, tmpChains>>
    /\ AppendFrame

-----------------------------------------------------------------------------
(***************************************************************************)
(* loopFetchForSnippets: the blocks below each snippet's tail are asked    *)
(* for, as many as separate it from the snippet before it, or from the     *)
(* head of the current chain, and 20 when that is not positive.  A peer    *)
(* that has the chain answers with that many blocks, down to genesis.      *)
(***************************************************************************)
Below[b \in Block] == IF PreHash[b] = Nil THEN {b} ELSE {b} \cup Below[PreHash[b]]

\* Faulty: nothing is asked for below the head of the current chain.
FetchAbove(o, i) == snippetChains[o[i]].tailHeight - chains[current].headHeight

FetchCount(o, i) ==
    LET tail == snippetChains[o[i]].tailHeight
        prev == IF i = 1 THEN -1 ELSE BlockHeight[o[i - 1]]
        toHead == tail - chains[current].headHeight
        toPrev == IF prev > 0 THEN tail - prev ELSE toHead
        diff == IF toPrev <= 0 THEN toHead ELSE toPrev
    IN  IF diff <= 0 THEN 20 ELSE diff

FetchSet(o) ==
    {b \in Block : \E i \in DOMAIN o :
        LET sn == snippetChains[o[i]]
        IN  /\ sn.tailHash # Nil
            /\ b \in Below[sn.tailHash]
            /\ BlockHeight[b] > sn.tailHeight - FetchCount(o, i)}

Fetch ==
    /\ ~crashed /\ pc = "fetch"
    /\ \E o \in Orders(snippetIds) :
          /\ \A i, j \in DOMAIN o : i < j =>
                snippetChains[o[i]].tailHeight <= snippetChains[o[j]].tailHeight
          /\ arriving' = arriving \cup FetchSet(o)
    /\ pc' = "insert"
    /\ UNCHANGED <<poolVars, crashed, genVars, appendVars, fork>>

-----------------------------------------------------------------------------
(***************************************************************************)
(* loopCheckCurrentInsert, under the read lock: blocks of the current      *)
(* chain are written to disk up to the first that does not verify or whose *)
(* insertion fails.  An insertion that fails after the block was stored    *)
(* (m = n + 1) leaves the block in the chain's memory as well.  A height   *)
(* without a block is a nil pointer.                                       *)
(***************************************************************************)
NeverLocked == FALSE   \* Faulty: the lock is not taken.

WriteLocked == fork.pc \notin {"idle", "captured"}

NothingToInsert ==
    /\ ~crashed /\ pc = "insert"
    /\ chains[current].headHeight = chains[current].tailHeight
    /\ pc' = "gen"
    /\ UNCHANGED <<poolVars, arriving, crashed, genVars, appendVars, fork>>

TryInsert(n, m) ==
    LET c == chains[current]
    IN  /\ ~crashed /\ pc = "insert" /\ ~WriteLocked
        /\ c.tailHeight < c.headHeight
        /\ n \in c.tailHeight .. c.headHeight
        /\ m = n \/ (PointErrors /\ m = n + 1 /\ m <= c.headHeight)
        /\ \A h \in c.tailHeight + 1 .. m : c.heightBlocks[h] # Nil
        /\ crashed' = (m < c.headHeight /\ c.heightBlocks[m + 1] = Nil)
        /\ diskChain' = Stored(c.heightBlocks, c.tailHeight + 1, m)
        /\ chains' = [chains EXCEPT ![current] = CutTo(@, n)]
        /\ pc' = "gen"
        /\ UNCHANGED <<netVars, snippetIds, snippetChains, chainIds, current,
                       genVars, appendVars, fork>>

-----------------------------------------------------------------------------
(***************************************************************************)
(* loopCheckFork                                                           *)
(***************************************************************************)
\* LongestChain, when it is not the current chain.
Longest(l) ==
    /\ l \in chainIds
    /\ \A c \in chainIds : chains[c].headHeight <= chains[l].headHeight
    /\ chains[l].headHeight - ForkMargin > chains[current].headHeight

\* Decided before the lock is taken.
CheckFork(l) ==
    /\ ~crashed /\ fork.pc = "idle"
    /\ Longest(l)
    /\ fork' = [NoFork EXCEPT !.pc = "captured", !.longest = l]
    /\ UNCHANGED <<poolVars, arriving, crashed, pc, genVars, appendVars>>

\* getForkPoint walks down from the head of the current chain, to the first
\* height where the chains agree or where one of them has no block, as none
\* has below height 0.
StopHeight ==
    Max({h \in -1 .. chains[current].headHeight :
                 \/ h = -1
                 \/ GetBlock(current, h) = Nil
                 \/ GetBlock(fork.longest, h) = Nil
                 \/ GetBlock(current, h) = GetBlock(fork.longest, h)})
ForkPointFound == /\ GetBlock(current, StopHeight) # Nil
                  /\ GetBlock(fork.longest, StopHeight) # Nil

\* Faulty: the lock is not released.
ForkReturnLocked ==
    UNCHANGED <<netVars, snippetIds, snippetChains, chainIds, pc, genVars,
                appendVars, fork>>

\* snapshotFork returns and releases the lock.
ForkReturn ==
    /\ fork' = NoFork
    /\ UNCHANGED <<netVars, snippetIds, snippetChains, chainIds, pc, genVars,
                   appendVars>>

\* snapshotFork gives up: there is no fork point, or the accounts could not
\* be unlocked or rolled back.
ForkGiveUp ==
    /\ ~crashed /\ fork.pc = "captured"
    /\ ~ForkPointFound \/ GetBlock(fork.longest, StopHeight + 1) # Nil
    /\ ForkReturn
    /\ UNCHANGED <<chains, current, diskChain, crashed>>

\* The steps of snapshotFork under the lock leave these to loop().
ForkFrame == UNCHANGED <<netVars, snippetIds, snippetChains, chainIds, current,
                         pc, genVars, appendVars>>

\* snapshotFork has the lock, the fork point and the accounts.  The key point,
\* the block above the fork point, is converted although it may be nil.
ForkStart ==
    /\ ~crashed /\ fork.pc = "captured"
    /\ ForkPointFound
    /\ IF GetBlock(fork.longest, StopHeight + 1) = Nil
       THEN crashed' = TRUE /\ UNCHANGED fork
       ELSE /\ fork' = [fork EXCEPT !.pc = "rollback", !.point = StopHeight]
            /\ UNCHANGED crashed
    /\ UNCHANGED <<chains, diskChain>>
    /\ ForkFrame

\* Faulty: the fork point is rolled back too.
RollbackDoneLow == chains[current].tailHeight < fork.point

\* The loop of rollback, whose variable is the tail height of the current
\* chain: a block leaves the disk ...
RollbackDone == chains[current].tailHeight <= fork.point

RollbackRemove ==
    LET b == DiskBlock(chains[current].tailHeight)
    IN  /\ ~crashed /\ fork.pc = "rollback" /\ ~RollbackDone
        /\ IF b = Nil
           THEN crashed' = TRUE /\ UNCHANGED <<diskChain, fork>>
           ELSE /\ diskChain' = Removed(b)
                /\ fork' = [fork EXCEPT !.pc = "removed", !.block = b]
                /\ UNCHANGED crashed
        /\ UNCHANGED chains
        /\ ForkFrame

\* ... and is then handed to the current chain.  In between it is nowhere.
RollbackAddTail ==
    /\ ~crashed /\ fork.pc = "removed"
    /\ chains' = [chains EXCEPT ![current] = AddTail(@, fork.block)]
    /\ fork' = [fork EXCEPT !.pc = "rollback", !.block = Nil]
    /\ UNCHANGED <<diskChain, crashed>>
    /\ ForkFrame

\* The check at the end of rollback, which panics when no head is left.
RollbackCheck ==
    LET head == diskChain.head
        checked == /\ chains[current].tailHeight = BlockHeight[head]
                   /\ chains[current].tailHash = head
    IN  /\ ~crashed /\ fork.pc = "rollback" /\ RollbackDone
        /\ IF head = Nil
           THEN crashed' = TRUE /\ UNCHANGED fork
           ELSE /\ fork' = [fork EXCEPT !.pc = IF checked THEN "rolled" ELSE "failed"]
                /\ UNCHANGED crashed
        /\ UNCHANGED <<chains, diskChain>>
        /\ ForkFrame

\* "rollback snapshot fail": snapshotFork returns.
ForkFailed ==
    /\ ~crashed /\ fork.pc = "failed"
    /\ ForkReturn
    /\ UNCHANGED <<chains, current, diskChain, crashed>>

\* currentModifyToChain: the target must have the disk's head ...
CurrentModify ==
    /\ ~crashed /\ fork.pc = "rolled"
    /\ LET head == diskChain.head
       IN  fork' = IF GetBlock(fork.longest, BlockHeight[head]) = head
                   THEN [fork EXCEPT !.pc = "modify"]
                   ELSE NoFork
    /\ UNCHANGED <<chains, diskChain, crashed>>
    /\ ForkFrame

\* Faulty: no block is moved.
NeverMoves(from, to) == FALSE

\* The loop of modifyRefer compares with from's tail height, which its first
\* round raises: it moves one block at most.
Moves(from, to) == chains[to].tailHeight > chains[from].tailHeight

\* ... its references are turned around until it refers to the disk.  A round
\* of modifyRefer takes the block below to from from,
ModifyRemoveTail ==
    LET to == fork.longest
        from == chains[to].referChain
        b == OwnBlock(from, chains[to].tailHeight)
    IN  /\ ~crashed /\ fork.pc = "modify" /\ from # Disk
        /\ Moves(from, to)
        /\ IF b = Nil
           THEN crashed' = TRUE /\ UNCHANGED <<chains, fork>>
           ELSE /\ chains' = [chains EXCEPT ![from] = RemoveTail(@, b)]
                /\ fork' = [fork EXCEPT !.pc = "untailed", !.block = b, !.from = from]
                /\ UNCHANGED crashed
        /\ UNCHANGED diskChain
        /\ ForkFrame

\* gives it to to,
ModifyAddTail ==
    /\ ~crashed /\ fork.pc = "untailed"
    /\ chains' = [chains EXCEPT ![fork.longest] = AddTail(@, fork.block)]
    /\ fork' = [fork EXCEPT !.pc = "refer"]
    /\ UNCHANGED <<diskChain, crashed>>
    /\ ForkFrame

\* or has none to take,
ModifyRefer ==
    LET from == chains[fork.longest].referChain
    IN  /\ ~crashed /\ fork.pc = "modify" /\ from # Disk
        /\ ~Moves(from, fork.longest)
        /\ fork' = [fork EXCEPT !.pc = "refer", !.from = from]
        /\ UNCHANGED <<chains, diskChain, crashed>>
        /\ ForkFrame

\* Faulty: from was already made to refer to to.
TurnedTwice(from, to) == to

\* What to refers to when the reference from to to from is turned around.
TurnedRefer(from, to) == chains[from].referChain

\* lets to refer to what from refers to,
ModifyReferTo ==
    /\ ~crashed /\ fork.pc = "refer"
    /\ chains' = [chains EXCEPT ![fork.longest].referChain =
                      TurnedRefer(fork.from, fork.longest)]
    /\ fork' = [fork EXCEPT !.pc = "turn"]
    /\ UNCHANGED <<diskChain, crashed>>
    /\ ForkFrame

\* and lets from refer to to.
ModifyReferFrom ==
    /\ ~crashed /\ fork.pc = "turn"
    /\ chains' = [chains EXCEPT ![fork.from].referChain = fork.longest]
    /\ fork' = [fork EXCEPT !.pc = "modify", !.block = Nil, !.from = Genesis]
    /\ UNCHANGED <<diskChain, crashed>>
    /\ ForkFrame

\* ... and it becomes the current chain.
ModifyCurrent ==
    /\ ~crashed /\ fork.pc = "modify"
    /\ chains[fork.longest].referChain = Disk
    /\ current' = fork.longest
    /\ ForkReturn
    /\ UNCHANGED <<chains, diskChain, crashed>>

-----------------------------------------------------------------------------
Network == \E b \in Block : AddBlock(b)

Gen == \/ GenStart
       \/ \E b \in Block : GenAddTail(b) \/ GenDrop(b) \/ GenNewSnippet(b)
       \/ GenSplit \/ GenMerge \/ GenMerged \/ GenDone

AppendChains == \/ AppendNone \/ AppendStart \/ AppendNext \/ AppendDone
                \/ AppendInsert \/ AppendSkip \/ AppendSame \/ AppendFork
                \/ AppendPass \/ AppendPanic \/ AppendDiskFork \/ AppendLeave

Insert == \/ NothingToInsert
          \/ \E n, m \in -1..MaxHeight : TryInsert(n, m)

Loop == Gen \/ AppendChains \/ Fetch \/ Insert

SnapshotFork == \/ ForkGiveUp \/ ForkStart
                \/ RollbackRemove \/ RollbackAddTail \/ RollbackCheck \/ ForkFailed
                \/ CurrentModify \/ ModifyRemoveTail \/ ModifyAddTail \/ ModifyRefer
                \/ ModifyReferTo \/ ModifyReferFrom \/ ModifyCurrent

LoopCheckFork == (\E l \in Block : CheckFork(l)) \/ SnapshotFork

Next == Network \/ Loop \/ LoopCheckFork

Spec == Init /\ [][Next]_vars

(***************************************************************************)
(* Both goroutines run for ever and peers answer: a request for blocks is  *)
(* repeated until they come.  Verification and the handling of accounts    *)
(* may fail any number of times but not always, which the account pools,   *)
(* outside this module, are for.                                           *)
(***************************************************************************)
InsertSome == \E n, m \in -1..MaxHeight :
                  n > chains[current].tailHeight /\ TryInsert(n, m)

Fairness ==
    /\ \A b \in Block : WF_vars(AddBlock(b))
    /\ WF_vars(Loop)
    /\ WF_vars(LoopCheckFork)
    /\ SF_vars(InsertSome)
    /\ SF_vars(ForkStart)

FairSpec == Spec /\ Fairness

-----------------------------------------------------------------------------
(***************************************************************************)
(* Properties                                                              *)
(***************************************************************************)
\* The pool's state, and the locals of its goroutines, have their types.
TypeOK ==
    /\ freeBlocks \in SUBSET Block /\ compoundBlocks \in SUBSET Block
    /\ snippetIds \in SUBSET Block
    /\ snippetChains \in [Block -> Snippet]
    /\ chainIds \in SUBSET Block
    /\ chains \in [Block -> ForkedChain]
    /\ current \in Block
    /\ diskChain \in DiskChain
    /\ arriving \in SUBSET Block
    /\ crashed \in BOOLEAN
    /\ pc \in {"gen", "compound", "merge", "append", "forky", "fetch", "insert"}
    /\ pending \in SUBSET Block /\ headMap \in SUBSET Block
    /\ list \in Seq(Block) /\ next \in Nat \ {0}
    /\ todo \in SUBSET Block /\ w \in HashOrNil
    /\ tmpChains \in Seq(Block) /\ visit \in Nat \ {0}
    /\ fork \in [pc : {"idle", "captured", "rollback", "removed", "rolled", "failed",
                       "modify", "untailed", "refer", "turn"},
                 longest : Block, point : -1..MaxHeight, block : HashOrNil,
                 from : Block]
    /\ fork.pc \in {"removed", "untailed"} => fork.block # Nil

\* The snippets that exist: those of the map or, while snippets are being
\* generated, those of the slice.
Snippets == IF pc \in {"compound", "merge"} THEN Range(list)
                                           ELSE snippetIds

\* The blocks of m between heights lo and hi sit at their height, follow one
\* another, and the lowest follows the block tail.
Run(m, lo, hi, tail) ==
    \A h \in lo..hi :
        /\ m[h] \in Block
        /\ BlockHeight[m[h]] = h
        /\ PreHash[m[h]] = IF h = lo THEN tail ELSE m[h - 1]

\* The snippet sn with head s holds the blocks of an unbroken, hash-linked run
\* from its tail to s, and no other block.
LinkedSnippet(s, sn) ==
    /\ sn.tailHeight < BlockHeight[s]
    /\ sn.heightBlocks[BlockHeight[s]] = s
    /\ Run(sn.heightBlocks, sn.tailHeight + 1, BlockHeight[s], sn.tailHash)
    /\ \A h \in Height : h <= sn.tailHeight \/ h > BlockHeight[s] =>
                            sn.heightBlocks[h] = Nil

\* However blocks arrived, were merged and were trimmed against chains, every
\* snippet is such a run: forkChain and insertSnippet copy it as it stands.
SnippetsLinked == \A s \in Snippets : LinkedSnippet(s, snippetChains[s])

\* Following references from any chain ends at the disk chain: no set of
\* chains refers only to itself, so a lookup through references terminates.
RefersReachDisk ==
    /\ \A c \in chainIds : chains[c].referChain \in chainIds \cup {Disk}
    /\ \A S \in SUBSET chainIds :
          S # {} => \E c \in S : chains[c].referChain \notin S

\* The scope of the next five properties.  All branches leave one block, genesis
\* or a block above it, so that modifyRefer never has two blocks to move, which
\* it cannot, and never takes a chain away from under another that reads blocks
\* through it; and no insertion fails halfway, which leaves a block both on
\* disk and in memory.  Beyond this scope the code breaks them.
OneForkPoint ==
    /\ ~PointErrors
    /\ \E f \in Block :
          /\ BlockHeight[f] <= 1
          /\ \A b, c \in Block : b # c /\ PreHash[b] = PreHash[c] => PreHash[b] = f

\* The blocks a forked chain holds above its tail are an unbroken, hash-linked
\* run that ends in its head, however snippets are attached while snapshotFork
\* rolls back and turns references around.
ChainsLinked ==
    OneForkPoint => \A c \in chainIds :
        LET ch == chains[c]
            m == ch.heightBlocks
        IN  /\ ch.tailHeight <= ch.headHeight
            /\ ch.tailHeight < ch.headHeight => m[ch.headHeight] = ch.headHash
            /\ \A h \in ch.tailHeight + 1 .. ch.headHeight :
                  /\ m[h] \in Block /\ BlockHeight[m[h]] = h
                  /\ h > ch.tailHeight + 1 => PreHash[m[h]] = m[h - 1]

\* The current chain starts exactly where the disk ends, whenever no fork is
\* under way: writeToChain, rollback and modifyRefer move its tail together
\* with the head of the disk.
CurrentOnDisk ==
    LET c == chains[current]
    IN  OneForkPoint /\ ~crashed /\ ~WriteLocked =>
            /\ c.referChain = Disk
            /\ c.tailHeight = BlockHeight[diskChain.head]
            /\ c.tailHeight < c.headHeight =>
                  PreHash[c.heightBlocks[c.tailHeight + 1]] = diskChain.head

\* The disk holds one hash-linked chain from genesis to its head and no
\* other block.
DiskLinked ==
    LET top == BlockHeight[diskChain.head]
    IN  OneForkPoint =>
        /\ diskChain.head # Nil
        /\ diskChain.byHeight[top] = diskChain.head
        /\ diskChain.byHeight[0] = Genesis
        /\ \A h \in 1..top : Run(diskChain.byHeight, h, h, diskChain.byHeight[h - 1])
        /\ diskChain.byHash = {diskChain.byHeight[h] : h \in 0..top}

\* What a chain reads through its references, with the block that snapshotFork
\* is moving where there would be none.
Read(c, h) ==
    IF GetBlock(c, h) = Nil /\ fork.block # Nil /\ h = BlockHeight[fork.block]
    THEN fork.block ELSE GetBlock(c, h)

\* Read through its references, every chain is a hash-linked chain from genesis
\* to its head, but for one block at a time: the one that rollback has removed
\* from disk and not yet handed over, or that modifyRefer is moving.  That one
\* fits, and is above every fork point when it comes from disk.
ChainsComplete ==
    OneForkPoint => \A c \in chainIds :
        /\ GetBlock(c, 0) = Genesis
        /\ Read(c, chains[c].headHeight) = chains[c].headHash
        /\ \A h \in 1 .. chains[c].headHeight :
              /\ Read(c, h) # Nil
              /\ PreHash[Read(c, h)] = Read(c, h - 1)
              /\ fork.pc = "removed" /\ c # current => GetBlock(c, h) # Nil

\* The chain that checkFork found to be the longest was overtaken by the current
\* one before the lock was granted, so that there is no key point to convert.
Overtaken == /\ fork.pc = "captured"
             /\ chains[fork.longest].headHeight <= chains[current].headHeight

\* forky looks at the current chain, all of which was on disk, after rollback
\* removed its head from there and before it handed the block to the chain.
HeadInHand == /\ fork.pc = "removed" /\ pc = "forky"
              /\ Visited = current
              /\ chains[current].headHash = fork.block

\* Two panics only can end the process, one of each goroutine: snapshotFork's
\* on a key point that is missing, and that of loop() on a head in hand.
PanicsOnlyInRaces == OneForkPoint /\ crashed => Overtaken \/ HeadInHand

\* Where the pool still has a block it was given.
Kept(b) == \/ b \in diskChain.byHash
           \/ \E c \in chainIds : chains[c].heightBlocks[BlockHeight[b]] = b
           \/ \E s \in Snippets : snippetChains[s].heightBlocks[BlockHeight[b]] = b

\* AddBlock refuses a block it has compounded with "block exists in BCPool":
\* such a block is in a snippet, in a chain or on disk.
NoBlockLost == \A b \in compoundBlocks : Kept(b)

\* The check at the end of rollback, marked as one that could be deleted,
\* never fails.
RollbackCheckRedundant == fork.pc # "failed"

\* findForkPoint, with the tail of the snippet found on the current chain, finds
\* a block of the chain at every height up to the chain's head: it never logs
\* "chain error" for want of an uncle.
NoChainError ==
    DiskReached /\ BelowDiskHead /\ TailFound(w, current, TRUE) =>
        \A h \in snippetChains[w].tailHeight + 1 .. BlockHeight[w] :
            h <= chains[current].headHeight => GetBlock(current, h) # Nil

\* What FollowBranch sees of the pool: the blocks on disk, the head of the
\* current chain, and the chain that snapshotFork is switching to.
Follow == INSTANCE FollowBranch WITH
    stored <- diskChain.byHash,
    branch <- chains[current].headHash,
    target <- IF fork.pc = "idle" THEN Nil ELSE chains[fork.longest].headHash,
    undone <- fork.pc \notin {"idle", "captured"}

\* The pool follows one branch at a time: what is on disk is the lower part of
\* the current chain, a switch takes off exactly the blocks that the other chain
\* lacks before that one becomes current, and nothing is written in between,
\* whatever loop() attaches meanwhile.  Beyond the scope of OneForkPoint this
\* fails: a switch over two blocks stores a branch with a hole.
FollowsOneBranch == Follow!Spec

\* snapshotFork always ends and releases the lock, so that blocks can be
\* inserted again: modifyRefer is repeated finitely often.
ForkEnds == (fork.pc # "idle") ~> (fork.pc = "idle" \/ crashed)

\* loop() comes round again and again: merging, forky and the wait for the
\* lock all end.
LoopTurns == []<>(pc = "insert" \/ crashed) /\ []<>(pc # "insert" \/ crashed)

\* The node ends up with the longest branch that peers announce on disk, even
\* when it only hears of the tip and has already stored another branch.
Converges ==
    \A b \in Announced :
        (\A c \in Announced \ {b} : BlockHeight[c] < BlockHeight[b])
            => <>[](diskChain.head = b \/ crashed)
=============================================================================
