------------------------------- MODULE BCPool -------------------------------
(***************************************************************************)
(* The block-chain pool of pool/bc_pool.go: the state that one BCPool      *)
(* keeps and the data operations on it.                                    *)
(*                                                                         *)
(* Blocks reach the pool in any order.  They start as free blocks, are     *)
(* compounded into snippets (contiguous runs whose head is fixed), and     *)
(* snippets are attached to forked chains.  A forked chain keeps the       *)
(* blocks above its tail in memory and finds the others through the chain  *)
(* it refers to; following the references leads to the chain on disk.      *)
(*                                                                         *)
(* A block is its own hash.  A snippet is named by its head block, which   *)
(* never changes while the snippet lives and is never the head of another  *)
(* one (a block is compounded once).  A forked chain is named by the head  *)
(* of the snippet it was made from, and the first chain by the disk head   *)
(* it starts at.  Both kinds of name stand for genChainId's counter.       *)
(***************************************************************************)
EXTENDS Integers, Sequences, FiniteSets, SequencesExt

CONSTANTS
    Block,        \* every block the network can deliver, forks included
    Genesis,      \* the block that is on disk when the node starts
    Nil,          \* Go's nil block and the empty hash ""
    Disk,         \* the identity of the disk chain as a reference target
    MaxHeight,    \* bound: the height of the highest block
    BlockHeight,  \* Block -> height
    PreHash       \* Block -> the hash of the block below it

Height == 0..MaxHeight

(***************************************************************************)
(* Hashes identify blocks and a block's height is one more than that of    *)
(* its predecessor: the blocks form a tree rooted at the genesis block.    *)
(***************************************************************************)
ASSUME TreeAssumption ==
    /\ MaxHeight \in Nat
    /\ IsFiniteSet(Block)
    /\ Genesis \in Block
    /\ Nil \notin Block
    /\ Disk \notin Block
    /\ BlockHeight \in [Block -> Height]
    /\ PreHash \in [Block -> Block \cup {Nil}]
    /\ BlockHeight[Genesis] = 0
    /\ PreHash[Genesis] = Nil
    /\ \A b \in Block \ {Genesis} :
          /\ PreHash[b] \in Block
          /\ BlockHeight[b] = BlockHeight[PreHash[b]] + 1

VARIABLES
    freeBlocks,      \* blockPool.freeBlocks: blocks waiting to be compounded
    compoundBlocks,  \* blockPool.compoundBlocks: every block ever compounded
    snippetIds,      \* the keys of chainPool.snippetChains
    snippetChains,   \* the snippets; NoSnippet where there is none
    chainIds,        \* the keys of chainPool.chains
    chains,          \* the forked chains; NoChain where there is none
    current,         \* chainPool.current
    diskChain        \* the store behind chainPool.diskChain.rw

poolVars == <<freeBlocks, compoundBlocks, snippetIds, snippetChains,
              chainIds, chains, current, diskChain>>

-----------------------------------------------------------------------------
(***************************************************************************)
(* The records                                                             *)
(***************************************************************************)
HashOrNil == Block \cup {Nil}
NoBlocks == [h \in Height |-> Nil]

\* heightBlocks is a map from heights to blocks; Nil marks an absent key.
Snippet == [tailHeight   : -1..MaxHeight,
            tailHash     : HashOrNil,
            heightBlocks : [Height -> HashOrNil]]

ForkedChain == [tailHeight   : -1..MaxHeight,
                tailHash     : HashOrNil,
                headHeight   : Height,
                headHash     : Block,
                heightBlocks : [Height -> HashOrNil],
                referChain   : Block \cup {Disk}]

\* The store keeps one block per height and finds blocks by hash as well.
DiskChain == [head : HashOrNil, byHeight : [Height -> HashOrNil],
              byHash : SUBSET HashOrNil]

NoSnippet == [tailHeight |-> -1, tailHash |-> Nil, heightBlocks |-> NoBlocks]

\* forkedChain.init
NewChain(b) == [tailHeight   |-> BlockHeight[b],
                tailHash     |-> b,
                headHeight   |-> BlockHeight[b],
                headHash     |-> b,
                heightBlocks |-> NoBlocks,
                referChain   |-> Disk]

NoChain == NewChain(Genesis)

\* Faulty: the tail one height too low.
NewSnippetLow(b) == [tailHeight   |-> BlockHeight[b] - 2,
                     tailHash     |-> PreHash[b],
                     heightBlocks |-> [NoBlocks EXCEPT ![BlockHeight[b]] = b]]

\* snippetChain.init
NewSnippet(b) == [tailHeight   |-> BlockHeight[b] - 1,
                  tailHash     |-> PreHash[b],
                  heightBlocks |-> [NoBlocks EXCEPT ![BlockHeight[b]] = b]]

\* addTail, of a snippet and of a forked chain: the block below the tail.
AddTail(c, b) == [c EXCEPT !.tailHash = PreHash[b],
                           !.tailHeight = BlockHeight[b] - 1,
                           !.heightBlocks[BlockHeight[b]] = b]

\* deleteTail of a snippet, removeTail of a forked chain.
RemoveTail(c, b) == [c EXCEPT !.tailHash = b,
                              !.tailHeight = BlockHeight[b],
                              !.heightBlocks[BlockHeight[b]] = Nil]

\* Faulty: the tail hash is not taken over.
MergeOldTail(c, below) ==
    [tailHeight   |-> below.tailHeight,
     tailHash     |-> c.tailHash,
     heightBlocks |-> [h \in Height |-> IF below.heightBlocks[h] # Nil
                                        THEN below.heightBlocks[h]
                                        ELSE c.heightBlocks[h]]]

\* merge: the snippet below is taken over, block by block.
Merge(c, below) ==
    [tailHeight   |-> below.tailHeight,
     tailHash     |-> below.tailHash,
     heightBlocks |-> [h \in Height |-> IF below.heightBlocks[h] # Nil
                                        THEN below.heightBlocks[h]
                                        ELSE c.heightBlocks[h]]]

\* deleteTail (snippet) or removeTail (chain) for the blocks up to height n,
\* one after the other.
CutTo(c, n) ==
    IF n <= c.tailHeight
    THEN c
    ELSE [c EXCEPT !.tailHeight = n,
                   !.tailHash = c.heightBlocks[n],
                   !.heightBlocks = [h \in Height |->
                        IF h > c.tailHeight /\ h <= n THEN Nil ELSE @[h]]]

-----------------------------------------------------------------------------
(***************************************************************************)
(* Looking blocks up                                                       *)
(***************************************************************************)
\* diskChain.getBlock
DiskBlock(h) == IF h \in Height THEN diskChain.byHeight[h] ELSE Nil

\* forkedChain.getBlock(h, false): the chain's own memory only.
OwnBlock(c, h) == IF h \in Height THEN chains[c].heightBlocks[h] ELSE Nil

(***************************************************************************)
(* forkedChain.getBlock(h, true): the chain's own memory, else that of the *)
(* chain it refers to, and in the end the disk.  The lookup ignores the    *)
(* bounds of the chain it asks.  It ends because of RefersReachDisk.       *)
(***************************************************************************)
GetBlock(c, h) ==
    LET get[d \in chainIds] ==
            IF OwnBlock(d, h) # Nil THEN OwnBlock(d, h)
            ELSE IF chains[d].referChain = Disk THEN DiskBlock(h)
            ELSE get[chains[d].referChain]
    IN  get[c]

\* forkedChain.Head
HeadBlock(c) == GetBlock(c, chains[c].headHeight)

Get(c, h, refer) == IF refer THEN GetBlock(c, h) ELSE OwnBlock(c, h)

(***************************************************************************)
(* findForkPoint(snippet s, chain c, refer).  The snippet's tail must be a *)
(* block of the chain; the blocks that the two share are then deleted from *)
(* the snippet's tail, up to the first height at which they differ.  There *)
(* is a fork point only when the chain has a block, another one, at that   *)
(* height.                                                                 *)
(***************************************************************************)
TailFound(s, c, refer) ==
    LET sn == snippetChains[s]
    IN  /\ sn.tailHash # Nil
        /\ Get(c, sn.tailHeight, refer) = sn.tailHash

Differ(s, c, refer) ==
    LET sn == snippetChains[s]
    IN  {h \in sn.tailHeight + 1 .. BlockHeight[s] :
            Get(c, h, refer) # sn.heightBlocks[h]}

\* The height of the last shared block.
SharedHeight(s, c, refer) ==
    IF ~TailFound(s, c, refer) THEN snippetChains[s].tailHeight
    ELSE IF Differ(s, c, refer) = {} THEN BlockHeight[s]
    ELSE Min(Differ(s, c, refer)) - 1

HasForkPoint(s, c, refer) ==
    /\ TailFound(s, c, refer)
    /\ Differ(s, c, refer) # {}
    /\ Get(c, SharedHeight(s, c, refer) + 1, refer) # Nil

\* The snippet after findForkPoint.
Trimmed(s, c, refer) == CutTo(snippetChains[s], SharedHeight(s, c, refer))

\* Faulty: the new chain refers to the disk, whatever it was forked from.
ForkOfDisk(s, sn, c) == [tailHeight   |-> sn.tailHeight,
                         tailHash     |-> Nil,
                         headHeight   |-> BlockHeight[s],
                         headHash     |-> s,
                         heightBlocks |-> sn.heightBlocks,
                         referChain   |-> Disk]

\* forkChain: the new chain takes the snippet over; its tailHash stays "".
ForkOf(s, sn, c) == [tailHeight   |-> sn.tailHeight,
                     tailHash     |-> Nil,
                     headHeight   |-> BlockHeight[s],
                     headHash     |-> s,
                     heightBlocks |-> sn.heightBlocks,
                     referChain   |-> c]

\* Faulty: the head's hash is left as it was.
ExtendedOldHead(c, s, sn) ==
    [chains[c] EXCEPT
        !.headHeight = BlockHeight[s],
        !.heightBlocks = [h \in Height |-> IF h > sn.tailHeight /\ h <= BlockHeight[s]
                                           THEN sn.heightBlocks[h] ELSE @[h]]]

\* insertSnippet: addHead for every block of the snippet.
Extended(c, s, sn) ==
    [chains[c] EXCEPT
        !.headHeight = BlockHeight[s],
        !.headHash = s,
        !.heightBlocks = [h \in Height |-> IF h > sn.tailHeight /\ h <= BlockHeight[s]
                                           THEN sn.heightBlocks[h] ELSE @[h]]]

-----------------------------------------------------------------------------
(***************************************************************************)
(* The disk chain: the snapshot chain of chain/snapshot_chain.go and its   *)
(* store.  Nothing compares a block with the head it is put on.            *)
(***************************************************************************)
\* insertChain for the blocks of map at heights lo..hi, in order.
Stored(blocks, lo, hi) ==
    IF hi < lo THEN diskChain
    ELSE [head     |-> blocks[hi],
          byHeight |-> [h \in Height |-> IF h >= lo /\ h <= hi
                                         THEN blocks[h] ELSE diskChain.byHeight[h]],
          byHash   |-> diskChain.byHash \cup {blocks[h] : h \in lo..hi}]

\* Faulty: the block can still be found by its hash.
RemovedByHeight(b) ==
    [head     |-> IF PreHash[b] \in diskChain.byHash THEN PreHash[b] ELSE Nil,
     byHeight |-> [diskChain.byHeight EXCEPT ![BlockHeight[b]] = Nil],
     byHash   |-> diskChain.byHash]

\* removeChain: the head becomes the predecessor of the block, if the store
\* has it.
Removed(b) ==
    [head     |-> IF PreHash[b] \in diskChain.byHash THEN PreHash[b] ELSE Nil,
     byHeight |-> [diskChain.byHeight EXCEPT ![BlockHeight[b]] = Nil],
     byHash   |-> diskChain.byHash \ {b}]
=============================================================================
