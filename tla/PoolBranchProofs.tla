-------------------------- MODULE PoolBranchProofs --------------------------
(***************************************************************************)
(* The theorems about SnapshotPool within the scope OneForkPoint: the      *)
(* disk and the forked chains are hash-linked and fit together, whatever   *)
(* the tree of blocks above the one block where its branches part, the     *)
(* order of arrival and the interleaving of loop() with snapshotFork.  The *)
(* last section shows that the pool implements FollowBranch.               *)
(***************************************************************************)
EXTENDS SnapshotPoolProofs

-----------------------------------------------------------------------------
(***************************************************************************)
(* The block where all branches part.                                      *)
(***************************************************************************)
ForkBlock ==
    CHOOSE f \in Block :
        /\ BlockHeight[f] <= 1
        /\ \A b, c \in Block : b # c /\ PreHash[b] = PreHash[c] => PreHash[b] = f

ForkHeight == BlockHeight[ForkBlock]

\* Two blocks with one predecessor sit on that block.
LEMMA ForkBlockFacts ==
    ASSUME OneForkPoint
    PROVE  /\ ForkBlock \in Block /\ ForkHeight \in Int
           /\ 0 <= ForkHeight /\ ForkHeight <= 1 /\ ForkHeight <= MaxHeight
           /\ \A b, c \in Block : b # c /\ PreHash[b] = PreHash[c]
                                     => PreHash[b] = ForkBlock
<1>1. \E f \in Block :
          /\ BlockHeight[f] <= 1
          /\ \A b, c \in Block : b # c /\ PreHash[b] = PreHash[c] => PreHash[b] = f
  BY DEF OneForkPoint
<1>2. /\ ForkBlock \in Block /\ ForkHeight <= 1
      /\ \A b, c \in Block : b # c /\ PreHash[b] = PreHash[c]
                                => PreHash[b] = ForkBlock
  BY <1>1 DEF ForkBlock, ForkHeight
<1> QED
  BY <1>2, BlockFacts DEF ForkHeight

\* Genesis is the one block at height 0; every other has a predecessor.
LEMMA Bottom ==
    ASSUME NEW b \in Block
    PROVE  /\ BlockHeight[b] = 0 <=> b = Genesis
           /\ b # Genesis => /\ PreHash[b] \in Block
                             /\ BlockHeight[PreHash[b]] = BlockHeight[b] - 1
<1>1. CASE b = Genesis
  BY <1>1, TreeAssumption
<1>2. CASE b # Genesis
  <2>1. PreHash[b] \in Block /\ BlockHeight[b] = BlockHeight[PreHash[b]] + 1
    BY <1>2, TreeAssumption
  <2>2. BlockHeight[PreHash[b]] \in Int /\ BlockHeight[PreHash[b]] >= 0
    BY <2>1, BlockFacts
  <2> QED
    BY <1>2, <2>1, <2>2
<1> QED
  BY <1>1, <1>2

\* Up to the height where branches part there is one block at each height.
LEMMA OneBelow ==
    ASSUME OneForkPoint, NEW b \in Block, NEW c \in Block,
           BlockHeight[b] = BlockHeight[c], BlockHeight[b] <= ForkHeight
    PROVE  b = c
<1>1. CASE b = Genesis \/ c = Genesis
  BY <1>1, Bottom
<1>2. CASE b # Genesis /\ c # Genesis
  <2>1. /\ BlockHeight[b] \in Int /\ BlockHeight[b] >= 0 /\ BlockHeight[b] # 0
    BY <1>2, Bottom, BlockFacts
  <2>2. BlockHeight[b] = 1 /\ ForkHeight = 1
    BY <2>1, ForkBlockFacts
  <2>3. /\ PreHash[b] \in Block /\ PreHash[c] \in Block
        /\ BlockHeight[PreHash[b]] = 0 /\ BlockHeight[PreHash[c]] = 0
    <3>1. PreHash[b] \in Block /\ BlockHeight[PreHash[b]] = BlockHeight[b] - 1
      BY <1>2, Bottom
    <3>2. PreHash[c] \in Block /\ BlockHeight[PreHash[c]] = BlockHeight[c] - 1
      BY <1>2, Bottom
    <3>3. BlockHeight[b] = 1 /\ BlockHeight[c] = 1
      BY <2>2
    <3> QED
      BY <3>1, <3>2, <3>3
  <2>4. PreHash[b] = Genesis /\ PreHash[c] = Genesis
    BY <2>3, Bottom
  <2>5. ForkBlock # Genesis
    BY <2>2, ForkBlockFacts, Bottom DEF ForkHeight
  <2>6. b # c => PreHash[b] = ForkBlock
    BY <2>4, ForkBlockFacts
  <2> QED
    BY <2>4, <2>5, <2>6
<1> QED
  BY <1>1, <1>2

-----------------------------------------------------------------------------
(***************************************************************************)
(* The lookup through references.  GetBlock is a recursive function; that  *)
(* there is one, and what it returns, follows from RefersReachDisk, which  *)
(* is an induction principle: no set of chains refers only to itself.      *)
(***************************************************************************)
\* One round of the lookup, when f answers for the chains referred to.
Asked(h, f) ==
    [d \in chainIds |->
        IF OwnBlock(d, h) # Nil THEN OwnBlock(d, h)
        ELSE IF chains[d].referChain = Disk THEN DiskBlock(h)
        ELSE f[chains[d].referChain]]

\* The lookup has an answer for every chain: the least relation that contains
\* every round is a function.
LEMMA LookupEnds ==
    ASSUME RefersReachDisk, NEW h
    PROVE  \E f : f = Asked(h, f)
<1> DEFINE V == {OwnBlock(d, h) : d \in chainIds} \cup {DiskBlock(h)}
           Refer(d) == chains[d].referChain
           Through(d) == OwnBlock(d, h) = Nil /\ Refer(d) # Disk
           Here(d) == IF OwnBlock(d, h) # Nil THEN OwnBlock(d, h) ELSE DiskBlock(h)
           Closed(R) == \A d \in chainIds :
              /\ ~Through(d) => <<d, Here(d)>> \in R
              /\ Through(d) => \A v \in V : <<Refer(d), v>> \in R => <<d, v>> \in R
           G == {p \in chainIds \X V : \A R \in SUBSET (chainIds \X V) : Closed(R) => p \in R}
           Single(d) == \E v \in V : /\ <<d, v>> \in G
                                     /\ \A u \in V : <<d, u>> \in G => u = v
           S == {d \in chainIds : ~Single(d)}
<1>1. \A d \in chainIds : Here(d) \in V
  OBVIOUS
<1>2. G \subseteq chainIds \X V
  OBVIOUS
<1>3. \A R \in SUBSET (chainIds \X V) : Closed(R) => G \subseteq R
  OBVIOUS
<1>4. \A d \in chainIds : Through(d) => Refer(d) \in chainIds
  BY DEF RefersReachDisk
<1> HIDE DEF V, Here, Through, Refer
<1>5. Closed(G)
  <2>1. ASSUME NEW d \in chainIds, ~Through(d) PROVE <<d, Here(d)>> \in G
    <3>1. <<d, Here(d)>> \in chainIds \X V
      BY <1>1
    <3>2. \A R \in SUBSET (chainIds \X V) : Closed(R) => <<d, Here(d)>> \in R
      BY <2>1
    <3> QED
      BY <3>1, <3>2
  <2>2. ASSUME NEW d \in chainIds, Through(d), NEW v \in V, <<Refer(d), v>> \in G
        PROVE  <<d, v>> \in G
    <3>1. <<d, v>> \in chainIds \X V
      OBVIOUS
    <3>2. \A R \in SUBSET (chainIds \X V) : Closed(R) => <<d, v>> \in R
      BY <2>2
    <3> QED
      BY <3>1, <3>2
  <2> HIDE DEF G
  <2> QED
    BY <2>1, <2>2
<1> HIDE DEF G
<1>6. ASSUME NEW c \in chainIds, Through(c) => Single(Refer(c))
      PROVE  Single(c)
  <2>1. PICK v \in V : /\ <<c, v>> \in G
                       /\ ~Through(c) => v = Here(c)
                       /\ Through(c) => \A u \in V : <<Refer(c), u>> \in G => u = v
    BY <1>1, <1>4, <1>5, <1>6
  <2>2. ASSUME NEW u \in V, <<c, u>> \in G, u # v
        PROVE  FALSE
    <3> DEFINE R == G \ {<<c, u>>}
    <3>1. R \in SUBSET (chainIds \X V) /\ R \subseteq G
      BY <1>2
    <3>2. ASSUME NEW d \in chainIds, ~Through(d)
          PROVE  <<d, Here(d)>> \in R
      BY <1>5, <2>1, <2>2, <3>2
    <3>3. ASSUME NEW d \in chainIds, Through(d), NEW x \in V, <<Refer(d), x>> \in R
          PROVE  <<d, x>> \in R
      BY <1>5, <2>1, <2>2, <3>3
    <3>4. Closed(R)
      BY <3>2, <3>3
    <3> QED
      BY <1>3, <2>2, <3>1, <3>4
  <2> QED
    BY <2>1, <2>2
<1>7. S = {}
  <2> SUFFICES ASSUME S # {} PROVE FALSE
    OBVIOUS
  <2>1. PICK c \in S : Refer(c) \notin S
    BY DEF RefersReachDisk, Refer
  <2> QED
    BY <1>4, <1>6, <2>1
<1>8. \A d \in chainIds : Single(d)
  BY <1>7
<1>9. PICK f \in [chainIds -> V] : \A d \in chainIds : <<d, f[d]>> \in G
  <2> DEFINE e == [d \in chainIds |-> CHOOSE v \in V : <<d, v>> \in G]
  <2>1. \A d \in chainIds : e[d] \in V /\ <<d, e[d]>> \in G
    BY <1>8
  <2>2. e \in [chainIds -> V]
    BY <2>1
  <2> QED
    BY <2>1, <2>2
<1>10. ASSUME NEW d \in chainIds
       PROVE  f[d] = IF Through(d) THEN f[Refer(d)] ELSE Here(d)
  <2>1. \A u \in V : <<d, u>> \in G => u = f[d]
    <3>1. PICK v \in V : \A u \in V : <<d, u>> \in G => u = v
      BY <1>8
    <3> QED
      BY <1>9, <3>1
  <2>2. CASE ~Through(d)
    BY <1>1, <1>5, <2>1, <2>2
  <2>3. CASE Through(d)
    <3>1. f[Refer(d)] \in V /\ <<Refer(d), f[Refer(d)]>> \in G
      BY <1>4, <1>9, <2>3
    <3>2. <<d, f[Refer(d)]>> \in G
      BY <1>5, <2>3, <3>1
    <3> QED
      BY <2>1, <2>3, <3>1, <3>2
  <2> QED
    BY <2>2, <2>3
<1>11. \A d \in chainIds : Asked(h, f)[d] = IF Through(d) THEN f[Refer(d)] ELSE Here(d)
  BY DEF Asked, Here, Through, Refer
<1>12. f = Asked(h, f)
  BY <1>9, <1>10, <1>11 DEF Asked
<1> QED
  BY <1>12

\* getBlock(h, true) of a chain: its own block, or what the chain it refers to
\* or the disk returns.
LEMMA LookupRound ==
    ASSUME RefersReachDisk, NEW c \in chainIds, NEW h
    PROVE  GetBlock(c, h) = IF OwnBlock(c, h) # Nil THEN OwnBlock(c, h)
                            ELSE IF chains[c].referChain = Disk THEN DiskBlock(h)
                            ELSE GetBlock(chains[c].referChain, h)
<1> DEFINE g == CHOOSE f : f = Asked(h, f)
<1>1. g = Asked(h, g)
  BY LookupEnds
<1>2. \A d : GetBlock(d, h) = g[d]
  BY DEF GetBlock, Asked
<1> HIDE DEF g
<1>3. g[c] = IF OwnBlock(c, h) # Nil THEN OwnBlock(c, h)
             ELSE IF chains[c].referChain = Disk THEN DiskBlock(h)
             ELSE g[chains[c].referChain]
  BY <1>1 DEF Asked
<1> QED
  BY <1>2, <1>3

-----------------------------------------------------------------------------
(***************************************************************************)
(* The inductive invariant.                                                *)
(*                                                                         *)
(* OnePlace: a block other than genesis is compounded once and is then in  *)
(* one snippet, or in the memory of one chain, or on disk, or dropped.     *)
(* Genesis is on disk and may come once more from a peer.                  *)
(*                                                                         *)
(* HandFree: the block that snapshotFork has in hand between two of its    *)
(* writes is in none of these places.                                      *)
(*                                                                         *)
(* DiskShape: the disk is a hash-linked run from genesis to its head.      *)
(*                                                                         *)
(* ChainsShape: one chain, the base, continues the disk, or the block in   *)
(* hand that continues the disk; every other chain stands on the block     *)
(* where branches part.  The base refers to the disk and is the current    *)
(* chain, but from the last round of modifyRefer to the change of the      *)
(* current chain.  In that round the old chain still refers to the disk    *)
(* when the new one already continues it.                                  *)
(*                                                                         *)
(* HandShape: the block that rollback or modifyRefer moves fits the disk.  *)
(*                                                                         *)
(* ForkShape: where snapshotFork is, and the two panics.                   *)
(*                                                                         *)
(* VisitShape: forky looks at every chain, and the snippet it attaches     *)
(* continues none of those it has passed.                                  *)
(***************************************************************************)
Top == BlockHeight[diskChain.head]

Holds(m, b) == m[BlockHeight[b]] = b
SnippetHolds(s, b) == Holds(snippetChains[s].heightBlocks, b)
ChainHolds(c, b) == Holds(chains[c].heightBlocks, b)

\* The snippets that no other has taken over.
Live == IF pc = "merge" THEN headMap ELSE Snippets

OnePlace ==
    /\ \A b \in Block, s \in Snippets : SnippetHolds(s, b) => b \in compoundBlocks
    /\ \A b \in Block \ {Genesis} :
        /\ \A s \in Snippets : SnippetHolds(s, b) =>
              b \notin diskChain.byHash /\ \A c \in chainIds : ~ChainHolds(c, b)
        /\ \A s, t \in Live : SnippetHolds(s, b) /\ SnippetHolds(t, b) => s = t
        /\ \A c \in chainIds : ChainHolds(c, b) =>
              /\ b \in compoundBlocks /\ b \notin diskChain.byHash
              /\ \A d \in chainIds : ChainHolds(d, b) => c = d
        /\ b \in diskChain.byHash => b \in compoundBlocks

\* A block was taken from where it was and not yet put where it goes.
InHand == fork.pc \in {"removed", "untailed"}

HandFree ==
    InHand => /\ fork.block \in compoundBlocks /\ fork.block \notin diskChain.byHash
              /\ \A s \in Snippets : ~SnippetHolds(s, fork.block)
              /\ \A c \in chainIds : ~ChainHolds(c, fork.block)

DiskShape ==
    /\ diskChain.head \in Block
    /\ diskChain.byHeight[0] = Genesis
    /\ diskChain.byHeight[Top] = diskChain.head
    /\ Run(diskChain.byHeight, 1, Top, Genesis)
    /\ \A h \in Height : h > Top => diskChain.byHeight[h] = Nil
    /\ diskChain.byHash = {diskChain.byHeight[h] : h \in 0..Top}

\* modifyRefer turns the reference to the current chain, the last one.
LastTurn == fork.pc \in {"refer", "turn"} /\ fork.from = current

Base == IF chains[current].referChain = Disk /\ ~LastTurn THEN current ELSE fork.longest

\* What the base continues.
Seat == IF InHand THEN fork.block ELSE diskChain.head

\* The chain ch holds a run that starts above the block foot and ends in its head.
ChainShape(ch, foot) ==
    /\ ch.tailHeight = BlockHeight[foot]
    /\ ch.headHeight = BlockHeight[ch.headHash]
    /\ ch.tailHeight <= ch.headHeight
    /\ IF ch.tailHeight = ch.headHeight THEN ch.headHash = foot
       ELSE ch.heightBlocks[ch.headHeight] = ch.headHash
    /\ Run(ch.heightBlocks, ch.tailHeight + 1, ch.headHeight, foot)
    /\ \A h \in Height : h <= ch.tailHeight \/ h > ch.headHeight =>
                             ch.heightBlocks[h] = Nil

ChainsShape ==
    /\ ~LastTurn => \A c \in chainIds : chains[c].referChain = Disk <=> c = Base
    /\ LastTurn => /\ chains[current].referChain = Disk
                   /\ \A c \in chainIds : chains[c].referChain = Disk => c \in {current, Base}
    /\ ChainShape(chains[Base], Seat)
    /\ \A c \in chainIds \ {Base} : ChainShape(chains[c], ForkBlock)
    /\ \A c, d \in chainIds : c # d => chains[c].headHeight > ForkHeight

HandShape ==
    /\ fork.block # Nil => /\ PreHash[fork.block] = diskChain.head
                           /\ fork.pc \in {"removed", "untailed", "refer", "turn"}
                           /\ fork.pc # "removed" => fork.block = ForkBlock /\ fork.from = current
    /\ fork.pc = "removed" => BlockHeight[fork.block] > ForkHeight
    /\ LastTurn /\ fork.block = Nil => Top = ForkHeight

ForkShape ==
    /\ Base # current => fork.pc \in {"modify", "refer", "turn"}
    /\ fork.pc # "idle" => fork.longest # current
    /\ fork.pc \in {"rollback", "removed"} => fork.point = ForkHeight
    /\ WriteLocked /\ fork.pc \notin {"rollback", "removed"} => Top <= ForkHeight
    /\ crashed => Overtaken \/ HeadInHand

VisitShape ==
    pc = "forky" =>
        /\ chainIds \subseteq Range(tmpChains)
        /\ w # Nil => \A i \in DOMAIN tmpChains : i < visit => ~Continues(tmpChains[i])

PoolShape == /\ OnePlace /\ HandFree /\ DiskShape /\ ChainsShape /\ HandShape
             /\ ForkShape /\ VisitShape

\* What the earlier theorems establish.
Ground == TypeOK /\ Bookkeeping /\ SnippetsLinked /\ RefersReachDisk /\ TurnShape


-----------------------------------------------------------------------------
(***************************************************************************)
(* Reading the disk and the chains.                                        *)
(***************************************************************************)
\* The disk has a block at each height up to its head and none elsewhere.
LEMMA DiskReads ==
    ASSUME TypeOK, DiskShape
    PROVE  /\ Top \in Int /\ 0 <= Top /\ Top <= MaxHeight
           /\ DiskBlock(0) = Genesis /\ DiskBlock(Top) = diskChain.head
           /\ \A h \in 0..Top : /\ DiskBlock(h) \in Block
                                /\ BlockHeight[DiskBlock(h)] = h
                                /\ DiskBlock(h) \in diskChain.byHash
                                /\ h # 0 => PreHash[DiskBlock(h)] = DiskBlock(h - 1)
           /\ \A h \in Int : ~(h \in 0..Top) => DiskBlock(h) = Nil
<1>1. /\ Top \in Int /\ 0 <= Top /\ Top <= MaxHeight /\ MaxHeight \in Nat
  BY BlockFacts DEF DiskShape, Top
<1>2. \A h \in 0..Top : h \in Height /\ DiskBlock(h) = diskChain.byHeight[h]
  BY <1>1 DEF DiskBlock, Height
<1>3. DiskBlock(0) = Genesis /\ DiskBlock(Top) = diskChain.head
  BY <1>1, <1>2 DEF DiskShape
<1>4. \A h \in 1..Top : /\ diskChain.byHeight[h] \in Block
                        /\ BlockHeight[diskChain.byHeight[h]] = h
                        /\ PreHash[diskChain.byHeight[h]] = diskChain.byHeight[h - 1]
  <2>1. \A h \in 1..Top : /\ diskChain.byHeight[h] \in Block
                        /\ BlockHeight[diskChain.byHeight[h]] = h
                        /\ PreHash[diskChain.byHeight[h]] =
                             IF h = 1 THEN Genesis ELSE diskChain.byHeight[h - 1]
    BY DEF DiskShape, Run
  <2>2. 1 - 1 = 0 /\ diskChain.byHeight[0] = Genesis
    BY DEF DiskShape
  <2> QED
    BY <2>1, <2>2
<1>5. ASSUME NEW h \in 0..Top
      PROVE  /\ DiskBlock(h) \in Block
             /\ BlockHeight[DiskBlock(h)] = h
             /\ DiskBlock(h) \in diskChain.byHash
             /\ h # 0 => PreHash[DiskBlock(h)] = DiskBlock(h - 1)
  <2>1. DiskBlock(h) \in diskChain.byHash
    BY <1>2 DEF DiskShape
  <2>2. CASE h = 0
    BY <1>3, <2>1, <2>2, TreeAssumption
  <2>3. CASE h # 0
    <3>1. h \in 1..Top /\ h - 1 \in 0..Top
      BY <1>1, <2>3
    <3> QED
      BY <1>2, <1>4, <2>1, <3>1
  <2> QED
    BY <2>2, <2>3
<1>6. ASSUME NEW h \in Int, ~(h \in 0..Top) PROVE DiskBlock(h) = Nil
  <2>1. CASE h \in Height
    <3>1. h > Top
      BY <1>1, <1>6, <2>1 DEF Height
    <3> QED
      BY <2>1, <3>1 DEF DiskBlock, DiskShape
  <2>2. CASE h \notin Height
    BY <2>2 DEF DiskBlock
  <2> QED
    BY <2>1, <2>2
<1> QED
  BY <1>1, <1>3, <1>5, <1>6

\* A chain of the given shape has its own blocks between its tail and its head.
LEMMA ShapeReads ==
    ASSUME NEW ch \in ForkedChain, NEW foot \in Block, ChainShape(ch, foot)
    PROVE  /\ ch.tailHeight \in Int /\ ch.headHeight \in Int /\ MaxHeight \in Nat
           /\ 0 <= ch.tailHeight /\ ch.tailHeight <= ch.headHeight
           /\ ch.headHeight <= MaxHeight
           /\ \A h \in ch.tailHeight + 1 .. ch.headHeight :
                 /\ h \in Height
                 /\ ch.heightBlocks[h] \in Block
                 /\ BlockHeight[ch.heightBlocks[h]] = h
                 /\ h # ch.tailHeight + 1 =>
                        PreHash[ch.heightBlocks[h]] = ch.heightBlocks[h - 1]
                 /\ h = ch.tailHeight + 1 => PreHash[ch.heightBlocks[h]] = foot
           /\ \A h \in Height : ~(h \in ch.tailHeight + 1 .. ch.headHeight) =>
                                    ch.heightBlocks[h] = Nil
<1>1. /\ ch.tailHeight \in Int /\ ch.headHeight \in Int
      /\ 0 <= ch.tailHeight /\ ch.tailHeight <= ch.headHeight
      /\ ch.headHeight <= MaxHeight /\ MaxHeight \in Nat
  BY BlockFacts DEF ChainShape, ForkedChain, Height
<1>2. \A h \in ch.tailHeight + 1 .. ch.headHeight : h \in Height
  BY <1>1 DEF Height
<1>3. \A h \in ch.tailHeight + 1 .. ch.headHeight :
        /\ ch.heightBlocks[h] \in Block
        /\ BlockHeight[ch.heightBlocks[h]] = h
        /\ PreHash[ch.heightBlocks[h]] = IF h = ch.tailHeight + 1 THEN foot
                                         ELSE ch.heightBlocks[h - 1]
  BY DEF ChainShape, Run
<1>4. \A h \in Height : ~(h \in ch.tailHeight + 1 .. ch.headHeight) =>
                            ch.heightBlocks[h] = Nil
  BY <1>1 DEF ChainShape, Height
<1> QED
  BY <1>1, <1>2, <1>3, <1>4

\* The block that the memory of a chain starts above.
Foot(c) == IF c = Base THEN Seat ELSE ForkBlock

\* The block that snapshotFork moves follows the head of the disk.
LEMMA HandFacts ==
    ASSUME Ground, OneForkPoint, PoolShape
    PROVE  /\ Top \in Int /\ 0 <= Top
           /\ InHand => fork.block # Nil
           /\ fork.block # Nil => /\ fork.block \in Block \ {Genesis}
                                  /\ BlockHeight[fork.block] = Top + 1
                                  /\ PreHash[fork.block] = diskChain.head
                                  /\ InHand \/ LastTurn
           /\ Seat \in Block
           /\ BlockHeight[Seat] = IF InHand THEN Top + 1 ELSE Top
           /\ LastTurn => ~InHand /\ Top <= ForkHeight
           /\ LastTurn /\ Top # ForkHeight => fork.block = ForkBlock /\ Top + 1 = ForkHeight
           /\ InHand => current = Base
<1>1. /\ diskChain.head \in Block /\ fork.block \in Block \cup {Nil}
      /\ InHand => fork.block # Nil
  BY DEF Ground, PoolShape, DiskShape, TypeOK, InHand, HashOrNil
<1>2. Top \in Int /\ 0 <= Top
  BY <1>1, BlockFacts DEF Top
<1>3. fork.block # Nil => /\ PreHash[fork.block] = diskChain.head
                          /\ fork.pc \in {"removed", "untailed", "refer", "turn"}
                          /\ fork.pc # "removed" => fork.block = ForkBlock /\ fork.from = current
  BY DEF PoolShape, HandShape
<1>4. ASSUME fork.block # Nil
      PROVE  /\ fork.block \in Block \ {Genesis}
             /\ BlockHeight[fork.block] = Top + 1
             /\ PreHash[fork.block] = diskChain.head
             /\ InHand \/ LastTurn
  <2>1. PreHash[fork.block] = diskChain.head /\ fork.block \in Block
    BY <1>1, <1>3, <1>4
  <2>2. fork.block # Genesis
    BY <1>1, <2>1, TreeAssumption
  <2>3. BlockHeight[diskChain.head] = BlockHeight[fork.block] - 1
    BY <2>1, <2>2, Bottom
  <2>4. BlockHeight[fork.block] \in Int
    BY <2>1, BlockFacts
  <2>5. BlockHeight[fork.block] = Top + 1
    BY <1>2, <2>3, <2>4 DEF Top
  <2>6. InHand \/ LastTurn
    BY <1>3, <1>4 DEF InHand, LastTurn
  <2> QED
    BY <2>1, <2>2, <2>5, <2>6
<1>5. LastTurn => ~InHand /\ WriteLocked /\ fork.pc \notin {"rollback", "removed"}
  BY DEF LastTurn, InHand, WriteLocked
<1>6. LastTurn => Top <= ForkHeight
  BY <1>5 DEF PoolShape, ForkShape
<1>7. LastTurn /\ fork.block = Nil => Top = ForkHeight
  BY DEF PoolShape, HandShape
<1>8. LastTurn /\ Top # ForkHeight => fork.block = ForkBlock /\ Top + 1 = ForkHeight
  <2>1. LastTurn => fork.pc # "removed"
    BY DEF LastTurn
  <2> QED
    BY <1>3, <1>4, <1>7, <2>1 DEF ForkHeight
<1>9. InHand => current = Base
  BY DEF PoolShape, ForkShape, InHand
<1>10. Seat \in Block /\ BlockHeight[Seat] = IF InHand THEN Top + 1 ELSE Top
  BY <1>1, <1>4 DEF Seat, Top
<1> QED
  BY <1>1, <1>2, <1>4, <1>5, <1>6, <1>8, <1>9, <1>10

\* Every chain has the shape that goes with its foot.  The references end at the
\* disk: that of the base and, in the last turn, that of the current chain.
LEMMA ChainFacts ==
    ASSUME Ground, OneForkPoint, PoolShape
    PROVE  /\ Base \in chainIds /\ chainIds \subseteq Block /\ current \in chainIds
           /\ \A c \in chainIds : /\ Foot(c) \in Block
                                  /\ chains[c] \in ForkedChain
                                  /\ ChainShape(chains[c], Foot(c))
                                  /\ chains[c].referChain \in chainIds \cup {Disk}
           /\ Disk \notin chainIds
           /\ \A c \in chainIds : chains[c].referChain = Disk =>
                 c = Base \/ (LastTurn /\ c = current)
           /\ ~LastTurn => chains[Base].referChain = Disk
           /\ LastTurn => /\ Base # current /\ Base = fork.longest
                          /\ chains[current].referChain = Disk
                          /\ chains[Base].referChain \in {Disk, current}
           /\ \A c, d \in chainIds : c # d => chains[c].headHeight > ForkHeight
<1>1. /\ Base \in chainIds /\ chainIds \subseteq Block /\ current \in chainIds
      /\ chains \in [Block -> ForkedChain]
  BY DEF Ground, Bookkeeping, TypeOK, Base
<1>2. Seat \in Block /\ ForkBlock \in Block
  BY ForkBlockFacts, HandFacts
<1>3. \A c \in chainIds : chains[c].referChain \in chainIds \cup {Disk}
  BY DEF Ground, RefersReachDisk
<1>4. /\ ~LastTurn => \A c \in chainIds : chains[c].referChain = Disk <=> c = Base
      /\ LastTurn => /\ chains[current].referChain = Disk
                     /\ \A c \in chainIds : chains[c].referChain = Disk => c \in {current, Base}
      /\ ChainShape(chains[Base], Seat)
      /\ \A c \in chainIds \ {Base} : ChainShape(chains[c], ForkBlock)
      /\ \A c, d \in chainIds : c # d => chains[c].headHeight > ForkHeight
  BY DEF PoolShape, ChainsShape
<1>5. ASSUME LastTurn
      PROVE  /\ Base # current /\ Base = fork.longest
             /\ chains[Base].referChain \in {Disk, current}
  <2>1. Base = fork.longest /\ fork.longest # current
    BY <1>5 DEF Base, PoolShape, ForkShape, LastTurn
  <2>2. /\ fork.pc = "refer" => chains[fork.longest].referChain = current
        /\ fork.pc = "turn" => chains[fork.longest].referChain = chains[current].referChain
    BY <1>5 DEF LastTurn, Ground, TurnShape
  <2>3. fork.pc = "refer" \/ fork.pc = "turn"
    BY <1>5 DEF LastTurn
  <2> QED
    BY <1>4, <1>5, <2>1, <2>2, <2>3
<1>6. Disk \notin chainIds
  BY <1>1, TreeAssumption
<1>7. \A c \in chainIds : /\ Foot(c) \in Block
                          /\ chains[c] \in ForkedChain
                          /\ ChainShape(chains[c], Foot(c))
  <2> HIDE DEF Base, Seat
  <2> QED
    BY <1>1, <1>2, <1>4 DEF Foot
<1> QED
  BY <1>1, <1>3, <1>4, <1>5, <1>6, <1>7

\* The blocks of a chain's own memory.
LEMMA OwnReads ==
    ASSUME Ground, OneForkPoint, PoolShape, NEW c \in chainIds, NEW h \in Int
    PROVE  /\ chains[c].tailHeight = BlockHeight[Foot(c)]
           /\ chains[c].tailHeight \in Int /\ chains[c].headHeight \in Int
           /\ 0 <= chains[c].tailHeight /\ chains[c].tailHeight <= chains[c].headHeight
           /\ chains[c].headHeight <= MaxHeight
           /\ h > chains[c].tailHeight /\ h <= chains[c].headHeight =>
                 /\ h \in Height
                 /\ OwnBlock(c, h) = chains[c].heightBlocks[h]
                 /\ OwnBlock(c, h) \in Block \ {Genesis}
                 /\ BlockHeight[OwnBlock(c, h)] = h
                 /\ ChainHolds(c, OwnBlock(c, h))
                 /\ h # chains[c].tailHeight + 1 => PreHash[OwnBlock(c, h)] = OwnBlock(c, h - 1)
                 /\ h = chains[c].tailHeight + 1 => PreHash[OwnBlock(c, h)] = Foot(c)
           /\ ~(h > chains[c].tailHeight /\ h <= chains[c].headHeight) => OwnBlock(c, h) = Nil
<1> DEFINE ch == chains[c]
           foot == Foot(c)
<1>1. ch \in ForkedChain /\ foot \in Block /\ ChainShape(ch, foot)
  BY ChainFacts
<1>2. ch.tailHeight = BlockHeight[foot]
  BY <1>1 DEF ChainShape
<1>3. /\ ch.tailHeight \in Int /\ ch.headHeight \in Int /\ MaxHeight \in Nat
      /\ 0 <= ch.tailHeight /\ ch.tailHeight <= ch.headHeight
      /\ ch.headHeight <= MaxHeight
      /\ \A k \in ch.tailHeight + 1 .. ch.headHeight :
                 /\ k \in Height
                 /\ ch.heightBlocks[k] \in Block
                 /\ BlockHeight[ch.heightBlocks[k]] = k
                 /\ k # ch.tailHeight + 1 =>
                        PreHash[ch.heightBlocks[k]] = ch.heightBlocks[k - 1]
                 /\ k = ch.tailHeight + 1 => PreHash[ch.heightBlocks[k]] = foot
      /\ \A k \in Height : ~(k \in ch.tailHeight + 1 .. ch.headHeight) =>
                                    ch.heightBlocks[k] = Nil
  BY <1>1, ShapeReads
<1> HIDE DEF foot
<1>4. CASE h > ch.tailHeight /\ h <= ch.headHeight
  <2>1. h \in ch.tailHeight + 1 .. ch.headHeight /\ h > 0
    BY <1>3, <1>4
  <2>2. /\ h \in Height /\ ch.heightBlocks[h] \in Block
        /\ BlockHeight[ch.heightBlocks[h]] = h
    BY <1>3, <2>1
  <2>3. OwnBlock(c, h) = ch.heightBlocks[h]
    BY <2>2 DEF OwnBlock
  <2>4. ch.heightBlocks[h] # Genesis
    BY <2>1, <2>2, TreeAssumption
  <2>5. ChainHolds(c, OwnBlock(c, h))
    BY <2>2, <2>3 DEF ChainHolds, Holds
  <2>6. ASSUME h # ch.tailHeight + 1
        PROVE  PreHash[OwnBlock(c, h)] = OwnBlock(c, h - 1)
    <3>1. h - 1 \in ch.tailHeight + 1 .. ch.headHeight
      BY <1>3, <2>1, <2>6
    <3>2. OwnBlock(c, h - 1) = ch.heightBlocks[h - 1]
      BY <1>3, <3>1 DEF OwnBlock
    <3> QED
      BY <1>3, <2>1, <2>3, <2>6, <3>2
  <2>7. h = ch.tailHeight + 1 => PreHash[OwnBlock(c, h)] = foot
    BY <1>3, <2>1, <2>3
  <2> QED
    BY <1>2, <1>3, <1>4, <2>2, <2>3, <2>4, <2>5, <2>6, <2>7 DEF foot
<1>5. CASE ~(h > ch.tailHeight /\ h <= ch.headHeight)
  <2>1. ~(h \in ch.tailHeight + 1 .. ch.headHeight)
    BY <1>3, <1>5
  <2>2. OwnBlock(c, h) = Nil
    BY <1>3, <2>1 DEF OwnBlock
  <2> QED
    BY <1>2, <1>3, <1>5, <2>2 DEF foot
<1> QED
  BY <1>4, <1>5

\* Above its head a chain has what the chain it refers to has, and the disk
\* nothing.
LEMMA AboveHead ==
    ASSUME Ground, OneForkPoint, PoolShape, NEW c \in chainIds,
           NEW h \in Int, h > chains[c].headHeight
    PROVE  /\ chains[c].referChain = Disk => GetBlock(c, h) = Nil
           /\ chains[c].referChain # Disk =>
                 /\ chains[c].referChain \in chainIds
                 /\ GetBlock(c, h) = GetBlock(chains[c].referChain, h)
<1>1. /\ OwnBlock(c, h) = Nil
      /\ chains[c].headHeight \in Int /\ chains[c].tailHeight \in Int
      /\ chains[c].tailHeight <= chains[c].headHeight
      /\ chains[c].tailHeight = BlockHeight[Foot(c)]
  BY OwnReads
<1>2. GetBlock(c, h) = IF chains[c].referChain = Disk THEN DiskBlock(h)
                                                      ELSE GetBlock(chains[c].referChain, h)
  BY <1>1, LookupRound DEF Ground
<1>3. ASSUME chains[c].referChain = Disk PROVE DiskBlock(h) = Nil
  <2>1. Top <= chains[c].tailHeight /\ Top \in Int
    <3>1. Top \in Int /\ BlockHeight[Seat] = IF InHand THEN Top + 1 ELSE Top
      BY HandFacts
    <3>2. CASE c = Base
      BY <1>1, <3>1, <3>2 DEF Foot
    <3>3. CASE c # Base
      <4>1. LastTurn
        BY <1>3, <3>3, ChainFacts
      <4> QED
        BY <1>1, <3>1, <3>3, <4>1, HandFacts DEF Foot, ForkHeight
    <3> QED
      BY <3>2, <3>3
  <2>2. ~(h \in 0..Top)
    BY <1>1, <2>1
  <2> QED
    BY <2>2, DiskReads DEF Ground, PoolShape
<1>4. chains[c].referChain # Disk => chains[c].referChain \in chainIds
  BY ChainFacts
<1> QED
  BY <1>2, <1>3, <1>4

\* The base chain: the disk up to its head, a block in hand above it, then the
\* chain's own blocks.
LEMMA BaseReads ==
    ASSUME Ground, OneForkPoint, PoolShape, NEW h \in Int
    PROVE  /\ chains[Base].tailHeight = IF InHand THEN Top + 1 ELSE Top
           /\ chains[Base].headHeight \in Int
           /\ chains[Base].tailHeight <= chains[Base].headHeight
           /\ h < 0 => GetBlock(Base, h) = Nil
           /\ h >= 0 /\ h <= Top => GetBlock(Base, h) = DiskBlock(h)
           /\ InHand /\ h = Top + 1 => GetBlock(Base, h) = Nil
           /\ h > chains[Base].tailHeight /\ h <= chains[Base].headHeight =>
                 GetBlock(Base, h) = OwnBlock(Base, h)
<1>1. /\ Base \in chainIds /\ RefersReachDisk /\ current \in chainIds
      /\ chains[Base].referChain \in {Disk, current}
      /\ chains[Base].referChain # Disk =>
            LastTurn /\ current # Base /\ chains[current].referChain = Disk
      /\ current # Disk
  BY ChainFacts DEF Ground
<1>2. /\ Top \in Int /\ 0 <= Top
      /\ ~(h \in 0..Top) => DiskBlock(h) = Nil
  BY DiskReads DEF Ground, PoolShape
<1>3. chains[Base].tailHeight = IF InHand THEN Top + 1 ELSE Top
  BY <1>1, OwnReads, HandFacts DEF Foot
<1>4. /\ chains[Base].headHeight \in Int /\ chains[Base].tailHeight <= chains[Base].headHeight
      /\ h > chains[Base].tailHeight /\ h <= chains[Base].headHeight =>
            OwnBlock(Base, h) \in Block
      /\ ~(h > chains[Base].tailHeight /\ h <= chains[Base].headHeight) =>
            OwnBlock(Base, h) = Nil
  BY <1>1, OwnReads
<1>5. h > chains[Base].tailHeight /\ h <= chains[Base].headHeight =>
                 GetBlock(Base, h) = OwnBlock(Base, h)
  BY <1>1, <1>4, LookupRound, TreeAssumption
<1>6. ASSUME h <= chains[Base].tailHeight PROVE GetBlock(Base, h) = DiskBlock(h)
  <2>1. OwnBlock(Base, h) = Nil
    BY <1>2, <1>3, <1>4, <1>6
  <2>2. CASE chains[Base].referChain = Disk
    BY <1>1, <2>1, <2>2, LookupRound
  <2>3. CASE chains[Base].referChain # Disk
    <3>1. /\ chains[current].tailHeight = ForkHeight /\ current # Base
          /\ ~InHand /\ Top <= ForkHeight /\ ForkHeight \in Int
      BY <1>1, <2>3, OwnReads, HandFacts, ForkBlockFacts DEF Foot, ForkHeight
    <3>2. h <= ForkHeight
      BY <1>2, <1>3, <1>6, <3>1
    <3>3. OwnBlock(current, h) = Nil
      BY <1>1, <3>1, <3>2, OwnReads
    <3>4. GetBlock(Base, h) = GetBlock(current, h)
      BY <1>1, <2>1, <2>3, LookupRound
    <3>5. GetBlock(current, h) = DiskBlock(h)
      BY <1>1, <2>3, <3>3, LookupRound
    <3> QED
      BY <3>4, <3>5
  <2> QED
    BY <2>2, <2>3
<1>7. /\ h < 0 => h <= chains[Base].tailHeight /\ DiskBlock(h) = Nil
      /\ h >= 0 /\ h <= Top => h <= chains[Base].tailHeight
      /\ InHand /\ h = Top + 1 => h <= chains[Base].tailHeight /\ DiskBlock(h) = Nil
  BY <1>2, <1>3
<1> QED
  BY <1>3, <1>4, <1>5, <1>6, <1>7

\* What is read with the block in hand.
LEMMA ReadHand ==
    ASSUME NEW c, NEW h
    PROVE  /\ GetBlock(c, h) # Nil => Read(c, h) = GetBlock(c, h)
           /\ fork.block = Nil => Read(c, h) = GetBlock(c, h)
           /\ h # BlockHeight[fork.block] => Read(c, h) = GetBlock(c, h)
           /\ GetBlock(c, h) = Nil /\ fork.block # Nil /\ h = BlockHeight[fork.block]
                 => Read(c, h) = fork.block
  BY DEF Read

\* Below the block where branches part all chains read the same.
LEMMA LowReads ==
    ASSUME Ground, OneForkPoint, PoolShape, NEW h \in Int, h <= ForkHeight
    PROVE  \A c \in chainIds : Read(c, h) = Read(Base, h)
<1> DEFINE S == {c \in chainIds : Read(c, h) # Read(Base, h)}
<1>0. ForkHeight \in Int /\ ForkBlock \in Block /\ Base \in chainIds /\ Nil \notin Block
  BY ForkBlockFacts, ChainFacts, TreeAssumption
<1>1. ASSUME NEW c \in chainIds, c # Base
      PROVE  OwnBlock(c, h) = Nil
  <2>1. chains[c].tailHeight = ForkHeight
    BY <1>1, OwnReads DEF Foot, ForkHeight
  <2> QED
    BY <1>0, <2>1, OwnReads
<1>2. ASSUME NEW c \in chainIds, c # Base, chains[c].referChain # Disk
      PROVE  Read(c, h) = Read(chains[c].referChain, h)
  <2>1. GetBlock(c, h) = GetBlock(chains[c].referChain, h)
    BY <1>1, <1>2, LookupRound DEF Ground
  <2> QED
    BY <2>1 DEF Read
<1>3. ASSUME NEW c \in chainIds, c # Base, chains[c].referChain = Disk
      PROVE  Read(c, h) = Read(Base, h)
  <2>1. LastTurn /\ ~InHand /\ Top \in Int /\ Top <= ForkHeight
    BY <1>3, ChainFacts, HandFacts
  <2>2. GetBlock(c, h) = DiskBlock(h)
    BY <1>1, <1>3, LookupRound DEF Ground
  <2>3. CASE h <= Top
    <3>1. GetBlock(Base, h) = DiskBlock(h)
      <4>1. CASE h < 0
        <5>1. DiskBlock(h) = Nil
          BY <4>1, DiskReads DEF Ground, PoolShape
        <5> QED
          BY <4>1, <5>1, BaseReads
      <4>2. CASE h >= 0
        BY <2>3, <4>2, BaseReads
      <4> QED
        BY <4>1, <4>2
    <3> QED
      BY <2>2, <3>1 DEF Read
  <2>4. CASE h > Top
    <3>1. fork.block = ForkBlock /\ h = ForkHeight
      <4>1. Top # ForkHeight
        BY <1>0, <2>1, <2>4
      <4>2. fork.block = ForkBlock /\ Top + 1 = ForkHeight
        BY <2>1, <4>1, HandFacts
      <4> QED
        BY <1>0, <2>1, <2>4, <4>2
    <3>2. DiskBlock(h) = Nil
      BY <2>1, <2>4, DiskReads DEF Ground, PoolShape
    <3>3. Read(c, h) = ForkBlock
      BY <1>0, <2>2, <3>1, <3>2, ReadHand DEF ForkHeight
    <3>4. h > chains[Base].tailHeight /\ h <= chains[Base].headHeight
      <4>1. chains[Base].headHeight > ForkHeight
        BY <1>0, <1>3, ChainFacts
      <4>2. chains[Base].tailHeight = Top /\ chains[Base].headHeight \in Int
        BY <2>1, BaseReads
      <4> QED
        BY <1>0, <2>4, <4>1, <4>2
    <3>5. GetBlock(Base, h) = OwnBlock(Base, h)
      BY <3>4, BaseReads
    <3>6. OwnBlock(Base, h) \in Block /\ BlockHeight[OwnBlock(Base, h)] = h
      BY <1>0, <3>4, OwnReads
    <3>7. OwnBlock(Base, h) = ForkBlock
      BY <1>0, <3>1, <3>6, OneBelow DEF ForkHeight
    <3>8. Read(Base, h) = ForkBlock
      BY <1>0, <3>5, <3>7, ReadHand
    <3> QED
      BY <3>3, <3>8
  <2> QED
    BY <2>1, <2>3, <2>4
<1>4. S = {}
  <2> SUFFICES ASSUME S # {} PROVE FALSE
    OBVIOUS
  <2>1. PICK c \in S : chains[c].referChain \notin S
    BY DEF Ground, RefersReachDisk
  <2>2. c \in chainIds /\ c # Base
    BY <2>1
  <2>3. chains[c].referChain # Disk
    BY <1>3, <2>1, <2>2
  <2>4. chains[c].referChain \in chainIds
    BY <2>2, <2>3, ChainFacts
  <2> QED
    BY <1>2, <2>1, <2>2, <2>3, <2>4
<1> QED
  BY <1>4

\* A chain other than the base: the same as the base up to the block where
\* branches part, then the chain's own blocks.
LEMMA SideReads ==
    ASSUME Ground, OneForkPoint, PoolShape, NEW c \in chainIds, c # Base, NEW h \in Int
    PROVE  /\ chains[c].tailHeight = ForkHeight
           /\ chains[c].headHeight > ForkHeight /\ chains[Base].headHeight > ForkHeight
           /\ h <= ForkHeight => Read(c, h) = Read(Base, h)
           /\ h > ForkHeight /\ h <= chains[c].headHeight =>
                 GetBlock(c, h) = OwnBlock(c, h)
<1>1. chains[c].tailHeight = ForkHeight
  BY OwnReads DEF Foot, ForkHeight
<1>2. Base \in chainIds
  BY ChainFacts
<1>3. chains[c].headHeight > ForkHeight /\ chains[Base].headHeight > ForkHeight
  BY <1>2, ChainFacts
<1>4. h > ForkHeight /\ h <= chains[c].headHeight => OwnBlock(c, h) \in Block
  BY <1>1, OwnReads
<1>5. h > ForkHeight /\ h <= chains[c].headHeight => GetBlock(c, h) = OwnBlock(c, h)
  BY <1>4, LookupRound, TreeAssumption DEF Ground
<1> QED
  BY <1>1, <1>3, <1>5, LowReads

\* Read through its references, a chain is hash-linked from genesis to its head,
\* with the block in hand at its height.
LEMMA Complete ==
    ASSUME Ground, OneForkPoint, PoolShape, NEW c \in chainIds
    PROVE  /\ GetBlock(c, 0) = Genesis
           /\ Read(c, chains[c].headHeight) = chains[c].headHash
           /\ \A h \in 0 .. chains[c].headHeight :
                 /\ Read(c, h) \in Block
                 /\ BlockHeight[Read(c, h)] = h
                 /\ h # 0 => PreHash[Read(c, h)] = Read(c, h - 1)
           /\ c # Base => Read(c, ForkHeight) = ForkBlock
<1> DEFINE T(d) == chains[d].tailHeight
           H(d) == chains[d].headHeight
<1>0. Nil \notin Block
  BY TreeAssumption
<1>1. /\ Top \in Int /\ 0 <= Top
      /\ DiskBlock(0) = Genesis /\ DiskBlock(Top) = diskChain.head
      /\ \A h \in 0..Top : /\ DiskBlock(h) \in Block
                           /\ BlockHeight[DiskBlock(h)] = h
                           /\ DiskBlock(h) \in diskChain.byHash
                           /\ h # 0 => PreHash[DiskBlock(h)] = DiskBlock(h - 1)
  <2>1. TypeOK /\ DiskShape
    BY DEF Ground, PoolShape
  <2> QED
    BY <2>1, DiskReads
<1>2. /\ Base \in chainIds /\ H(Base) \in Int /\ T(Base) \in Int /\ T(Base) <= H(Base)
      /\ T(Base) = (IF InHand THEN Top + 1 ELSE Top)
      /\ Foot(Base) = Seat
  <2>1. Base \in chainIds
    BY ChainFacts
  <2>2. /\ T(Base) = (IF InHand THEN Top + 1 ELSE Top)
        /\ T(Base) <= H(Base) /\ H(Base) \in Int
    <3>1. 0 \in Int
      OBVIOUS
    <3> QED
      BY <3>1, BaseReads
  <2> QED
    BY <1>1, <2>1, <2>2 DEF Foot
<1>3. /\ InHand => /\ fork.block \in Block /\ BlockHeight[fork.block] = Top + 1
                   /\ PreHash[fork.block] = diskChain.head /\ Seat = fork.block
      /\ ~InHand => Seat = diskChain.head
  BY HandFacts DEF Seat
<1>4. ASSUME NEW h \in 0..Top
      PROVE  Read(Base, h) = DiskBlock(h) /\ GetBlock(Base, h) = DiskBlock(h)
  <2>1. h \in Int /\ h >= 0 /\ h <= Top
    BY <1>1
  <2>2. GetBlock(Base, h) = DiskBlock(h)
    BY <2>1, BaseReads
  <2> QED
    BY <1>0, <1>1, <2>2, ReadHand
<1>5. Read(Base, T(Base)) = Seat
  <2>1. CASE InHand
    <3>1. Top + 1 \in Int /\ T(Base) = Top + 1
      BY <1>1, <1>2, <2>1
    <3>2. GetBlock(Base, T(Base)) = Nil
      BY <2>1, <3>1, BaseReads
    <3>3. fork.block # Nil /\ T(Base) = BlockHeight[fork.block]
      BY <1>0, <1>3, <2>1, <3>1
    <3> QED
      BY <1>3, <2>1, <3>2, <3>3, ReadHand
  <2>2. CASE ~InHand
    <3>1. Top \in 0..Top /\ T(Base) = Top
      BY <1>1, <1>2, <2>2
    <3> QED
      BY <1>1, <1>3, <1>4, <2>2, <3>1
  <2> QED
    BY <2>1, <2>2
<1>6. ASSUME NEW h \in T(Base) + 1 .. H(Base)
      PROVE  /\ Read(Base, h) = OwnBlock(Base, h)
             /\ OwnBlock(Base, h) \in Block /\ BlockHeight[OwnBlock(Base, h)] = h
  <2>1. h \in Int /\ h > T(Base) /\ h <= H(Base)
    BY <1>2
  <2>2. GetBlock(Base, h) = OwnBlock(Base, h)
    BY <2>1, BaseReads
  <2>3. OwnBlock(Base, h) \in Block /\ BlockHeight[OwnBlock(Base, h)] = h
    BY <1>2, <2>1, OwnReads
  <2> QED
    BY <1>0, <2>2, <2>3, ReadHand
<1>7. ASSUME NEW h \in 0 .. H(Base)
      PROVE  /\ Read(Base, h) \in Block
             /\ BlockHeight[Read(Base, h)] = h
             /\ h # 0 => PreHash[Read(Base, h)] = Read(Base, h - 1)
  <2>1. CASE h <= Top
    <3>1. h \in 0..Top /\ Read(Base, h) = DiskBlock(h)
      BY <1>1, <1>2, <1>4, <2>1
    <3>2. h # 0 => h - 1 \in 0..Top
      BY <1>1, <2>1
    <3>3. h # 0 => Read(Base, h - 1) = DiskBlock(h - 1)
      BY <1>4, <3>2
    <3> QED
      BY <1>1, <3>1, <3>3
  <2>2. CASE h > Top /\ h <= T(Base)
    <3>1. InHand /\ h = T(Base) /\ h = Top + 1 /\ h - 1 = Top /\ Top \in 0..Top
      BY <1>1, <1>2, <2>2
    <3>2. Read(Base, h) = fork.block
      BY <1>3, <1>5, <3>1
    <3>3. Read(Base, h - 1) = diskChain.head
      BY <1>1, <1>4, <3>1
    <3> QED
      BY <1>3, <3>1, <3>2, <3>3
  <2>3. CASE h > T(Base)
    <3>1. h \in T(Base) + 1 .. H(Base) /\ h \in Int
      BY <1>2, <2>3
    <3>2. /\ Read(Base, h) = OwnBlock(Base, h)
          /\ OwnBlock(Base, h) \in Block /\ BlockHeight[OwnBlock(Base, h)] = h
      BY <1>6, <3>1
    <3>3. CASE h = T(Base) + 1
      <4>1. h - 1 = T(Base)
        BY <1>2, <3>3
      <4>2. PreHash[OwnBlock(Base, h)] = Foot(Base)
        BY <1>2, <2>3, <3>1, <3>3, OwnReads
      <4> QED
        BY <1>2, <1>5, <3>2, <4>1, <4>2
    <3>4. CASE h # T(Base) + 1
      <4>1. h - 1 \in T(Base) + 1 .. H(Base)
        BY <1>2, <3>1, <3>4
      <4>2. Read(Base, h - 1) = OwnBlock(Base, h - 1)
        BY <1>6, <4>1
      <4>3. PreHash[OwnBlock(Base, h)] = OwnBlock(Base, h - 1)
        BY <1>2, <2>3, <3>1, <3>4, OwnReads
      <4> QED
        BY <3>2, <4>2, <4>3
    <3> QED
      BY <3>3, <3>4
  <2> QED
    BY <1>1, <1>2, <2>1, <2>2, <2>3
<1>8. ForkHeight \in Int /\ 0 <= ForkHeight /\ ForkBlock \in Block
  BY ForkBlockFacts
<1>9. ASSUME c # Base, NEW h \in 0 .. H(c)
      PROVE  /\ Read(c, h) \in Block
             /\ BlockHeight[Read(c, h)] = h
             /\ h # 0 => PreHash[Read(c, h)] = Read(c, h - 1)
             /\ Read(c, ForkHeight) = ForkBlock
  <2>1. T(c) = ForkHeight /\ H(c) > ForkHeight /\ H(Base) > ForkHeight /\ H(c) \in Int
    BY <1>9, SideReads, OwnReads
  <2>2. Read(c, ForkHeight) = ForkBlock
    <3>1. ForkHeight \in 0..H(Base) /\ Read(c, ForkHeight) = Read(Base, ForkHeight)
      BY <1>2, <1>8, <1>9, <2>1, SideReads
    <3>2. Read(Base, ForkHeight) \in Block /\ BlockHeight[Read(Base, ForkHeight)] = ForkHeight
      BY <1>7, <3>1
    <3>3. BlockHeight[ForkBlock] = ForkHeight
      BY DEF ForkHeight
    <3> QED
      BY <1>8, <3>1, <3>2, <3>3, OneBelow
  <2>3. CASE h <= ForkHeight
    <3>1. h \in 0..H(Base) /\ Read(c, h) = Read(Base, h)
      BY <1>2, <1>8, <1>9, <2>1, <2>3, SideReads
    <3>2. h # 0 => Read(c, h - 1) = Read(Base, h - 1)
      BY <1>8, <1>9, <2>3, SideReads
    <3> QED
      BY <1>7, <2>2, <3>1, <3>2
  <2>4. CASE h > ForkHeight
    <3>1. h \in Int /\ h > T(c) /\ h <= H(c)
      BY <2>1, <2>4
    <3>2. /\ GetBlock(c, h) = OwnBlock(c, h)
          /\ OwnBlock(c, h) \in Block /\ BlockHeight[OwnBlock(c, h)] = h
      BY <1>9, <2>4, <3>1, SideReads, OwnReads
    <3>3. Read(c, h) = OwnBlock(c, h)
      BY <1>0, <3>2, ReadHand
    <3>4. CASE h = ForkHeight + 1
      <4>1. PreHash[OwnBlock(c, h)] = Foot(c)
        BY <2>1, <3>1, <3>4, OwnReads
      <4>2. h - 1 = ForkHeight
        BY <1>8, <3>4
      <4> QED
        BY <1>9, <2>2, <3>2, <3>3, <4>1, <4>2 DEF Foot
    <3>5. CASE h # ForkHeight + 1
      <4>1. h - 1 \in Int /\ h - 1 > ForkHeight /\ h - 1 <= H(c)
        BY <1>8, <2>1, <2>4, <3>1, <3>5
      <4>2. GetBlock(c, h - 1) = OwnBlock(c, h - 1) /\ OwnBlock(c, h - 1) \in Block
        BY <1>9, <2>1, <4>1, SideReads, OwnReads
      <4>3. Read(c, h - 1) = OwnBlock(c, h - 1)
        BY <1>0, <4>2, ReadHand
      <4>4. PreHash[OwnBlock(c, h)] = OwnBlock(c, h - 1)
        BY <2>1, <3>1, <3>5, OwnReads
      <4> QED
        BY <2>2, <3>2, <3>3, <4>3, <4>4
    <3> QED
      BY <3>4, <3>5
  <2> QED
    BY <1>8, <2>1, <2>3, <2>4
<1>10. GetBlock(c, 0) = Genesis
  <2>1. Read(Base, 0) = Genesis /\ GetBlock(Base, 0) = Genesis
    BY <1>1, <1>4
  <2>2. Read(c, 0) = Genesis
    BY <1>8, <2>1, LowReads
  <2>3. fork.block # Nil => BlockHeight[fork.block] = Top + 1
    BY HandFacts
  <2>4. fork.block # Nil => 0 # BlockHeight[fork.block]
    BY <1>1, <2>3
  <2> QED
    BY <2>2, <2>4, ReadHand
<1>11. c # Base => H(c) > ForkHeight /\ H(c) \in Int
  BY <1>8, SideReads, OwnReads
<1>12. Read(c, H(c)) = chains[c].headHash
  <2>1. /\ chains[c] \in ForkedChain /\ ChainShape(chains[c], Foot(c))
        /\ H(c) \in Int /\ T(c) <= H(c) /\ T(c) \in Int
    BY ChainFacts, OwnReads
  <2>2. /\ T(c) = H(c) => chains[c].headHash = Foot(c)
        /\ T(c) # H(c) => chains[c].heightBlocks[H(c)] = chains[c].headHash
    BY <2>1 DEF ChainShape
  <2>3. CASE T(c) = H(c)
    <3>1. c = Base
      BY <1>8, <1>11, <2>3, SideReads
    <3> QED
      BY <1>2, <1>5, <2>2, <2>3, <3>1
  <2>4. CASE T(c) # H(c)
    <3>1. /\ H(c) > T(c) /\ OwnBlock(c, H(c)) = chains[c].heightBlocks[H(c)]
          /\ OwnBlock(c, H(c)) \in Block
      BY <2>1, <2>4, OwnReads
    <3>2. GetBlock(c, H(c)) = OwnBlock(c, H(c))
      BY <1>11, <2>1, <3>1, BaseReads, SideReads
    <3> QED
      BY <1>0, <2>2, <2>4, <3>1, <3>2, ReadHand
  <2> QED
    BY <2>3, <2>4
<1>13. c # Base => Read(c, ForkHeight) = ForkBlock
  <2>1. c # Base => 0 \in 0..H(c)
    BY <1>8, <1>11
  <2> QED
    BY <1>9, <2>1
<1> QED
  BY <1>7, <1>9, <1>10, <1>12, <1>13

\* Only the chain that loses its block, the current one, is without it, and
\* only while rollback has it in hand.
LEMMA OthersRead ==
    ASSUME Ground, OneForkPoint, PoolShape, fork.pc = "removed",
           NEW c \in chainIds, c # current, NEW h \in 0 .. chains[c].headHeight
    PROVE  GetBlock(c, h) # Nil
<1>1. InHand /\ current = Base /\ Base \in chainIds
  BY HandFacts, ChainFacts DEF InHand
<1>2. /\ BlockHeight[fork.block] = Top + 1 /\ Top + 1 > ForkHeight
      /\ Top \in Int /\ ForkHeight \in Int
  BY <1>1, HandFacts, ForkBlockFacts DEF PoolShape, HandShape
<1>3. chains[c].headHeight \in Int /\ h \in Int /\ c # Base
  BY <1>1, OwnReads
<1>4. CASE h > ForkHeight
  <2>1. chains[c].tailHeight = ForkHeight /\ GetBlock(c, h) = OwnBlock(c, h)
    BY <1>3, <1>4, SideReads
  <2>2. OwnBlock(c, h) \in Block
    BY <1>3, <1>4, <2>1, OwnReads
  <2> QED
    BY <2>1, <2>2, TreeAssumption
<1>5. CASE h <= ForkHeight
  <2>1. h # BlockHeight[fork.block]
    BY <1>2, <1>3, <1>5
  <2>2. Read(c, h) = GetBlock(c, h)
    BY <2>1, ReadHand
  <2>3. Read(c, h) \in Block
    BY Complete
  <2> QED
    BY <2>2, <2>3, TreeAssumption
<1> QED
  BY <1>2, <1>3, <1>4, <1>5

\* Even above its head, what a chain reads is linked, but at the head of some
\* chain on the way.
LEMMA LinkedOrHead ==
    ASSUME Ground, OneForkPoint, PoolShape, NEW n \in Nat
    PROVE  \A c \in chainIds :
              GetBlock(c, n) # Nil /\ GetBlock(c, n + 1) # Nil =>
                 \/ /\ GetBlock(c, n) \in Block /\ GetBlock(c, n + 1) \in Block
                    /\ BlockHeight[GetBlock(c, n)] = n
                    /\ PreHash[GetBlock(c, n + 1)] = GetBlock(c, n)
                 \/ \E d \in chainIds : /\ chains[d].headHeight = n
                                        /\ chains[d].headHash = GetBlock(c, n)
<1> DEFINE H(c) == chains[c].headHeight
           Q(c) == GetBlock(c, n) # Nil /\ GetBlock(c, n + 1) # Nil =>
                 \/ /\ GetBlock(c, n) \in Block /\ GetBlock(c, n + 1) \in Block
                    /\ BlockHeight[GetBlock(c, n)] = n
                    /\ PreHash[GetBlock(c, n + 1)] = GetBlock(c, n)
                 \/ \E d \in chainIds : /\ chains[d].headHeight = n
                                        /\ chains[d].headHash = GetBlock(c, n)
           S == {c \in chainIds : ~Q(c)}
<1>0. n \in Int /\ n + 1 \in Int
  OBVIOUS
<1>1. ASSUME NEW c \in chainIds, n + 1 <= H(c) PROVE Q(c)
  <2>1. H(c) \in Int /\ n \in 0..H(c) /\ n + 1 \in 0..H(c) /\ n + 1 # 0 /\ n + 1 - 1 = n
    BY <1>1, OwnReads
  <2>2. /\ Read(c, n) \in Block /\ Read(c, n + 1) \in Block
        /\ BlockHeight[Read(c, n)] = n
        /\ PreHash[Read(c, n + 1)] = Read(c, n)
    BY <2>1, Complete
  <2>3. GetBlock(c, n) # Nil /\ GetBlock(c, n + 1) # Nil =>
           Read(c, n) = GetBlock(c, n) /\ Read(c, n + 1) = GetBlock(c, n + 1)
    BY ReadHand
  <2> QED
    BY <2>2, <2>3
<1>2. ASSUME NEW c \in chainIds, n + 1 > H(c), chains[c].referChain = Disk PROVE Q(c)
  <2>1. GetBlock(c, n + 1) = Nil
    BY <1>0, <1>2, AboveHead
  <2> QED
    BY <2>1
<1>3. ASSUME NEW c \in chainIds, n + 1 > H(c), chains[c].referChain # Disk,
             Q(chains[c].referChain)
      PROVE  Q(c)
  <2>1. H(c) \in Int
    BY <1>0, OwnReads
  <2>2. CASE n = H(c)
    <3>1. GetBlock(c, n) # Nil => GetBlock(c, n) = chains[c].headHash
      BY <2>2, Complete, ReadHand
    <3> QED
      BY <2>2, <3>1
  <2>3. CASE n > H(c)
    <3>1. GetBlock(c, n) = GetBlock(chains[c].referChain, n)
      BY <1>0, <1>3, <2>3, AboveHead
    <3>2. GetBlock(c, n + 1) = GetBlock(chains[c].referChain, n + 1)
      BY <1>0, <1>3, AboveHead
    <3> QED
      BY <1>3, <3>1, <3>2
  <2> QED
    BY <1>3, <2>1, <2>2, <2>3
<1> HIDE DEF Q
<1>4. S = {}
  <2> SUFFICES ASSUME S # {} PROVE FALSE
    OBVIOUS
  <2>1. PICK c \in S : chains[c].referChain \notin S
    BY DEF Ground, RefersReachDisk
  <2>2. H(c) \in Int
    BY <1>0, <2>1, OwnReads
  <2>3. n + 1 > H(c)
    BY <1>1, <2>1, <2>2
  <2>4. chains[c].referChain # Disk
    BY <1>2, <2>1, <2>3
  <2>5. chains[c].referChain \in chainIds
    BY <2>1, <2>4, ChainFacts
  <2> QED
    BY <1>3, <2>1, <2>3, <2>4, <2>5
<1> QED
  BY <1>4 DEF Q

\* The head of a chain is in its memory, on disk or in hand.
LEMMA HeadPlace ==
    ASSUME Ground, OneForkPoint, PoolShape, NEW c \in chainIds
    PROVE  /\ chains[c].headHash \in Block
           /\ BlockHeight[chains[c].headHash] = chains[c].headHeight
           /\ \/ ChainHolds(c, chains[c].headHash)
              \/ chains[c].headHash \in diskChain.byHash
              \/ InHand /\ chains[c].headHash = fork.block /\ c = current
<1> DEFINE ch == chains[c]
<1>1. /\ ch \in ForkedChain /\ ChainShape(ch, Foot(c)) /\ Base \in chainIds
      /\ ch.tailHeight \in Int /\ ch.headHeight \in Int /\ ch.tailHeight <= ch.headHeight
  <2>1. ch \in ForkedChain /\ ChainShape(ch, Foot(c)) /\ Base \in chainIds
    BY ChainFacts
  <2>2. ch.tailHeight \in Int /\ ch.headHeight \in Int /\ ch.tailHeight <= ch.headHeight
    <3>1. 0 \in Int
      OBVIOUS
    <3> QED
      BY <3>1, OwnReads
  <2> QED
    BY <2>1, <2>2
<1>2. ch.headHash \in Block /\ BlockHeight[ch.headHash] = ch.headHeight
  <2> HIDE DEF ch
  <2> QED
    BY <1>1 DEF ForkedChain, ChainShape
<1>3. CASE ch.tailHeight = ch.headHeight
  <2>1. c = Base
    BY <1>1, <1>3, SideReads
  <2>2. ch.headHash = Seat
    BY <1>1, <1>3, <2>1 DEF ChainShape, Foot
  <2>3. Top \in 0..Top /\ DiskBlock(Top) = diskChain.head /\ TypeOK /\ DiskShape
    BY DiskReads DEF Ground, PoolShape
  <2>4. DiskBlock(Top) \in diskChain.byHash
    BY <2>3, DiskReads
  <2>5. InHand => c = current
    BY <2>1, HandFacts
  <2> QED
    BY <1>2, <2>2, <2>3, <2>4, <2>5 DEF Seat
<1>4. CASE ch.tailHeight # ch.headHeight
  <2>1. ch.heightBlocks[ch.headHeight] = ch.headHash
    BY <1>1, <1>4 DEF ChainShape
  <2> QED
    BY <1>2, <2>1 DEF ChainHolds, Holds
<1> QED
  BY <1>3, <1>4


-----------------------------------------------------------------------------
(***************************************************************************)
(* What the invariant says of the properties that runs check.              *)
(***************************************************************************)
\* The shape of the pool is all that the properties of the scope ask for.
LEMMA ShapeSuffices ==
    ASSUME Ground, OneForkPoint => PoolShape
    PROVE  ChainsLinked /\ CurrentOnDisk /\ DiskLinked /\ ChainsComplete
           /\ PanicsOnlyInRaces
<1>1. ASSUME OneForkPoint PROVE PoolShape /\ TypeOK /\ DiskShape
  BY <1>1 DEF PoolShape, Ground
<1>2. ChainsLinked
  <2> SUFFICES ASSUME OneForkPoint, NEW c \in chainIds
               PROVE  LET ch == chains[c]
                          m == ch.heightBlocks
                      IN  /\ ch.tailHeight <= ch.headHeight
                          /\ ch.tailHeight < ch.headHeight => m[ch.headHeight] = ch.headHash
                          /\ \A h \in ch.tailHeight + 1 .. ch.headHeight :
                                /\ m[h] \in Block /\ BlockHeight[m[h]] = h
                                /\ h > ch.tailHeight + 1 => PreHash[m[h]] = m[h - 1]
    BY DEF ChainsLinked
  <2>1. /\ chains[c] \in ForkedChain /\ Foot(c) \in Block
        /\ ChainShape(chains[c], Foot(c))
    BY <1>1, ChainFacts
  <2> DEFINE ch == chains[c]
  <2>2. /\ ch.tailHeight \in Int /\ ch.headHeight \in Int
        /\ ch.tailHeight <= ch.headHeight
        /\ \A h \in ch.tailHeight + 1 .. ch.headHeight :
                 /\ h \in Height
                 /\ ch.heightBlocks[h] \in Block
                 /\ BlockHeight[ch.heightBlocks[h]] = h
                 /\ h # ch.tailHeight + 1 =>
                        PreHash[ch.heightBlocks[h]] = ch.heightBlocks[h - 1]
                 /\ h = ch.tailHeight + 1 => PreHash[ch.heightBlocks[h]] = Foot(c)
    BY <2>1, ShapeReads
  <2>3. ch.tailHeight < ch.headHeight => ch.heightBlocks[ch.headHeight] = ch.headHash
    BY <2>1, <2>2 DEF ChainShape
  <2> QED
    BY <2>2, <2>3
<1>3. CurrentOnDisk
  <2> SUFFICES ASSUME OneForkPoint, ~crashed, ~WriteLocked
               PROVE  LET c == chains[current]
                      IN  /\ c.referChain = Disk
                          /\ c.tailHeight = BlockHeight[diskChain.head]
                          /\ c.tailHeight < c.headHeight =>
                                PreHash[c.heightBlocks[c.tailHeight + 1]] = diskChain.head
    BY DEF CurrentOnDisk
  <2>1. Base = current
    BY <1>1 DEF PoolShape, ForkShape, WriteLocked
  <2>2. ~InHand /\ ~LastTurn
    BY DEF InHand, LastTurn, WriteLocked
  <2>3. /\ Base \in chainIds /\ chains[Base].referChain = Disk
        /\ chains[Base].tailHeight = Top /\ Foot(Base) = diskChain.head
        /\ Top \in Int /\ chains[Base].headHeight \in Int
    BY <1>1, <2>2, ChainFacts, BaseReads, OwnReads, DiskReads DEF Foot, Seat
  <2>4. ASSUME Top < chains[Base].headHeight
        PROVE  PreHash[chains[Base].heightBlocks[Top + 1]] = diskChain.head
    <3>1. Top + 1 \in Int /\ Top + 1 > Top /\ Top + 1 <= chains[Base].headHeight
      BY <2>3, <2>4
    <3> QED
      BY <1>1, <2>3, <3>1, OwnReads
  <2> QED
    BY <2>1, <2>3, <2>4 DEF Top
<1>4. DiskLinked
  <2> SUFFICES ASSUME OneForkPoint
               PROVE  /\ diskChain.head # Nil
                      /\ diskChain.byHeight[Top] = diskChain.head
                      /\ diskChain.byHeight[0] = Genesis
                      /\ \A h \in 1..Top :
                            Run(diskChain.byHeight, h, h, diskChain.byHeight[h - 1])
                      /\ diskChain.byHash = {diskChain.byHeight[h] : h \in 0..Top}
    BY DEF DiskLinked, Top
  <2>1. /\ diskChain.head \in Block /\ diskChain.byHeight[Top] = diskChain.head
        /\ diskChain.byHeight[0] = Genesis
        /\ diskChain.byHash = {diskChain.byHeight[h] : h \in 0..Top}
    BY <1>1 DEF DiskShape
  <2>2. ASSUME NEW h \in 1..Top
        PROVE  Run(diskChain.byHeight, h, h, diskChain.byHeight[h - 1])
    <3>1. /\ h \in 0..Top /\ h - 1 \in 0..Top /\ h # 0 /\ h \in Height /\ h - 1 \in Height
      <4>1. Top \in Int /\ Top <= MaxHeight
        BY <1>1, DiskReads
      <4> QED
        BY <4>1, TreeAssumption DEF Height
    <3>2. DiskBlock(h) = diskChain.byHeight[h] /\ DiskBlock(h - 1) = diskChain.byHeight[h - 1]
      BY <3>1 DEF DiskBlock
    <3>3. /\ DiskBlock(h) \in Block /\ BlockHeight[DiskBlock(h)] = h
          /\ PreHash[DiskBlock(h)] = DiskBlock(h - 1)
      BY <1>1, <3>1, DiskReads
    <3>4. \A k \in h..h : k = h
      BY <3>1
    <3> QED
      BY <3>2, <3>3, <3>4 DEF Run
  <2> QED
    BY <2>1, <2>2, TreeAssumption
<1>5. ChainsComplete
  <2> SUFFICES ASSUME OneForkPoint, NEW c \in chainIds
               PROVE  /\ GetBlock(c, 0) = Genesis
                      /\ Read(c, chains[c].headHeight) = chains[c].headHash
                      /\ \A h \in 1 .. chains[c].headHeight :
                            /\ Read(c, h) # Nil
                            /\ PreHash[Read(c, h)] = Read(c, h - 1)
                            /\ fork.pc = "removed" /\ c # current => GetBlock(c, h) # Nil
    BY DEF ChainsComplete
  <2>1. chains[c].headHeight \in Int
    BY <1>1, OwnReads
  <2>2. ASSUME NEW h \in 1 .. chains[c].headHeight
        PROVE  /\ Read(c, h) # Nil
               /\ PreHash[Read(c, h)] = Read(c, h - 1)
               /\ fork.pc = "removed" /\ c # current => GetBlock(c, h) # Nil
    <3>1. h \in 0 .. chains[c].headHeight /\ h # 0
      BY <2>1
    <3>2. Read(c, h) # Nil /\ PreHash[Read(c, h)] = Read(c, h - 1)
      BY <1>1, <3>1, Complete, TreeAssumption
    <3>3. fork.pc = "removed" /\ c # current => GetBlock(c, h) # Nil
      BY <1>1, <3>1, OthersRead
    <3> QED
      BY <3>2, <3>3
  <2> QED
    BY <1>1, <2>2, Complete
<1>6. PanicsOnlyInRaces
  BY <1>1 DEF PanicsOnlyInRaces, PoolShape, ForkShape
<1> QED
  BY <1>2, <1>3, <1>4, <1>5, <1>6

-----------------------------------------------------------------------------
(***************************************************************************)
(* Steps that move blocks from one place to another.                       *)
(***************************************************************************)
\* Snippets lose blocks; what chain d or the disk gains is nowhere else.
LEMMA PlacesMoved ==
    ASSUME OnePlace, NEW d,
           compoundBlocks \subseteq compoundBlocks',
           Snippets' \subseteq Snippets, Live' \subseteq Live,
           \A s \in Snippets' \cup Live', b \in Block :
              SnippetHolds(s, b)' => SnippetHolds(s, b),
           \A b \in Block \ {Genesis} :
              /\ \A c \in chainIds' : ChainHolds(c, b)' =>
                    \/ c \in chainIds /\ ChainHolds(c, b)
                    \/ /\ c = d /\ b \in compoundBlocks /\ b \notin diskChain'.byHash
                       /\ \A s \in Snippets' : ~SnippetHolds(s, b)'
                       /\ \A e \in chainIds' \ {d} : ~ChainHolds(e, b)'
              /\ b \in diskChain'.byHash =>
                    \/ b \in diskChain.byHash
                    \/ /\ b \in compoundBlocks
                       /\ \A s \in Snippets' : ~SnippetHolds(s, b)'
                       /\ \A c \in chainIds' : ~ChainHolds(c, b)'
    PROVE  OnePlace'
<1> USE DEF OnePlace
<1>1. \A b \in Block, s \in Snippets' : SnippetHolds(s, b)' => b \in compoundBlocks'
  OBVIOUS
<1>2. ASSUME NEW b \in Block \ {Genesis}
      PROVE  /\ \A s \in Snippets' : SnippetHolds(s, b)' =>
                    /\ b \notin diskChain'.byHash
                    /\ \A c \in chainIds' : ~ChainHolds(c, b)'
             /\ \A s, t \in Live' : SnippetHolds(s, b)' /\ SnippetHolds(t, b)' => s = t
             /\ \A c \in chainIds' : ChainHolds(c, b)' =>
                    /\ b \in compoundBlocks' /\ b \notin diskChain'.byHash
                    /\ \A e \in chainIds' : ChainHolds(e, b)' => c = e
             /\ b \in diskChain'.byHash => b \in compoundBlocks'
  <2>1. \A s \in Snippets' : SnippetHolds(s, b)' =>
                    /\ b \notin diskChain'.byHash
                    /\ \A c \in chainIds' : ~ChainHolds(c, b)'
    OBVIOUS
  <2>2. \A s, t \in Live' : SnippetHolds(s, b)' /\ SnippetHolds(t, b)' => s = t
    OBVIOUS
  <2>3. \A c \in chainIds' : ChainHolds(c, b)' =>
                    /\ b \in compoundBlocks' /\ b \notin diskChain'.byHash
                    /\ \A e \in chainIds' : ChainHolds(e, b)' => c = e
    OBVIOUS
  <2> QED
    BY <2>1, <2>2, <2>3
<1> QED
  BY <1>1, <1>2

\* Nothing moves.
LEMMA PlacesStay ==
    ASSUME OnePlace, Snippets' \subseteq Snippets, Live' \subseteq Live,
           UNCHANGED <<compoundBlocks, snippetChains, chainIds, chains, diskChain>>
    PROVE  OnePlace'
  BY DEF OnePlace, SnippetHolds, ChainHolds

\* The steps of loop() that touch neither the chains nor the disk.
LEMMA ChainsStay ==
    ASSUME DiskShape, ChainsShape, HandShape, ForkShape,
           crashed' => Overtaken' \/ HeadInHand',
           UNCHANGED <<chainIds, chains, current, diskChain, fork>>
    PROVE  DiskShape' /\ ChainsShape' /\ HandShape' /\ ForkShape'
<1>1. /\ Top' = Top /\ Base' = Base /\ WriteLocked' = WriteLocked
      /\ Seat' = Seat /\ LastTurn' = LastTurn
  BY DEF Top, Base, WriteLocked, Seat, InHand, LastTurn
<1>2. DiskShape'
  BY <1>1 DEF DiskShape
<1>3. ChainsShape'
  BY <1>1 DEF ChainsShape
<1>4. ForkShape'
  BY <1>1 DEF ForkShape
<1>5. HandShape'
  BY <1>1 DEF HandShape
<1> QED
  BY <1>2, <1>3, <1>4, <1>5

\* A slice copied from a map holds all its keys.
LEMMA OrdersAll ==
    ASSUME NEW S \in SUBSET Block, NEW o \in Orders(S)
    PROVE  S \subseteq Range(o)
<1> DEFINE D == 1..Cardinality(S)
<1>1. IsFiniteSet(S) /\ Cardinality(S) \in Nat
  BY TreeAssumption, FS_Subset, FS_CardinalityType
<1>2. o \in [D -> S] /\ \A i, j \in D : i # j => o[i] # o[j]
  BY DEF Orders, SetToSeqs
<1>3. o \in Injection(D, S)
  BY <1>2 DEF Injection, IsInjective
<1>4. Cardinality(D) = Cardinality(S)
  BY <1>1, FS_Interval
<1>5. o \in Surjection(D, S)
  BY <1>1, <1>3, <1>4, FS_Injection
<1> QED
  BY <1>2, <1>5 DEF Surjection, Range

\* The network and the steps of loop() that only move on.
LEMMA ShapeNetwork ==
    ASSUME Ground, PoolShape, Network, HandFree'
    PROVE  PoolShape'
<1>1. PICK b \in Block : AddBlock(b)
  BY DEF Network
<1>2. /\ UNCHANGED <<compoundBlocks, snippetIds, snippetChains, chainIds, chains,
                   current, diskChain, crashed, pc, headMap, list, w, tmpChains, visit, fork>>
      /\ ~crashed
  BY <1>1 DEF AddBlock, genVars, appendVars
<1>3. Snippets' = Snippets /\ Live' = Live
  BY <1>2 DEF Snippets, Live
<1>4. OnePlace'
  BY <1>2, <1>3, PlacesStay DEF PoolShape
<1>5. DiskShape' /\ ChainsShape' /\ HandShape' /\ ForkShape'
  BY <1>2, ChainsStay DEF PoolShape
<1>6. VisitShape'
  BY <1>2 DEF PoolShape, VisitShape, Continues
<1> QED
  BY <1>4, <1>5, <1>6 DEF PoolShape

\* A block comes out of the free blocks and into at most one snippet.
LEMMA PlacesCompound ==
    ASSUME Ground, PoolShape, NEW b \in Block, NEW x \in Block,
           b \in pending, pc = "compound", pc' = pc,
           compoundBlocks' = compoundBlocks \cup {b},
           Snippets' \subseteq Snippets \cup {x},
           \A s \in Snippets' \ {x} : snippetChains'[s] = snippetChains[s],
           \A a \in Block \ {b} : SnippetHolds(x, a)' => x \in Snippets /\ SnippetHolds(x, a),
           UNCHANGED <<chainIds, chains, diskChain>>
    PROVE  OnePlace'
<1>1. b \notin compoundBlocks
  BY DEF Ground, Bookkeeping
<1>2. Live = Snippets /\ Live' = Snippets'
  BY DEF Live
<1>3. OnePlace
  BY DEF PoolShape
<1>4. \A s \in Snippets' \ {x}, a \in Block : SnippetHolds(s, a)' <=> SnippetHolds(s, a)
  BY DEF SnippetHolds
<1>5. \A c \in chainIds', a \in Block : ChainHolds(c, a)' <=> ChainHolds(c, a)
  BY DEF ChainHolds
<1>6. \A s \in Snippets' : s # x => s \in Snippets
  OBVIOUS
<1>7. \A a \in Block, s \in Snippets' : SnippetHolds(s, a)' => a \in compoundBlocks'
  BY <1>3, <1>4, <1>6 DEF OnePlace
<1>8. ASSUME NEW a \in Block \ {Genesis}
      PROVE  /\ \A s \in Snippets' : SnippetHolds(s, a)' =>
                    /\ a \notin diskChain'.byHash
                    /\ \A c \in chainIds' : ~ChainHolds(c, a)'
             /\ \A s, t \in Live' : SnippetHolds(s, a)' /\ SnippetHolds(t, a)' => s = t
             /\ \A c \in chainIds' : ChainHolds(c, a)' =>
                    /\ a \in compoundBlocks' /\ a \notin diskChain'.byHash
                    /\ \A e \in chainIds' : ChainHolds(e, a)' => c = e
             /\ a \in diskChain'.byHash => a \in compoundBlocks'
  <2>1. CASE a = b
    <3>1. \A s \in Snippets' : SnippetHolds(s, a)' => s = x
      BY <1>1, <1>3, <1>4, <1>6, <2>1 DEF OnePlace
    <3>2. a \notin diskChain'.byHash /\ \A c \in chainIds' : ~ChainHolds(c, a)'
      BY <1>1, <1>3, <1>5, <2>1 DEF OnePlace
    <3> QED
      BY <1>2, <3>1, <3>2
  <2>2. CASE a # b
    <3>1. \A s \in Snippets' : SnippetHolds(s, a)' => s \in Snippets /\ SnippetHolds(s, a)
      BY <1>4, <1>6, <2>2
    <3> QED
      BY <1>2, <1>3, <1>5, <3>1 DEF OnePlace
  <2> QED
    BY <2>1, <2>2
<1> QED
  BY <1>7, <1>8 DEF OnePlace

\* loopGenSnippetChains.
LEMMA ShapeGen ==
    ASSUME Ground, PoolShape, Gen, HandFree'
    PROVE  PoolShape'
<1>0. ~crashed
  BY DEF Gen, GenStart, GenAddTail, GenDrop, GenNewSnippet, Compound, GenSplit,
         GenMerge, GenMerged, GenDone
<1> SUFFICES OnePlace' /\ pc' # "forky" /\
             UNCHANGED <<chainIds, chains, current, diskChain, fork, crashed>>
  BY <1>0, ChainsStay DEF PoolShape, VisitShape
<1>1. OnePlace /\ TypeOK /\ Bookkeeping /\ SnippetsLinked
  BY DEF PoolShape, Ground
<1>2. CASE GenStart
  <2>1. /\ pc = "gen" /\ pc' = "compound" /\ list' \in Orders(snippetIds)
        /\ UNCHANGED <<compoundBlocks, snippetIds, snippetChains, chainIds, chains, current,
                       diskChain, fork, crashed>>
    BY <1>2 DEF GenStart, poolVars
  <2>2. Snippets = snippetIds /\ Snippets' = Range(list') /\ Live = Snippets /\ Live' = Snippets'
    BY <2>1 DEF Snippets, Live
  <2>3. Range(list') \subseteq snippetIds
    BY <1>1, <2>1, OrdersType DEF TypeOK
  <2> QED
    BY <1>1, <2>1, <2>2, <2>3, PlacesStay
<1>3. ASSUME NEW b \in Block, GenAddTail(b) \/ GenDrop(b) \/ GenNewSnippet(b)
      PROVE  OnePlace' /\ pc' # "forky" /\
             UNCHANGED <<chainIds, chains, current, diskChain, fork, crashed>>
  <2>1. /\ pc = "compound" /\ pc' = pc /\ b \in pending
        /\ compoundBlocks' = compoundBlocks \cup {b}
        /\ UNCHANGED <<chainIds, chains, current, diskChain, fork, crashed>>
    BY <1>3 DEF GenAddTail, GenDrop, GenNewSnippet, Compound
  <2>2. Snippets = Range(list) /\ Snippets' = Range(list')
    BY <2>1 DEF Snippets
  <2>3. snippetChains \in [Block -> Snippet] /\ list \in Seq(Block) /\ Range(list) \subseteq Block
    BY <1>1 DEF TypeOK, Range
  <2>4. CASE GenAddTail(b)
    <3>0. PICK x : x = FirstHit(b)
      OBVIOUS
    <3>1. Hits(b) # {} /\ snippetChains' = [snippetChains EXCEPT ![x] = AddTail(@, b)] /\ list' = list
      BY <2>4, <3>0 DEF GenAddTail
    <3>2. x \in Range(list) /\ x \in Block
      BY <1>1, <2>3, <3>0, <3>1, FirstHitInList
    <3>3. snippetChains'[x] = AddTail(snippetChains[x], b)
      BY <2>3, <3>1, <3>2
    <3>4. snippetChains'[x].heightBlocks = [snippetChains[x].heightBlocks EXCEPT ![BlockHeight[b]] = b]
      BY <2>3, <3>2, <3>3 DEF AddTail, Snippet
    <3>5. \A a \in Block : BlockHeight[a] \in Height
      BY TreeAssumption
    <3>6. snippetChains[x].heightBlocks \in [Height -> HashOrNil]
      BY <2>3, <3>2 DEF Snippet
    <3>7. ASSUME NEW a \in Block \ {b}, SnippetHolds(x, a)' PROVE SnippetHolds(x, a)
      <4>1. snippetChains'[x].heightBlocks[BlockHeight[a]] = a
        BY <3>7 DEF SnippetHolds, Holds
      <4> QED
        BY <3>4, <3>5, <3>6, <4>1 DEF SnippetHolds, Holds
    <3>8. \A s \in Snippets' \ {x} : snippetChains'[s] = snippetChains[s]
      BY <2>2, <2>3, <3>1
    <3> QED
      BY <2>1, <2>2, <3>1, <3>2, <3>7, <3>8, PlacesCompound
  <2>5. CASE GenDrop(b)
    <3>1. Hits(b) # {} /\ snippetChains' = snippetChains /\ list' = list
      BY <2>5 DEF GenDrop
    <3>2. FirstHit(b) \in Range(list) /\ FirstHit(b) \in Block
      BY <1>1, <2>3, <3>1, FirstHitInList
    <3>4. PICK y \in Block : y \in Range(list)
      BY <3>2
    <3>5. \A a \in Block \ {b} : SnippetHolds(y, a)' => y \in Snippets /\ SnippetHolds(y, a)
      BY <2>2, <3>1, <3>4 DEF SnippetHolds, Holds
    <3>6. Snippets' \subseteq Snippets \cup {y} /\ \A s \in Snippets' \ {y} : snippetChains'[s] = snippetChains[s]
      BY <2>2, <3>1
    <3> QED
      BY <2>1, <3>5, <3>6, PlacesCompound
  <2>6. CASE GenNewSnippet(b)
    <3>1. snippetChains' = [snippetChains EXCEPT ![b] = NewSnippet(b)] /\ list' = Append(list, b)
      BY <2>6 DEF GenNewSnippet
    <3>2. Snippets' \subseteq Snippets \cup {b}
      BY <2>2, <2>3, <3>1, RangeAppend
    <3>3. snippetChains'[b].heightBlocks = [NoBlocks EXCEPT ![BlockHeight[b]] = b]
      BY <2>3, <3>1 DEF NewSnippet
    <3>4. \A a \in Block : BlockHeight[a] \in Height /\ a # Nil
      BY TreeAssumption
    <3>5. ASSUME NEW a \in Block \ {b}, SnippetHolds(b, a)' PROVE FALSE
      <4>1. snippetChains'[b].heightBlocks[BlockHeight[a]] = a
        BY <3>5 DEF SnippetHolds, Holds
      <4> QED
        BY <3>3, <3>4, <4>1 DEF NoBlocks
    <3>6. \A s \in Snippets' \ {b} : snippetChains'[s] = snippetChains[s]
      BY <2>2, <2>3, <3>1, <3>2
    <3> QED
      BY <2>1, <3>2, <3>5, <3>6, PlacesCompound
  <2> QED
    BY <1>3, <2>4, <2>5, <2>6
<1>4. CASE GenSplit
  <2>1. /\ pc = "compound" /\ pc' = "merge" /\ headMap' = Range(list) /\ list' = list
        /\ UNCHANGED <<compoundBlocks, snippetIds, snippetChains, chainIds, chains, current,
                       diskChain, fork, crashed>>
    BY <1>4 DEF GenSplit, poolVars
  <2>2. Snippets = Range(list) /\ Snippets' = Range(list) /\ Live = Snippets /\ Live' = Range(list)
    BY <2>1 DEF Snippets, Live
  <2> QED
    BY <1>1, <2>1, <2>2, PlacesStay
<1>5. CASE GenMerge
  <2>1. PICK s, oc : s = list[next] /\ oc = snippetChains[s].tailHash
    OBVIOUS
  <2>2. /\ pc = "merge" /\ pc' = pc /\ next <= Len(list) /\ oc \in headMap
        /\ headMap' = headMap \ {oc} /\ list' = list
        /\ snippetChains' = [snippetChains EXCEPT ![s] = Merge(@, snippetChains[oc])]
        /\ UNCHANGED <<compoundBlocks, chainIds, chains, current, diskChain, fork, crashed>>
    BY <1>5, <2>1 DEF GenMerge, BelowInMap, netVars
  <2>3. /\ snippetChains \in [Block -> Snippet] /\ list \in Seq(Block)
        /\ Range(list) \subseteq Block /\ headMap \subseteq Range(list)
        /\ next \in 1..Len(list)
    BY <1>1, <2>2 DEF TypeOK, Range, Bookkeeping
  <2>4. s \in Range(list) /\ s \in Block /\ oc \in Range(list) /\ oc \in Block
    BY <2>1, <2>2, <2>3 DEF Range
  <2>5. /\ Snippets = Range(list) /\ Snippets' = Range(list)
        /\ Live = headMap /\ Live' = headMap \ {oc}
    BY <2>2 DEF Snippets, Live
  <2>6. \A t \in Block \ {s} : snippetChains'[t] = snippetChains[t]
    BY <2>2, <2>3
  <2>7. \A t \in Snippets \ {s}, b \in Block : SnippetHolds(t, b)' <=> SnippetHolds(t, b)
    BY <2>3, <2>5, <2>6 DEF SnippetHolds
  <2>8. ASSUME NEW b \in Block, SnippetHolds(s, b)'
        PROVE  SnippetHolds(s, b) \/ SnippetHolds(oc, b)
    <3>1. snippetChains'[s] = Merge(snippetChains[s], snippetChains[oc])
      BY <2>2, <2>3, <2>4
    <3>2. BlockHeight[b] \in Height
      BY TreeAssumption
    <3>3. \/ snippetChains'[s].heightBlocks[BlockHeight[b]] = snippetChains[oc].heightBlocks[BlockHeight[b]]
          \/ snippetChains'[s].heightBlocks[BlockHeight[b]] = snippetChains[s].heightBlocks[BlockHeight[b]]
      BY <3>1, <3>2 DEF Merge
    <3> QED
      BY <2>8, <3>3 DEF SnippetHolds, Holds
  <2>9. \A c \in chainIds', a \in Block : ChainHolds(c, a)' <=> ChainHolds(c, a)
    BY <2>2 DEF ChainHolds
  <2>10. \A a \in Block, t \in Snippets' : SnippetHolds(t, a)' => a \in compoundBlocks'
    BY <1>1, <2>2, <2>4, <2>5, <2>7, <2>8 DEF OnePlace
  <2>11. ASSUME NEW a \in Block \ {Genesis}
      PROVE  /\ \A t \in Snippets' : SnippetHolds(t, a)' =>
                    /\ a \notin diskChain'.byHash
                    /\ \A c \in chainIds' : ~ChainHolds(c, a)'
             /\ \A t, u \in Live' : SnippetHolds(t, a)' /\ SnippetHolds(u, a)' => t = u
             /\ \A c \in chainIds' : ChainHolds(c, a)' =>
                    /\ a \in compoundBlocks' /\ a \notin diskChain'.byHash
                    /\ \A e \in chainIds' : ChainHolds(e, a)' => c = e
             /\ a \in diskChain'.byHash => a \in compoundBlocks'
    <3>1. \A t \in Snippets' : SnippetHolds(t, a)' =>
             \/ SnippetHolds(t, a)
             \/ t = s /\ SnippetHolds(oc, a)
      BY <2>5, <2>7, <2>8
    <3>2. \A t \in Snippets' : SnippetHolds(t, a)' =>
                    /\ a \notin diskChain'.byHash
                    /\ \A c \in chainIds' : ~ChainHolds(c, a)'
      BY <1>1, <2>2, <2>4, <2>5, <2>9, <3>1 DEF OnePlace
    <3>3. \A t, u \in headMap : SnippetHolds(t, a) /\ SnippetHolds(u, a) => t = u
      BY <1>1, <2>5 DEF OnePlace
    <3>4. \A t, u \in Live' : SnippetHolds(t, a)' /\ SnippetHolds(u, a)' => t = u
      BY <2>2, <2>3, <2>5, <3>1, <3>3
    <3>5. /\ \A c \in chainIds' : ChainHolds(c, a)' =>
                    /\ a \in compoundBlocks' /\ a \notin diskChain'.byHash
                    /\ \A e \in chainIds' : ChainHolds(e, a)' => c = e
          /\ a \in diskChain'.byHash => a \in compoundBlocks'
      BY <1>1, <2>2, <2>9 DEF OnePlace
    <3> QED
      BY <3>2, <3>4, <3>5
  <2> QED
    BY <2>2, <2>10, <2>11 DEF OnePlace
<1>6. CASE GenMerged
  <2>1. /\ pc = "merge" /\ pc' = pc /\ headMap' = headMap /\ list' = list
        /\ UNCHANGED <<compoundBlocks, snippetIds, snippetChains, chainIds, chains, current,
                       diskChain, fork, crashed>>
    BY <1>6 DEF GenMerged, poolVars
  <2>2. Snippets' = Snippets /\ Live' = Live
    BY <2>1 DEF Snippets, Live
  <2> QED
    BY <1>1, <2>1, <2>2, PlacesStay
<1>7. CASE GenDone
  <2>1. /\ pc = "merge" /\ pc' = "append" /\ snippetIds' = headMap
        /\ snippetChains' = [b \in Block |-> IF b \in headMap THEN snippetChains[b]
                                                              ELSE NoSnippet]
        /\ UNCHANGED <<compoundBlocks, chainIds, chains, current, diskChain, fork, crashed>>
    BY <1>7 DEF GenDone, netVars
  <2>2. headMap \subseteq Range(list) /\ headMap \subseteq Block
    BY <1>1 DEF Bookkeeping, TypeOK
  <2>3. /\ Snippets = Range(list) /\ Live = headMap
        /\ Snippets' = headMap /\ Live' = headMap
    BY <2>1 DEF Snippets, Live
  <2>4. \A s \in headMap, b \in Block : SnippetHolds(s, b)' => SnippetHolds(s, b)
    BY <2>1, <2>2 DEF SnippetHolds
  <2>5. \A c \in chainIds', b \in Block : ChainHolds(c, b)' => c \in chainIds /\ ChainHolds(c, b)
    BY <2>1 DEF ChainHolds
  <2>6. OnePlace'
    BY <1>1, <2>1, <2>2, <2>3, <2>4, <2>5, PlacesMoved
  <2> QED
    BY <2>1, <2>6
<1> QED
  BY <1>2, <1>3, <1>4, <1>5, <1>6, <1>7 DEF Gen

-----------------------------------------------------------------------------
(***************************************************************************)
(* loopAppendChains: snippets become parts of chains.                      *)
(***************************************************************************)
\* Cutting a tail off adds no block.
LEMMA CutHolds ==
    ASSUME NEW c, c \in Snippet \/ c \in ForkedChain, NEW n, NEW b \in Block,
           Holds(CutTo(c, n).heightBlocks, b)
    PROVE  Holds(c.heightBlocks, b)
<1>1. BlockHeight[b] \in Height /\ b # Nil
  BY TreeAssumption
<1>2. CASE n <= c.tailHeight
  BY <1>2 DEF CutTo
<1>3. CASE ~(n <= c.tailHeight)
  <2>1. CutTo(c, n).heightBlocks = [h \in Height |->
                        IF h > c.tailHeight /\ h <= n THEN Nil ELSE c.heightBlocks[h]]
    BY <1>3 DEF CutTo, Snippet, ForkedChain
  <2> QED
    BY <1>1, <2>1 DEF Holds
<1> QED
  BY <1>2, <1>3

\* insertSnippet: a chain with a linked snippet on its head.
LEMMA ExtendedShape ==
    ASSUME TypeOK, NEW c \in Block, NEW s \in Block, NEW sn \in Snippet,
           NEW foot \in Block, ChainShape(chains[c], foot), LinkedSnippet(s, sn),
           sn.tailHeight = chains[c].headHeight, sn.tailHash = chains[c].headHash
    PROVE  /\ ChainShape(Extended(c, s, sn), foot)
           /\ Extended(c, s, sn).headHeight = BlockHeight[s]
           /\ Extended(c, s, sn).headHeight > chains[c].headHeight
           /\ Extended(c, s, sn).referChain = chains[c].referChain
           /\ \A b \in Block : Holds(Extended(c, s, sn).heightBlocks, b) =>
                 ChainHolds(c, b) \/ Holds(sn.heightBlocks, b)
<1> DEFINE ch == chains[c]
           T == ch.tailHeight
           H == ch.headHeight
           K == BlockHeight[s]
           m == ch.heightBlocks
           k == sn.heightBlocks
           e == [h \in Height |-> IF h > H /\ h <= K THEN k[h] ELSE m[h]]
<1>1. ch \in ForkedChain
  BY DEF TypeOK
<1>2. /\ Extended(c, s, sn).tailHeight = T
      /\ Extended(c, s, sn).headHeight = K
      /\ Extended(c, s, sn).headHash = s
      /\ Extended(c, s, sn).referChain = ch.referChain
      /\ Extended(c, s, sn).heightBlocks = e
  BY <1>1 DEF Extended, ForkedChain
<1>3. /\ T \in Int /\ H \in Int /\ MaxHeight \in Nat /\ 0 <= T /\ T <= H /\ H <= MaxHeight
      /\ \A h \in T + 1 .. H : /\ h \in Height /\ m[h] \in Block /\ BlockHeight[m[h]] = h
                               /\ h # T + 1 => PreHash[m[h]] = m[h - 1]
                               /\ h = T + 1 => PreHash[m[h]] = foot
      /\ \A h \in Height : ~(h \in T + 1 .. H) => m[h] = Nil
  BY <1>1, ShapeReads
<1>4. K \in Int /\ K <= MaxHeight /\ H < K
  BY BlockFacts DEF LinkedSnippet
<1>5. /\ k[K] = s
      /\ \A h \in H + 1 .. K : /\ k[h] \in Block /\ BlockHeight[k[h]] = h
                               /\ PreHash[k[h]] = IF h = H + 1 THEN sn.tailHash ELSE k[h - 1]
  BY DEF LinkedSnippet, Run
<1>6. /\ T = H => ch.headHash = foot
      /\ T # H => m[H] = ch.headHash
  BY DEF ChainShape
<1>7. T = BlockHeight[foot]
  BY DEF ChainShape
<1> HIDE DEF T, H, K, m, k, ch
<1>8. \A h \in T + 1 .. K : h \in Height
  BY <1>3, <1>4 DEF Height
<1>9. ASSUME NEW h \in T + 1 .. K
      PROVE  /\ e[h] \in Block /\ BlockHeight[e[h]] = h
             /\ PreHash[e[h]] = IF h = T + 1 THEN foot ELSE e[h - 1]
  <2>1. CASE h <= H
    <3>1. h \in T + 1 .. H /\ e[h] = m[h]
      BY <1>3, <1>8, <2>1
    <3>2. h # T + 1 => h - 1 \in Height /\ e[h - 1] = m[h - 1]
      BY <1>3, <1>4, <1>8, <2>1
    <3> QED
      BY <1>3, <3>1, <3>2
  <2>2. CASE h = H + 1
    <3>1. h \in H + 1 .. K /\ e[h] = k[h] /\ PreHash[k[h]] = ch.headHash
      BY <1>3, <1>4, <1>5, <1>8, <2>2 DEF ch, H
    <3>2. CASE T = H
      BY <1>5, <1>6, <2>2, <3>1, <3>2
    <3>3. CASE T # H
      <4>1. h # T + 1 /\ h - 1 = H /\ H \in Height
        BY <1>3, <2>2, <3>3 DEF Height
      <4>2. e[h - 1] = m[H]
        BY <1>3, <4>1
      <4> QED
        BY <1>5, <1>6, <3>1, <3>3, <4>1, <4>2
    <3> QED
      BY <3>2, <3>3
  <2>3. CASE h > H + 1
    <3>1. h \in H + 1 .. K /\ h # H + 1 /\ h # T + 1 /\ h - 1 \in Height
      BY <1>3, <1>4, <1>8, <2>3 DEF Height
    <3>2. e[h] = k[h] /\ e[h - 1] = k[h - 1]
      BY <1>3, <1>4, <1>8, <2>3, <3>1
    <3> QED
      BY <1>5, <3>1, <3>2
  <2> QED
    BY <1>3, <2>1, <2>2, <2>3
<1>10. \A h \in Height : h <= T \/ h > K => e[h] = Nil
  BY <1>3, <1>4 DEF Height
<1>11. e[K] = s
  BY <1>3, <1>4, <1>5, <1>8
<1>12. Run(e, T + 1, K, foot)
  BY <1>9 DEF Run
<1>13. ASSUME NEW b \in Block, Holds(e, b) PROVE ChainHolds(c, b) \/ Holds(k, b)
  <2>1. BlockHeight[b] \in Height
    BY TreeAssumption
  <2> QED
    BY <1>13, <2>1 DEF Holds, ChainHolds, m, ch
<1> HIDE DEF e
<1>14. ChainShape(Extended(c, s, sn), foot)
  BY <1>2, <1>3, <1>4, <1>7, <1>10, <1>11, <1>12 DEF ChainShape, K
<1> QED
  BY <1>2, <1>4, <1>13, <1>14 DEF H, K, k, ch

\* One chain grows where it stands.
LEMMA OneChainGrows ==
    ASSUME Ground, OneForkPoint, PoolShape, NEW c \in chainIds, NEW v \in ForkedChain,
           chains' = [chains EXCEPT ![c] = v], ChainShape(v, Foot(c)),
           v.referChain = chains[c].referChain, v.headHeight > chains[c].headHeight,
           UNCHANGED <<chainIds, current, diskChain, fork>>, ~crashed'
    PROVE  DiskShape' /\ ChainsShape' /\ HandShape' /\ ForkShape'
<1>1. /\ DiskShape /\ ChainsShape /\ HandShape /\ ForkShape /\ c \in Block /\ chainIds \subseteq Block
      /\ current \in chainIds /\ Base \in chainIds
      /\ chains \in [Block -> ForkedChain]
  BY ChainFacts DEF PoolShape, Ground, TypeOK
<1>2. chains'[c] = v /\ \A d \in Block \ {c} : chains'[d] = chains[d]
  BY <1>1
<1>3. \A d \in chainIds : chains'[d].referChain = chains[d].referChain
  BY <1>1, <1>2
<1>4. /\ Base' = Base /\ Top' = Top /\ WriteLocked' = WriteLocked
      /\ Seat' = Seat /\ LastTurn' = LastTurn
  BY <1>1, <1>3 DEF Base, Top, WriteLocked, Seat, InHand, LastTurn
<1>5. DiskShape'
  BY <1>1, <1>4 DEF DiskShape
<1>6. ForkShape'
  BY <1>1, <1>4 DEF ForkShape
<1>7. \A d \in chainIds : d # c => ChainShape(chains[d], Foot(d))
  BY ChainFacts
<1>8. \A d \in chainIds : ChainShape(chains'[d], Foot(d))
  BY <1>1, <1>2, <1>7
<1>9. ForkHeight \in Int /\ \A d \in chainIds : chains[d].headHeight \in Int
  BY ForkBlockFacts, OwnReads
<1>10. v.headHeight \in Int
  BY TreeAssumption DEF ForkedChain, Height
<1>11. \A d, f \in chainIds : d # f => chains'[d].headHeight > ForkHeight
  <2>1. \A d, f \in chainIds : d # f => chains[d].headHeight > ForkHeight
    BY ChainFacts
  <2> QED
    BY <1>1, <1>2, <1>9, <1>10, <2>1
<1>12. ChainsShape'
  <2>1. \A d \in chainIds \ {Base} : ChainShape(chains'[d], ForkBlock)
    BY <1>8 DEF Foot
  <2>2. ChainShape(chains'[Base], Seat)
    BY <1>1, <1>8 DEF Foot
  <2> QED
    BY <1>1, <1>3, <1>4, <1>11, <2>1, <2>2 DEF ChainsShape
<1>13. HandShape'
  BY <1>1, <1>4 DEF HandShape
<1> QED
  BY <1>5, <1>6, <1>12, <1>13

\* insertSnippet, of a snippet that is left of w.
LEMMA ShapeInsertSnippet ==
    ASSUME Ground, OneForkPoint, PoolShape, HandFree', ~crashed,
           pc = "forky", w \in snippetIds,
           NEW c \in chainIds, NEW sn \in Snippet, LinkedSnippet(w, sn),
           \A b \in Block : Holds(sn.heightBlocks, b) => SnippetHolds(w, b),
           InsertSnippet(c, sn), AppendFrame
    PROVE  PoolShape'
<1>1. /\ UNCHANGED <<compoundBlocks, current, diskChain, crashed, pc, fork, chainIds, tmpChains>>
      /\ w' = Nil
  BY DEF InsertSnippet, AppendFrame, netVars
<1>2. VisitShape'
  BY <1>1 DEF PoolShape, VisitShape
<1>3. /\ OnePlace /\ DiskShape /\ ChainsShape /\ HandShape /\ ForkShape /\ TypeOK
      /\ c \in Block /\ w \in Block /\ snippetIds \subseteq Block
      /\ snippetChains \in [Block -> Snippet] /\ chains \in [Block -> ForkedChain]
      /\ chainIds \subseteq Block
  BY DEF PoolShape, Ground, TypeOK
<1>4. Snippets = snippetIds /\ Live = snippetIds /\ Snippets' = snippetIds' /\ Live' = snippetIds'
  BY <1>1 DEF Snippets, Live
<1> DEFINE Attached == /\ sn.tailHeight = chains[c].headHeight
                       /\ PreHash[sn.heightBlocks[sn.tailHeight + 1]] = chains[c].headHash
<1>5. CASE Attached
  <2>1. /\ chains' = [chains EXCEPT ![c] = Extended(c, w, sn)]
        /\ snippetIds' = snippetIds \ {w}
        /\ snippetChains' = [snippetChains EXCEPT ![w] = NoSnippet]
    BY <1>5 DEF InsertSnippet, DeleteSnippet
  <2>2. sn.tailHash = chains[c].headHash
    BY <1>3, <1>5, LowestBlock
  <2>3. ChainShape(chains[c], Foot(c)) /\ Foot(c) \in Block
    BY ChainFacts
  <2>4. Extended(c, w, sn) \in ForkedChain
    BY <1>3, ExtendedType
  <2>5. PICK v \in ForkedChain : v = Extended(c, w, sn)
    BY <2>4
  <2>6. /\ ChainShape(v, Foot(c))
        /\ v.headHeight > chains[c].headHeight
        /\ v.referChain = chains[c].referChain
        /\ \A b \in Block : Holds(v.heightBlocks, b) =>
                 ChainHolds(c, b) \/ Holds(sn.heightBlocks, b)
    BY <1>3, <1>5, <2>2, <2>3, <2>5, ExtendedShape
  <2>7. chains' = [chains EXCEPT ![c] = v]
    BY <2>1, <2>5
  <2>8. DiskShape' /\ ChainsShape' /\ HandShape' /\ ForkShape'
    BY <1>1, <2>6, <2>7, OneChainGrows
  <2>9. /\ chains'[c] = v /\ \A d \in Block \ {c} : chains'[d] = chains[d]
        /\ \A s \in Block \ {w} : snippetChains'[s] = snippetChains[s]
    BY <1>3, <2>1, <2>7
  <2>10. \A s \in snippetIds', b \in Block : SnippetHolds(s, b)' => SnippetHolds(s, b)
    BY <1>3, <2>1, <2>9 DEF SnippetHolds
  <2>11. \A d \in chainIds \ {c}, b \in Block : ChainHolds(d, b)' <=> ChainHolds(d, b)
    BY <1>3, <2>9 DEF ChainHolds
  <2>12. \A b \in Block : ChainHolds(c, b)' => ChainHolds(c, b) \/ SnippetHolds(w, b)
    BY <2>6, <2>9 DEF ChainHolds
  <2>13. ASSUME NEW b \in Block \ {Genesis}, SnippetHolds(w, b)
         PROVE  /\ b \in compoundBlocks /\ b \notin diskChain'.byHash
                /\ \A s \in snippetIds' : ~SnippetHolds(s, b)'
                /\ \A e \in chainIds \ {c} : ~ChainHolds(e, b)'
    BY <1>1, <1>3, <1>4, <2>1, <2>10, <2>11, <2>13 DEF OnePlace
  <2>14. \A s \in Snippets' \cup Live', b \in Block : SnippetHolds(s, b)' => SnippetHolds(s, b)
    BY <1>4, <2>10
  <2>15. \A b \in Block \ {Genesis}, d \in chainIds' : ChainHolds(d, b)' =>
                    \/ d \in chainIds /\ ChainHolds(d, b)
                    \/ /\ d = c /\ b \in compoundBlocks /\ b \notin diskChain'.byHash
                       /\ \A s \in Snippets' : ~SnippetHolds(s, b)'
                       /\ \A e \in chainIds' \ {c} : ~ChainHolds(e, b)'
    BY <1>1, <1>4, <2>11, <2>12, <2>13
  <2>16. /\ compoundBlocks \subseteq compoundBlocks' /\ diskChain' = diskChain
         /\ Snippets' \subseteq Snippets /\ Live' \subseteq Live
    BY <1>1, <1>4, <2>1
  <2>17. OnePlace'
    BY <1>3, <2>14, <2>15, <2>16, PlacesMoved
  <2> QED
    BY <1>2, <2>8, <2>17 DEF PoolShape
<1>6. CASE ~Attached
  <2>1. snippetChains' = [snippetChains EXCEPT ![w] = sn] /\ UNCHANGED <<chains, snippetIds>>
    BY <1>6 DEF InsertSnippet
  <2>2. DiskShape' /\ ChainsShape' /\ HandShape' /\ ForkShape'
    BY <1>1, <1>3, <2>1, ChainsStay
  <2>3. snippetChains'[w] = sn /\ \A s \in Block \ {w} : snippetChains'[s] = snippetChains[s]
    BY <1>3, <2>1
  <2>4. \A s \in snippetIds, b \in Block : SnippetHolds(s, b)' => SnippetHolds(s, b)
    BY <1>3, <2>3 DEF SnippetHolds
  <2>5. \A d \in chainIds', b \in Block : ChainHolds(d, b)' => d \in chainIds /\ ChainHolds(d, b)
    BY <1>1, <2>1 DEF ChainHolds
  <2>6. OnePlace'
    BY <1>1, <1>3, <1>4, <2>1, <2>4, <2>5, PlacesMoved
  <2> QED
    BY <1>2, <2>2, <2>6 DEF PoolShape
<1> QED
  BY <1>5, <1>6

\* forkChain, of a snippet that is left of w and starts where branches part.
LEMMA ShapeForkChain ==
    ASSUME Ground, OneForkPoint, PoolShape, HandFree', ~crashed,
           pc = "forky", w \in snippetIds,
           NEW c \in chainIds, NEW sn \in Snippet, LinkedSnippet(w, sn),
           \A b \in Block : Holds(sn.heightBlocks, b) => SnippetHolds(w, b),
           sn.tailHash = ForkBlock, w \notin chainIds,
           \A d \in chainIds : chains[d].headHeight > ForkHeight,
           ForkChain(c, sn), AppendFrame
    PROVE  PoolShape'
<1>1. /\ UNCHANGED <<compoundBlocks, current, diskChain, crashed, pc, fork>>
      /\ w' = Nil /\ chainIds' = chainIds \cup {w} /\ tmpChains' = Append(tmpChains, w)
      /\ chains' = [chains EXCEPT ![w] = ForkOf(w, sn, c)]
      /\ snippetIds' = snippetIds \ {w}
      /\ snippetChains' = [snippetChains EXCEPT ![w] = NoSnippet]
  BY DEF ForkChain, DeleteSnippet, AppendFrame, netVars
<1>2. /\ OnePlace /\ DiskShape /\ ChainsShape /\ HandShape /\ ForkShape /\ VisitShape /\ TypeOK
      /\ c \in Block /\ w \in Block /\ snippetIds \subseteq Block
      /\ snippetChains \in [Block -> Snippet] /\ chains \in [Block -> ForkedChain]
      /\ chainIds \subseteq Block /\ tmpChains \in Seq(Block)
  BY DEF PoolShape, Ground, TypeOK
<1>3. VisitShape'
  <2>1. Range(tmpChains) \subseteq Range(tmpChains')
    BY <1>1, <1>2, RangeAppend
  <2>2. w \in Range(tmpChains')
    <3>1. /\ Len(tmpChains) \in Nat /\ Len(tmpChains') = Len(tmpChains) + 1
          /\ tmpChains' \in Seq(Block) /\ tmpChains'[Len(tmpChains) + 1] = w
      BY <1>1, <1>2
    <3>2. Len(tmpChains) + 1 \in DOMAIN tmpChains'
      BY <3>1
    <3> QED
      BY <3>1, <3>2 DEF Range
  <2> QED
    BY <1>1, <1>2, <2>1, <2>2 DEF VisitShape
<1>4. Snippets = snippetIds /\ Live = snippetIds /\ Snippets' = snippetIds' /\ Live' = snippetIds'
  BY <1>1 DEF Snippets, Live
<1>5. PICK v : v = ForkOf(w, sn, c)
  OBVIOUS
<1>6. /\ v.tailHeight = sn.tailHeight /\ v.headHeight = BlockHeight[w]
      /\ v.headHash = w /\ v.heightBlocks = sn.heightBlocks /\ v.referChain = c
  BY <1>5 DEF ForkOf
<1>7. chains'[w] = v /\ \A d \in chainIds : chains'[d] = chains[d]
  BY <1>1, <1>2, <1>5
<1>8. /\ ForkBlock \in Block /\ ForkHeight \in Int /\ BlockHeight[w] \in Int
      /\ Disk \notin Block /\ sn.tailHeight \in Int
  BY <1>2, ForkBlockFacts, BlockFacts, TreeAssumption DEF Snippet
<1>9. /\ sn.tailHeight = BlockHeight[ForkBlock] /\ sn.tailHeight < BlockHeight[w]
      /\ sn.tailHeight # BlockHeight[w]
      /\ sn.heightBlocks[BlockHeight[w]] = w
      /\ Run(sn.heightBlocks, sn.tailHeight + 1, BlockHeight[w], ForkBlock)
      /\ \A h \in Height : h <= sn.tailHeight \/ h > BlockHeight[w] => sn.heightBlocks[h] = Nil
  BY <1>2, <1>8, TailBlock DEF LinkedSnippet
<1>10. ChainShape(v, ForkBlock) /\ v.headHeight > ForkHeight
  BY <1>6, <1>8, <1>9 DEF ChainShape, ForkHeight
<1>11. current \in chainIds /\ fork.longest \in chainIds
  BY DEF Ground, Bookkeeping
<1>12. /\ Base' = Base /\ Top' = Top /\ WriteLocked' = WriteLocked /\ Base \in chainIds
       /\ Seat' = Seat /\ LastTurn' = LastTurn
  BY <1>1, <1>7, <1>11 DEF Base, Top, WriteLocked, Seat, InHand, LastTurn
<1>13. DiskShape'
  BY <1>1, <1>2, <1>12 DEF DiskShape
<1>14. ForkShape'
  BY <1>1, <1>2, <1>12 DEF ForkShape
<1>15. ChainsShape'
  <2>1. /\ ~LastTurn => \A d \in chainIds' : chains'[d].referChain = Disk <=> d = Base
        /\ LastTurn => /\ chains'[current].referChain = Disk
                       /\ \A d \in chainIds' : chains'[d].referChain = Disk => d \in {current, Base}
    BY <1>1, <1>2, <1>6, <1>7, <1>8, <1>11, <1>12 DEF ChainsShape
  <2>2. ChainShape(chains'[Base], Seat)
    BY <1>2, <1>7, <1>12 DEF ChainsShape
  <2>3. \A d \in chainIds' \ {Base} : ChainShape(chains'[d], ForkBlock)
    BY <1>1, <1>2, <1>7, <1>10, <1>12 DEF ChainsShape
  <2>4. \A d \in chainIds' : chains'[d].headHeight > ForkHeight
    BY <1>1, <1>7, <1>10
  <2> QED
    BY <1>1, <1>12, <2>1, <2>2, <2>3, <2>4 DEF ChainsShape
<1>16. \A s \in snippetIds', b \in Block : SnippetHolds(s, b)' => SnippetHolds(s, b)
  BY <1>1, <1>2 DEF SnippetHolds
<1>17. \A d \in chainIds, b \in Block : ChainHolds(d, b)' <=> ChainHolds(d, b)
  BY <1>7 DEF ChainHolds
<1>18. PICK x : x = w
  OBVIOUS
<1>19. \A b \in Block : ChainHolds(x, b)' => SnippetHolds(w, b)
  BY <1>6, <1>7, <1>18 DEF ChainHolds
<1>20. ASSUME NEW b \in Block \ {Genesis}, SnippetHolds(w, b)
       PROVE  /\ b \in compoundBlocks /\ b \notin diskChain'.byHash
              /\ \A s \in snippetIds' : ~SnippetHolds(s, b)'
              /\ \A e \in chainIds : ~ChainHolds(e, b)'
  BY <1>1, <1>2, <1>4, <1>16, <1>17, <1>20 DEF OnePlace
<1>21. \A s \in Snippets' \cup Live', b \in Block : SnippetHolds(s, b)' => SnippetHolds(s, b)
  BY <1>4, <1>16
<1>22. \A b \in Block \ {Genesis}, d \in chainIds' : ChainHolds(d, b)' =>
                    \/ d \in chainIds /\ ChainHolds(d, b)
                    \/ /\ d = x /\ b \in compoundBlocks /\ b \notin diskChain'.byHash
                       /\ \A s \in Snippets' : ~SnippetHolds(s, b)'
                       /\ \A e \in chainIds' \ {x} : ~ChainHolds(e, b)'
  BY <1>1, <1>4, <1>17, <1>18, <1>19, <1>20
<1>23. /\ compoundBlocks \subseteq compoundBlocks' /\ diskChain' = diskChain
       /\ Snippets' \subseteq Snippets /\ Live' \subseteq Live
  BY <1>1, <1>4
<1>24. OnePlace'
  BY <1>2, <1>21, <1>22, <1>23, PlacesMoved
<1>25. HandShape'
  BY <1>1, <1>2, <1>12 DEF HandShape
<1> QED
  BY <1>3, <1>13, <1>14, <1>15, <1>24, <1>25 DEF PoolShape

\* findForkPoint: the snippet is cut to start above the last shared block.
LEMMA ForkPointFacts ==
    ASSUME Ground, w \in Snippets, w \in Block, NEW c, NEW refer, HasForkPoint(w, c, refer)
    PROVE  LET n == SharedHeight(w, c, refer)
               sn == Trimmed(w, c, refer)
           IN  /\ n \in Nat /\ snippetChains[w].tailHeight \in Int
               /\ snippetChains[w].tailHeight <= n /\ n + 1 \in Height
               /\ Get(c, n, refer) \in Block /\ BlockHeight[Get(c, n, refer)] = n
               /\ Get(c, n + 1, refer) # Nil
               /\ sn \in Snippet /\ LinkedSnippet(w, sn)
               /\ sn.tailHeight = n /\ sn.tailHash = Get(c, n, refer)
               /\ sn.heightBlocks[n + 1] \in Block
               /\ PreHash[sn.heightBlocks[n + 1]] = Get(c, n, refer)
               /\ sn.heightBlocks[n + 1] # Get(c, n + 1, refer)
               /\ \A b \in Block : Holds(sn.heightBlocks, b) => SnippetHolds(w, b)
               /\ n = snippetChains[w].tailHeight =>
                     Get(c, n, refer) = snippetChains[w].tailHash
               /\ n # snippetChains[w].tailHeight => SnippetHolds(w, Get(c, n, refer))
<1> DEFINE n == SharedHeight(w, c, refer)
           o == snippetChains[w]
           t == o.tailHeight
           m == o.heightBlocks
           K == BlockHeight[w]
           sn == Trimmed(w, c, refer)
           D == Differ(w, c, refer)
<1>1. /\ snippetChains \in [Block -> Snippet] /\ o \in Snippet /\ LinkedSnippet(w, o) /\ TypeOK
  BY DEF Ground, TypeOK, SnippetsLinked
<1>2. /\ o.tailHash # Nil /\ Get(c, t, refer) = o.tailHash /\ D # {}
      /\ n = Min(D) - 1 /\ Get(c, n + 1, refer) # Nil
  BY DEF HasForkPoint, TailFound, SharedHeight
<1>3. /\ t \in Int /\ K \in Int /\ t < K /\ K <= MaxHeight /\ MaxHeight \in Nat
  BY <1>1, BlockFacts DEF Snippet, LinkedSnippet
<1>4. D = {h \in t + 1 .. K : Get(c, h, refer) # m[h]}
  BY DEF Differ
<1>5. Min(D) \in D /\ \A y \in D : Min(D) <= y
  <2>1. t + 1 \in Int /\ K \in Int /\ D \subseteq t + 1 .. K /\ D # {}
    BY <1>2, <1>3, <1>4
  <2> HIDE DEF D, t, K
  <2> QED
    BY <2>1, MinOfInterval
<1>6. o.tailHash \in Block
  BY <1>1, <1>2 DEF Snippet, HashOrNil
<1>7. BlockHeight[o.tailHash] = t /\ t \in Height
  BY <1>1, <1>6, TailBlock
<1>8. sn = CutTo(o, n)
  BY DEF Trimmed
<1>9. \A h \in t + 1 .. K : /\ m[h] \in Block /\ BlockHeight[m[h]] = h
                            /\ PreHash[m[h]] = IF h = t + 1 THEN o.tailHash ELSE m[h - 1]
  BY <1>1 DEF LinkedSnippet, Run
<1>10. \A b \in Block : Holds(sn.heightBlocks, b) => SnippetHolds(w, b)
  BY <1>1, <1>8, CutHolds DEF SnippetHolds
<1> HIDE DEF n, sn, D, m, t, K
<1>11. /\ n \in Int /\ t <= n /\ n < K /\ n + 1 \in t + 1 .. K /\ 0 <= t
       /\ Get(c, n + 1, refer) # m[n + 1]
  <2>1. Min(D) \in t + 1 .. K /\ Get(c, Min(D), refer) # m[Min(D)]
    BY <1>4, <1>5
  <2>2. n + 1 = Min(D)
    BY <1>2, <1>3, <2>1
  <2> QED
    BY <1>2, <1>3, <1>7, <2>1, <2>2 DEF Height
<1>12. n > t => n \in t + 1 .. K /\ Get(c, n, refer) = m[n]
  <2>1. ASSUME n > t PROVE n \in t + 1 .. K /\ n \notin D
    <3>1. n \in t + 1 .. K
      BY <1>3, <1>11, <2>1
    <3>2. n < Min(D) /\ Min(D) \in Int
      BY <1>2, <1>3, <1>4, <1>5, <1>11
    <3> QED
      BY <1>5, <1>11, <3>1, <3>2
  <2> QED
    BY <1>4, <2>1
<1>13. Get(c, n, refer) \in Block /\ BlockHeight[Get(c, n, refer)] = n
  <2>1. CASE n = t
    BY <1>2, <1>6, <1>7, <2>1 DEF t
  <2>2. CASE n # t
    <3>1. n > t
      BY <1>3, <1>11, <2>2
    <3> QED
      BY <1>9, <1>12, <3>1
  <2> QED
    BY <2>1, <2>2
<1>14. PreHash[m[n + 1]] = Get(c, n, refer)
  <2>1. CASE n = t
    BY <1>2, <1>9, <1>11, <2>1 DEF t
  <2>2. CASE n # t
    <3>1. n > t /\ n + 1 # t + 1 /\ (n + 1) - 1 = n
      BY <1>3, <1>11, <2>2
    <3> QED
      BY <1>9, <1>11, <1>12, <3>1
  <2> QED
    BY <2>1, <2>2
<1>15. n \in -1..MaxHeight /\ sn \in Snippet /\ LinkedSnippet(w, sn)
  <2>1. n \in -1..MaxHeight /\ n < BlockHeight[w]
    BY <1>3, <1>11 DEF K
  <2> QED
    BY <1>1, <1>8, <2>1, CutToSnippet, CutLinked
<1>16. /\ sn.tailHeight = n /\ sn.tailHash = Get(c, n, refer)
       /\ sn.heightBlocks[n + 1] = m[n + 1]
  <2>1. CASE n = t
    <3>1. sn = o
      BY <1>3, <1>8, <1>11, <2>1 DEF CutTo, t
    <3> QED
      BY <1>2, <2>1, <3>1 DEF t, m
  <2>2. CASE n # t
    <3>1. ~(n <= o.tailHeight) /\ n > t
      BY <1>3, <1>11, <2>2 DEF t
    <3>2. /\ sn.tailHeight = n /\ sn.tailHash = m[n]
          /\ sn.heightBlocks = [h \in Height |-> IF h > t /\ h <= n THEN Nil ELSE m[h]]
      BY <1>1, <1>8, <3>1 DEF CutTo, Snippet, t, m
    <3>3. n + 1 \in Height /\ ~(n + 1 <= n)
      BY <1>3, <1>11 DEF Height
    <3> QED
      BY <1>12, <3>1, <3>2, <3>3
  <2> QED
    BY <2>1, <2>2
<1>17. n # t => SnippetHolds(w, Get(c, n, refer))
  <2>1. n # t => n > t
    BY <1>3, <1>11
  <2> QED
    BY <1>9, <1>12, <2>1 DEF SnippetHolds, Holds, m
<1>18. n \in Nat /\ n + 1 \in Height
  BY <1>3, <1>11 DEF Height
<1>19. sn.heightBlocks[n + 1] \in Block /\ sn.heightBlocks[n + 1] # Get(c, n + 1, refer)
  BY <1>9, <1>11, <1>16
<1>20. n = t => Get(c, n, refer) = o.tailHash
  BY <1>2 DEF t
<1> QED
  BY <1>2, <1>3, <1>10, <1>11, <1>13, <1>14, <1>15, <1>16, <1>17, <1>18, <1>19, <1>20
     DEF n, sn, t

\* Two blocks with one predecessor: it is the block where branches part.
LEMMA Siblings ==
    ASSUME OneForkPoint, NEW x \in Block, NEW y \in Block, x # y,
           PreHash[x] = PreHash[y]
    PROVE  PreHash[x] = ForkBlock
  BY ForkBlockFacts

\* forkChain on a chain that forky visits.
LEMMA ShapeAppendFork ==
    ASSUME Ground, OneForkPoint, PoolShape, HandFree', AppendFork
    PROVE  PoolShape'
<1>1. PICK c : c = Visited
  OBVIOUS
<1>2. /\ ~crashed /\ pc = "forky" /\ w # Nil /\ visit <= Len(tmpChains)
      /\ HasForkPoint(w, c, FALSE) /\ ForkChain(c, Trimmed(w, c, FALSE)) /\ AppendFrame
  BY <1>1 DEF AppendFork, Visiting
<1>3. c \in chainIds
  BY <1>1, <1>2 DEF Visited, Ground, Bookkeeping, TypeOK, Range
<1>4. w \in snippetIds /\ w \in Block /\ w \in Snippets
  BY <1>2 DEF Ground, Bookkeeping, TypeOK, Snippets
<1>5. w \notin chainIds
  BY <1>2, FreshName DEF Ground
<1> DEFINE n == SharedHeight(w, c, FALSE)
           sn == Trimmed(w, c, FALSE)
<1>6. /\ n \in Nat /\ n + 1 \in Height
      /\ OwnBlock(c, n) \in Block /\ BlockHeight[OwnBlock(c, n)] = n
      /\ OwnBlock(c, n + 1) # Nil
      /\ sn \in Snippet /\ LinkedSnippet(w, sn)
      /\ sn.tailHash = OwnBlock(c, n)
      /\ sn.heightBlocks[n + 1] \in Block
      /\ PreHash[sn.heightBlocks[n + 1]] = OwnBlock(c, n)
      /\ sn.heightBlocks[n + 1] # OwnBlock(c, n + 1)
      /\ \A b \in Block : Holds(sn.heightBlocks, b) => SnippetHolds(w, b)
  BY <1>2, <1>4, ForkPointFacts DEF Get
<1> HIDE DEF n, sn
<1>7. /\ chains[c].tailHeight < n /\ n + 1 <= chains[c].headHeight
      /\ OwnBlock(c, n + 1) \in Block /\ PreHash[OwnBlock(c, n + 1)] = OwnBlock(c, n)
  <2>1. n \in Int /\ n + 1 \in Int /\ n + 1 - 1 = n
    BY <1>6
  <2>2. chains[c].tailHeight \in Int /\ chains[c].headHeight \in Int
    BY <1>3, OwnReads
  <2>3. n > chains[c].tailHeight /\ n <= chains[c].headHeight
    BY <1>3, <1>6, <2>1, OwnReads, TreeAssumption
  <2>4. n + 1 > chains[c].tailHeight /\ n + 1 <= chains[c].headHeight
    BY <1>3, <1>6, <2>1, OwnReads
  <2>5. n + 1 # chains[c].tailHeight + 1
    BY <2>1, <2>2, <2>3
  <2> QED
    BY <1>3, <2>1, <2>2, <2>3, <2>4, <2>5, OwnReads
<1>8. OwnBlock(c, n) = ForkBlock
  BY <1>6, <1>7, Siblings
<1>9. n = ForkHeight
  BY <1>6, <1>8 DEF ForkHeight
<1>10. ASSUME NEW d \in chainIds PROVE chains[d].headHeight > ForkHeight
  <2>1. CASE d # c
    BY <1>3, <2>1, ChainFacts
  <2>2. CASE d = c
    BY <1>3, <1>6, <1>7, <1>9, <2>2, OwnReads
  <2> QED
    BY <2>1, <2>2
<1> QED
  BY <1>2, <1>3, <1>4, <1>5, <1>6, <1>8, <1>10, ShapeForkChain DEF sn

\* forkChain on the current chain, after the last one.
LEMMA ShapeAppendDiskFork ==
    ASSUME Ground, OneForkPoint, PoolShape, HandFree', AppendDiskFork
    PROVE  PoolShape'
<1>1. /\ ~crashed /\ pc = "forky" /\ w # Nil /\ visit > Len(tmpChains)
      /\ HasForkPoint(w, current, TRUE) /\ ForkChain(current, Trimmed(w, current, TRUE))
      /\ AppendFrame
  BY DEF AppendDiskFork, DiskReached
<1>2. current \in chainIds /\ Base \in chainIds
  BY ChainFacts
<1>3. w \in snippetIds /\ w \in Block /\ w \in Snippets
  BY <1>1 DEF Ground, Bookkeeping, TypeOK, Snippets
<1>4. w \notin chainIds
  BY <1>1, FreshName DEF Ground
<1> DEFINE n == SharedHeight(w, current, TRUE)
           sn == Trimmed(w, current, TRUE)
           x == GetBlock(current, n)
           z == GetBlock(current, n + 1)
<1>5. /\ n \in Nat /\ n + 1 \in Height
      /\ x \in Block /\ BlockHeight[x] = n
      /\ z # Nil
      /\ sn \in Snippet /\ LinkedSnippet(w, sn)
      /\ sn.tailHash = x
      /\ sn.heightBlocks[n + 1] \in Block
      /\ PreHash[sn.heightBlocks[n + 1]] = x
      /\ sn.heightBlocks[n + 1] # z
      /\ \A b \in Block : Holds(sn.heightBlocks, b) => SnippetHolds(w, b)
      /\ n = snippetChains[w].tailHeight => x = snippetChains[w].tailHash
      /\ n # snippetChains[w].tailHeight => SnippetHolds(w, x)
  BY <1>1, <1>3, ForkPointFacts DEF Get
<1> HIDE DEF n, sn
<1>6. \/ x \in Block /\ z \in Block /\ PreHash[z] = x
      \/ \E d \in chainIds : chains[d].headHeight = n /\ chains[d].headHash = x
  BY <1>2, <1>5, LinkedOrHead, TreeAssumption
<1> HIDE DEF x, z
<1>7. ASSUME NEW d \in chainIds, chains[d].headHeight <= n, n <= ForkHeight
      PROVE  FALSE
  <2>1. /\ ForkHeight \in Int /\ chains[d].headHeight \in Int
        /\ \A e \in chainIds : d # e => chains[d].headHeight > ForkHeight
    BY <1>7, ForkBlockFacts, OwnReads, ChainFacts
  <2>2. \A e \in chainIds : d = e
    BY <1>5, <1>7, <2>1
  <2>3. current = d /\ Base = d
    BY <1>2, <2>2
  <2>4. n + 1 \in Int /\ n + 1 > chains[Base].headHeight
    BY <1>5, <1>7, <2>1, <2>3
  <2>5. GetBlock(Base, n + 1) = Nil
    <3>1. chains[Base].referChain = Disk
      BY <2>3, ChainFacts
    <3> QED
      BY <1>2, <2>4, <3>1, AboveHead
  <2> QED
    BY <1>5, <2>3, <2>5 DEF z
<1>8. ASSUME NEW d \in chainIds, chains[d].headHeight = n, chains[d].headHash = x
      PROVE  FALSE
  <2>1. CASE n = snippetChains[w].tailHeight
    <3>1. PICK i \in DOMAIN tmpChains : tmpChains[i] = d
      BY <1>1 DEF PoolShape, VisitShape, Range
    <3>2. i < visit
      <4>1. tmpChains \in Seq(Block) /\ visit \in Nat
        BY DEF Ground, TypeOK
      <4>2. i \in 1..Len(tmpChains) /\ Len(tmpChains) \in Nat
        BY <3>1, <4>1
      <4> QED
        BY <1>1, <4>1, <4>2
    <3>3. ~Continues(tmpChains[i])
      BY <1>1, <3>1, <3>2 DEF PoolShape, VisitShape
    <3>4. Continues(d)
      BY <1>5, <1>8, <2>1 DEF Continues
    <3> QED
      BY <3>1, <3>3, <3>4
  <2>2. CASE n # snippetChains[w].tailHeight
    <3>1. SnippetHolds(w, x)
      BY <1>5, <2>2
    <3>2. ChainHolds(d, x) \/ x \in diskChain.byHash
      <4>1. ~(InHand /\ x = fork.block)
        BY <1>3, <3>1 DEF PoolShape, HandFree
      <4> QED
        BY <1>8, <4>1, HeadPlace
    <3>3. x = Genesis
      BY <1>3, <1>5, <3>1, <3>2 DEF PoolShape, OnePlace
    <3>4. n = 0
      BY <1>5, <3>3, TreeAssumption
    <3>5. 0 <= ForkHeight
      BY ForkBlockFacts
    <3> QED
      BY <1>7, <1>8, <3>4, <3>5
  <2> QED
    BY <2>1, <2>2
<1>9. z \in Block /\ PreHash[z] = x
  BY <1>6, <1>8
<1>10. x = ForkBlock
  BY <1>5, <1>9, Siblings
<1>11. n = ForkHeight
  BY <1>5, <1>10 DEF ForkHeight
<1>12. ASSUME NEW d \in chainIds PROVE chains[d].headHeight > ForkHeight
  <2>1. ForkHeight \in Int /\ chains[d].headHeight \in Int
    BY ForkBlockFacts, OwnReads
  <2> QED
    BY <1>7, <1>11, <2>1
<1> QED
  BY <1>1, <1>2, <1>3, <1>4, <1>5, <1>10, <1>12, ShapeForkChain DEF sn

\* A chain's own blocks are never shared with a snippet, which is left as it is.
LEMMA OwnTrimNothing ==
    ASSUME Ground, OneForkPoint, PoolShape, w \in Snippets, w \in Block, NEW c \in chainIds
    PROVE  Trimmed(w, c, FALSE) = snippetChains[w]
<1> DEFINE o == snippetChains[w]
           t == o.tailHeight
           b == o.heightBlocks[t + 1]
           D == Differ(w, c, FALSE)
           K == BlockHeight[w]
<1>1. o \in Snippet /\ LinkedSnippet(w, o) /\ OnePlace
  BY DEF Ground, TypeOK, SnippetsLinked, PoolShape
<1>2. /\ t \in Int /\ K \in Int /\ t < K
  BY <1>1, BlockFacts, TreeAssumption DEF Snippet, LinkedSnippet
<1>3. t + 1 \in Height /\ b \in Block /\ BlockHeight[b] = t + 1
  BY <1>1, LowestBlock
<1>4. SnippetHolds(w, b)
  BY <1>3 DEF SnippetHolds, Holds
<1>5. OwnBlock(c, t + 1) # b
  <2> SUFFICES ASSUME OwnBlock(c, t + 1) = b PROVE FALSE
    OBVIOUS
  <2>1. t + 1 \in Int /\ b # Nil
    BY <1>2, <1>3, TreeAssumption
  <2>2. b # Genesis /\ ChainHolds(c, b)
    BY <2>1, OwnReads
  <2> QED
    BY <1>1, <1>3, <1>4, <2>2 DEF OnePlace
<1>6. t + 1 \in D /\ D \subseteq t + 1 .. K
  BY <1>2, <1>5 DEF Differ, Get
<1> HIDE DEF D
<1>7. Min(D) = t + 1
  <2>1. t + 1 \in Int /\ D # {}
    BY <1>2, <1>6
  <2> HIDE DEF t, K, o
  <2>2. Min(D) \in D /\ \A y \in D : Min(D) <= y
    BY <1>2, <1>6, <2>1, MinOfInterval
  <2>3. Min(D) \in t + 1 .. K /\ Min(D) <= t + 1
    BY <1>6, <2>2
  <2> QED
    BY <1>2, <2>3
<1>8. SharedHeight(w, c, FALSE) = t
  <2>1. SharedHeight(w, c, FALSE) = t \/ SharedHeight(w, c, FALSE) = Min(D) - 1
    BY <1>6 DEF SharedHeight, D
  <2>2. Min(D) - 1 = t
    BY <1>2, <1>7
  <2> QED
    BY <2>1, <2>2
<1>9. Trimmed(w, c, FALSE) = CutTo(o, t)
  BY <1>8 DEF Trimmed
<1>10. t <= o.tailHeight
  BY <1>2
<1> QED
  BY <1>9, <1>10 DEF CutTo

\* A head that cannot be found is the one that rollback has in hand.
LEMMA HeadMissing ==
    ASSUME Ground, OneForkPoint, PoolShape, NEW c \in chainIds, HeadBlock(c) = Nil
    PROVE  c = current /\ fork.pc = "removed" /\ chains[c].headHash = fork.block
<1> DEFINE H == chains[c].headHeight
<1>1. /\ GetBlock(c, H) = Nil /\ Read(c, H) = chains[c].headHash
      /\ chains[c].headHash \in Block /\ H \in 0..H
  <2>1. H \in Int /\ 0 <= H
    <3>1. 0 \in Int
      OBVIOUS
    <3>2. /\ chains[c].headHeight \in Int /\ chains[c].tailHeight \in Int
          /\ 0 <= chains[c].tailHeight /\ chains[c].tailHeight <= chains[c].headHeight
      BY <3>1, OwnReads
    <3> QED
      BY <3>2
  <2> QED
    BY <2>1, Complete, HeadPlace DEF HeadBlock
<1>2. fork.block # Nil /\ H = BlockHeight[fork.block] /\ chains[c].headHash = fork.block
  BY <1>1, TreeAssumption DEF Read
<1>3. CASE fork.pc = "removed"
  BY <1>1, <1>2, <1>3, OthersRead
<1>4. CASE fork.pc # "removed"
  <2>1. /\ fork.pc \in {"untailed", "refer", "turn"}
        /\ fork.block = ForkBlock /\ fork.from = current
    BY <1>2, <1>4 DEF PoolShape, HandShape
  <2>2. /\ fork.from # fork.longest /\ fork.longest \in chainIds /\ current \in chainIds
    BY <2>1 DEF Ground, TurnShape, Bookkeeping
  <2>3. H > ForkHeight
    BY <2>1, <2>2, ChainFacts
  <2>4. ForkHeight \in Int /\ H = ForkHeight
    BY <1>2, <2>1, ForkBlockFacts DEF ForkHeight
  <2> QED
    BY <2>3, <2>4
<1> QED
  BY <1>3, <1>4

\* loopAppendChains.
LEMMA ShapeAppend ==
    ASSUME Ground, OneForkPoint, PoolShape, HandFree', AppendChains
    PROVE  PoolShape'
<1>0. ~crashed
  BY DEF AppendChains, AppendNone, AppendStart, AppendNext, AppendDone, AppendInsert,
         AppendSkip, AppendSame, AppendFork, AppendPass, AppendPanic, AppendDiskFork,
         AppendLeave, Visiting, DiskReached
<1>1. /\ OnePlace /\ DiskShape /\ ChainsShape /\ HandShape /\ ForkShape /\ VisitShape
      /\ TypeOK /\ Bookkeeping /\ chainIds \subseteq Block
      /\ snippetChains \in [Block -> Snippet] /\ snippetIds \subseteq Block
  BY DEF PoolShape, Ground, TypeOK
<1>2. CASE AppendNone
  <2>1. /\ pc = "append" /\ pc' = "insert"
        /\ UNCHANGED <<compoundBlocks, snippetIds, snippetChains, chainIds, chains, current,
                       diskChain, fork, crashed>>
    BY <1>2 DEF AppendNone, poolVars
  <2>2. Snippets' = Snippets /\ Live' = Live
    BY <2>1 DEF Snippets, Live
  <2> QED
    BY <1>0, <1>1, <2>1, <2>2, PlacesStay, ChainsStay DEF PoolShape, VisitShape
<1>3. CASE AppendStart
  <2>1. /\ pc = "append" /\ pc' = "forky" /\ tmpChains' \in Orders(chainIds) /\ w' = w
        /\ UNCHANGED <<compoundBlocks, snippetIds, snippetChains, chainIds, chains, current,
                       diskChain, fork, crashed>>
    BY <1>3 DEF AppendStart, poolVars
  <2>2. Snippets' = Snippets /\ Live' = Live /\ w = Nil
    BY <1>1, <2>1 DEF Snippets, Live, Bookkeeping
  <2>3. chainIds \subseteq Range(tmpChains')
    BY <1>1, <2>1, OrdersAll
  <2>4. VisitShape'
    BY <2>1, <2>2, <2>3 DEF VisitShape
  <2> QED
    BY <1>0, <1>1, <2>1, <2>2, <2>4, PlacesStay, ChainsStay DEF PoolShape
<1>4. CASE AppendNext \/ AppendDone
  <2>1. /\ pc = "forky" /\ visit' = 1
        /\ \/ pc' = "forky" /\ tmpChains' = tmpChains
           \/ pc' = "fetch"
        /\ UNCHANGED <<compoundBlocks, snippetIds, snippetChains, chainIds, chains, current,
                       diskChain, fork, crashed>>
    BY <1>4 DEF AppendNext, AppendDone, poolVars
  <2>2. Snippets' = Snippets /\ Live' = Live
    BY <2>1 DEF Snippets, Live
  <2>3. VisitShape'
    <3>1. CASE pc' = "forky" /\ tmpChains' = tmpChains
      <4>1. \A i \in DOMAIN tmpChains : ~(i < 1)
        BY <1>1 DEF TypeOK
      <4> QED
        BY <1>1, <2>1, <3>1, <4>1 DEF VisitShape
    <3>2. CASE pc' = "fetch"
      BY <3>2 DEF VisitShape
    <3> QED
      BY <2>1, <3>1, <3>2
  <2> QED
    BY <1>0, <1>1, <2>1, <2>2, <2>3, PlacesStay, ChainsStay DEF PoolShape
<1>5. ASSUME Visiting
      PROVE  /\ ~crashed /\ pc = "forky" /\ w \in snippetIds /\ w \in Block /\ w \in Snippets
             /\ Visited \in chainIds /\ w # Nil
             /\ snippetChains[w] \in Snippet /\ LinkedSnippet(w, snippetChains[w])
  <2>1. ~crashed /\ pc = "forky" /\ w # Nil /\ visit <= Len(tmpChains)
    BY <1>5 DEF Visiting
  <2>2. Visited \in chainIds
    BY <1>1, <2>1 DEF Visited, Bookkeeping, TypeOK, Range
  <2>3. w \in snippetIds /\ w \in Block /\ w \in Snippets
    BY <1>1, <2>1 DEF Bookkeeping, TypeOK, Snippets
  <2> QED
    BY <1>1, <2>1, <2>2, <2>3 DEF Ground, SnippetsLinked
<1>6. CASE AppendInsert
  <2>1. Visiting /\ InsertSnippet(Visited, snippetChains[w]) /\ AppendFrame
    BY <1>6 DEF AppendInsert
  <2>2. PICK c \in chainIds : c = Visited
    BY <1>5, <2>1
  <2>3. PICK sn \in Snippet : sn = snippetChains[w]
    BY <1>5, <2>1
  <2>4. \A b \in Block : Holds(sn.heightBlocks, b) => SnippetHolds(w, b)
    BY <2>3 DEF SnippetHolds
  <2> QED
    BY <1>5, <2>1, <2>2, <2>3, <2>4, ShapeInsertSnippet
<1>7. CASE AppendSkip
  <2>1. /\ Visiting /\ ~Continues(Visited) /\ visit' = visit + 1
        /\ UNCHANGED <<compoundBlocks, snippetIds, snippetChains, chainIds, chains, current,
                       diskChain, fork, crashed, pc, w, tmpChains>>
    BY <1>7 DEF AppendSkip, AppendFrame, netVars
  <2>2. Snippets' = Snippets /\ Live' = Live
    BY <1>5, <2>1 DEF Snippets, Live
  <2>3. VisitShape'
    <3>1. ASSUME NEW i \in DOMAIN tmpChains, i < visit + 1 PROVE ~Continues(tmpChains[i])
      <4>1. i \in Int /\ visit \in Int
        BY <1>1 DEF TypeOK
      <4>2. CASE i = visit
        BY <2>1, <4>2 DEF Visited
      <4>3. CASE i < visit
        BY <1>1, <1>5, <2>1, <4>3 DEF VisitShape
      <4> QED
        BY <3>1, <4>1, <4>2, <4>3
    <3>2. \A i \in DOMAIN tmpChains : Continues(tmpChains[i])' = Continues(tmpChains[i])
      BY <2>1 DEF Continues
    <3> QED
      BY <1>1, <1>5, <2>1, <3>1, <3>2 DEF VisitShape
  <2> QED
    BY <1>0, <1>1, <2>1, <2>2, <2>3, PlacesStay, ChainsStay DEF PoolShape
<1>8. CASE AppendSame
  <2>1. /\ Visiting /\ ~OutOfReach(Visited) /\ AppendFrame
        /\ InsertSnippet(Visited, CutTo(snippetChains[w], chains[Visited].headHeight))
    BY <1>8 DEF AppendSame
  <2>2. PICK c \in chainIds : c = Visited
    BY <1>5, <2>1
  <2>3. PICK H : H = chains[c].headHeight
    OBVIOUS
  <2>4. H \in -1..MaxHeight /\ H < BlockHeight[w]
    <3>1. H \in Int /\ 0 <= H /\ H <= MaxHeight /\ MaxHeight \in Int
      BY <2>3, OwnReads, TreeAssumption
    <3>2. BlockHeight[w] \in Int /\ ~(BlockHeight[w] <= H)
      BY <1>5, <2>1, <2>2, <2>3, BlockFacts DEF OutOfReach
    <3> QED
      BY <3>1, <3>2
  <2>5. PICK sn \in Snippet : sn = CutTo(snippetChains[w], H)
    BY <1>5, <2>1, <2>4, CutToSnippet
  <2>6. LinkedSnippet(w, sn)
    BY <1>5, <2>1, <2>4, <2>5, CutLinked
  <2>7. \A b \in Block : Holds(sn.heightBlocks, b) => SnippetHolds(w, b)
    BY <1>5, <2>1, <2>5, CutHolds DEF SnippetHolds
  <2>8. InsertSnippet(c, sn)
    BY <2>1, <2>2, <2>3, <2>5
  <2> QED
    BY <1>5, <2>1, <2>6, <2>7, <2>8, ShapeInsertSnippet
<1>9. CASE AppendFork
  BY <1>9, ShapeAppendFork
<1>10. CASE AppendPass
  <2>1. PICK c : c = Visited
    OBVIOUS
  <2>2. /\ Visiting /\ ~Continues(c) /\ crashed' = crashed
        /\ KeepSnippet(Trimmed(w, c, FALSE))
        /\ w' = IF Used(Trimmed(w, c, FALSE)) THEN Nil ELSE w
        /\ visit' = IF Used(Trimmed(w, c, FALSE)) THEN 1 ELSE visit + 1
        /\ UNCHANGED <<compoundBlocks, chainIds, chains, current, diskChain, fork, pc, tmpChains>>
    BY <1>10, <2>1 DEF AppendPass, AppendFrame, netVars
  <2>3. c \in chainIds
    BY <1>5, <2>1, <2>2
  <2>4. Trimmed(w, c, FALSE) = snippetChains[w]
    BY <1>5, <2>2, <2>3, OwnTrimNothing
  <2>5. ~Used(snippetChains[w])
    BY <1>5, <2>2, BlockFacts, TreeAssumption DEF Used, LinkedSnippet, Snippet
  <2>6. /\ UNCHANGED <<snippetIds, snippetChains, w>> /\ visit' = visit + 1
    BY <1>1, <1>5, <2>2, <2>4, <2>5 DEF KeepSnippet
  <2>7. Snippets' = Snippets /\ Live' = Live
    BY <1>5, <2>2, <2>6 DEF Snippets, Live
  <2>8. VisitShape'
    <3>1. ASSUME NEW i \in DOMAIN tmpChains, i < visit + 1 PROVE ~Continues(tmpChains[i])
      <4>1. i \in Int /\ visit \in Int
        BY <1>1 DEF TypeOK
      <4>2. CASE i = visit
        BY <2>1, <2>2, <4>2 DEF Visited
      <4>3. CASE i < visit
        BY <1>1, <1>5, <2>2, <4>3 DEF VisitShape
      <4> QED
        BY <3>1, <4>1, <4>2, <4>3
    <3>2. \A i \in DOMAIN tmpChains : Continues(tmpChains[i])' = Continues(tmpChains[i])
      BY <2>2, <2>6 DEF Continues
    <3> QED
      BY <1>1, <1>5, <2>2, <2>6, <3>1, <3>2 DEF VisitShape
  <2> QED
    BY <1>0, <1>1, <2>2, <2>6, <2>7, <2>8, PlacesStay, ChainsStay DEF PoolShape
<1>13. CASE AppendPanic
  <2>1. PICK c : c = Visited
    OBVIOUS
  <2>2. /\ Visiting /\ HeadBlock(c) = Nil
        /\ UNCHANGED <<compoundBlocks, snippetIds, snippetChains, chainIds, chains, current,
                       diskChain, fork, pc, w, tmpChains, visit, list, headMap>>
    BY <1>13, <2>1 DEF AppendPanic, poolVars, appendVars, genVars
  <2>3. c \in chainIds /\ pc = "forky"
    BY <1>5, <2>1, <2>2
  <2>4. HeadInHand
    BY <2>1, <2>2, <2>3, HeadMissing DEF HeadInHand
  <2>5. HeadInHand'
    BY <2>2, <2>4 DEF HeadInHand, Visited
  <2>6. Snippets' = Snippets /\ Live' = Live
    BY <2>2 DEF Snippets, Live
  <2>7. VisitShape'
    BY <1>1, <2>2 DEF VisitShape, Continues
  <2> QED
    BY <1>1, <2>2, <2>5, <2>6, <2>7, PlacesStay, ChainsStay DEF PoolShape
<1>11. CASE AppendDiskFork
  BY <1>11, ShapeAppendDiskFork
<1>12. CASE AppendLeave
  <2>1. PICK sn : sn = IF BelowDiskHead THEN Trimmed(w, current, TRUE) ELSE snippetChains[w]
    OBVIOUS
  <2>2. /\ pc = "forky" /\ w # Nil /\ KeepSnippet(sn) /\ w' = Nil
        /\ UNCHANGED <<compoundBlocks, chainIds, chains, current, diskChain, fork, crashed,
                       pc, tmpChains>>
    BY <1>12, <2>1 DEF AppendLeave, DiskReached, AppendFrame, netVars
  <2>3. w \in snippetIds /\ w \in Block
    BY <1>1, <2>2 DEF Bookkeeping
  <2>4. \A b \in Block : Holds(sn.heightBlocks, b) => SnippetHolds(w, b)
    BY <1>1, <2>1, <2>3, CutHolds DEF Trimmed, SnippetHolds
  <2>5. /\ snippetIds' \subseteq snippetIds
        /\ \A s \in snippetIds' : \/ snippetChains'[s] = snippetChains[s]
                                  \/ s = w /\ snippetChains'[s] = sn
    <3>1. CASE Used(sn)
      <4>1. /\ snippetIds' = snippetIds \ {w}
            /\ snippetChains' = [snippetChains EXCEPT ![w] = NoSnippet]
        BY <2>2, <3>1 DEF KeepSnippet, DeleteSnippet
      <4>2. \A s \in Block \ {w} : snippetChains'[s] = snippetChains[s]
        BY <1>1, <4>1
      <4> QED
        BY <1>1, <4>1, <4>2
    <3>2. CASE ~Used(sn)
      <4>1. /\ snippetIds' = snippetIds
            /\ snippetChains' = [snippetChains EXCEPT ![w] = sn]
        BY <2>2, <3>2 DEF KeepSnippet
      <4>2. snippetChains'[w] = sn /\ \A s \in Block \ {w} : snippetChains'[s] = snippetChains[s]
        BY <1>1, <2>3, <4>1
      <4> QED
        BY <1>1, <4>1, <4>2
    <3> QED
      BY <3>1, <3>2
  <2>6. Snippets = snippetIds /\ Live = snippetIds /\ Snippets' = snippetIds' /\ Live' = snippetIds'
    BY <2>2 DEF Snippets, Live
  <2>7. \A s \in snippetIds', b \in Block : SnippetHolds(s, b)' => SnippetHolds(s, b)
    BY <2>4, <2>5 DEF SnippetHolds
  <2>8. \A d \in chainIds', b \in Block : ChainHolds(d, b)' => d \in chainIds /\ ChainHolds(d, b)
    BY <2>2 DEF ChainHolds
  <2>9. OnePlace'
    BY <1>1, <2>2, <2>5, <2>6, <2>7, <2>8, PlacesMoved
  <2>10. VisitShape'
    BY <1>1, <2>2 DEF VisitShape
  <2> QED
    BY <1>0, <1>1, <2>2, <2>9, <2>10, ChainsStay DEF PoolShape
<1> QED
  BY <1>2, <1>3, <1>4, <1>6, <1>7, <1>8, <1>9, <1>10, <1>11, <1>12,
     <1>13 DEF AppendChains

-----------------------------------------------------------------------------
(***************************************************************************)
(* Writing to the disk, and rolling it back.                               *)
(***************************************************************************)
\* The shape of a disk d whose head has height n.
DiskRun(d, n) ==
    /\ d.head \in Block /\ BlockHeight[d.head] = n
    /\ d.byHeight[0] = Genesis
    /\ d.byHeight[n] = d.head
    /\ Run(d.byHeight, 1, n, Genesis)
    /\ \A h \in Height : h > n => d.byHeight[h] = Nil
    /\ d.byHash = {d.byHeight[h] : h \in 0..n}

\* writeToChain: blocks leave the bottom of a chain for the top of the disk.
LEMMA StoredShape ==
    ASSUME TypeOK, DiskShape, NEW c \in Block, ChainShape(chains[c], diskChain.head),
           NEW n \in Int, n > chains[c].tailHeight, n <= chains[c].headHeight
    PROVE  LET d == Stored(chains[c].heightBlocks, chains[c].tailHeight + 1, n)
               v == CutTo(chains[c], n)
           IN  /\ DiskRun(d, n) /\ ChainShape(v, d.head)
               /\ v.headHeight = chains[c].headHeight
               /\ v.headHash = chains[c].headHash
               /\ v.referChain = chains[c].referChain
               /\ \A b \in Block : Holds(v.heightBlocks, b) => ChainHolds(c, b)
               /\ \A b \in d.byHash : \/ b \in diskChain.byHash
                                      \/ ChainHolds(c, b) /\ ~Holds(v.heightBlocks, b)
<1> DEFINE ch == chains[c]
           T == ch.tailHeight
           H == ch.headHeight
           m == ch.heightBlocks
           d == Stored(m, T + 1, n)
           v == CutTo(ch, n)
           dm == [h \in Height |-> IF h >= T + 1 /\ h <= n THEN m[h] ELSE diskChain.byHeight[h]]
           vm == [h \in Height |-> IF h > T /\ h <= n THEN Nil ELSE m[h]]
<1>1. ch \in ForkedChain /\ diskChain.head \in Block
  BY DEF TypeOK, DiskShape
<1>2. /\ T \in Int /\ H \in Int /\ MaxHeight \in Nat /\ 0 <= T /\ T <= H /\ H <= MaxHeight
      /\ \A h \in T + 1 .. H : /\ h \in Height /\ m[h] \in Block /\ BlockHeight[m[h]] = h
                               /\ h # T + 1 => PreHash[m[h]] = m[h - 1]
                               /\ h = T + 1 => PreHash[m[h]] = diskChain.head
      /\ \A h \in Height : ~(h \in T + 1 .. H) => m[h] = Nil
  BY <1>1, ShapeReads
<1>3. T = Top
  BY DEF ChainShape, Top
<1>4. /\ diskChain.byHeight[0] = Genesis /\ diskChain.byHeight[T] = diskChain.head
      /\ \A h \in 1..T : /\ diskChain.byHeight[h] \in Block
                         /\ BlockHeight[diskChain.byHeight[h]] = h
                         /\ PreHash[diskChain.byHeight[h]] =
                              IF h = 1 THEN Genesis ELSE diskChain.byHeight[h - 1]
      /\ \A h \in Height : h > T => diskChain.byHeight[h] = Nil
      /\ diskChain.byHash = {diskChain.byHeight[h] : h \in 0..T}
  BY <1>3 DEF DiskShape, Run
<1>5. T < n /\ n <= H /\ n \in T + 1 .. H
  BY <1>2
<1>6. /\ d.head = m[n] /\ d.byHeight = dm
      /\ d.byHash = diskChain.byHash \cup {m[h] : h \in T + 1 .. n}
  BY <1>2, <1>5 DEF Stored
<1>7. /\ v.tailHeight = n /\ v.headHeight = H /\ v.headHash = ch.headHash
      /\ v.referChain = ch.referChain /\ v.heightBlocks = vm
  BY <1>1, <1>2, <1>5 DEF CutTo, ForkedChain
<1>8. /\ H = BlockHeight[ch.headHash]
      /\ m[H] = ch.headHash
  BY <1>2, <1>5 DEF ChainShape
<1> HIDE DEF T, H, m, ch, d, v
<1>9. \A h \in 0..H : h \in Height
  BY <1>2 DEF Height
<1>10. DiskRun(d, n)
  <2>1. dm[0] = Genesis /\ dm[n] = m[n]
    BY <1>2, <1>4, <1>5, <1>9
  <2>2. ASSUME NEW h \in 1..n
        PROVE  /\ dm[h] \in Block /\ BlockHeight[dm[h]] = h
               /\ PreHash[dm[h]] = IF h = 1 THEN Genesis ELSE dm[h - 1]
    <3>1. CASE h <= T
      <4>1. h \in 1..T /\ h \in Height /\ dm[h] = diskChain.byHeight[h]
        BY <1>2, <1>5, <1>9, <3>1
      <4>2. h # 1 => h - 1 \in Height /\ dm[h - 1] = diskChain.byHeight[h - 1]
        BY <1>2, <1>5, <1>9, <3>1
      <4> QED
        BY <1>4, <4>1, <4>2
    <3>2. CASE h = T + 1
      <4>1. h \in T + 1 .. H /\ dm[h] = m[h] /\ PreHash[m[h]] = diskChain.head
        BY <1>2, <1>5, <1>9, <3>2
      <4>2. T \in Height /\ dm[T] = diskChain.head /\ h - 1 = T
        BY <1>2, <1>4, <1>5, <1>9, <3>2
      <4>3. h = 1 => diskChain.head = Genesis
        BY <1>2, <1>4, <3>2
      <4> QED
        BY <1>2, <4>1, <4>2, <4>3
    <3>3. CASE h > T + 1
      <4>1. h \in T + 1 .. H /\ dm[h] = m[h] /\ h # T + 1 /\ h # 1
        BY <1>2, <1>5, <1>9, <3>3
      <4>2. h - 1 \in T + 1 .. H /\ dm[h - 1] = m[h - 1]
        BY <1>2, <1>5, <1>9, <3>3
      <4> QED
        BY <1>2, <4>1, <4>2
    <3> QED
      BY <1>2, <3>1, <3>2, <3>3
  <2>3. \A h \in Height : h > n => dm[h] = Nil
    BY <1>2, <1>4, <1>5 DEF Height
  <2>4. d.byHash = {dm[h] : h \in 0..n}
    <3>1. \A h \in 0..T : h \in 0..n /\ dm[h] = diskChain.byHeight[h]
      BY <1>2, <1>5, <1>9
    <3>2. \A h \in T + 1 .. n : h \in 0..n /\ dm[h] = m[h]
      BY <1>2, <1>5, <1>9
    <3>3. \A h \in 0..n : h \in 0..T \/ h \in T + 1 .. n
      BY <1>2, <1>5
    <3> HIDE DEF dm
    <3> QED
      BY <1>4, <1>6, <3>1, <3>2, <3>3
  <2> HIDE DEF dm
  <2>5. Run(dm, 1, n, Genesis)
    BY <2>2 DEF Run
  <2> QED
    BY <1>2, <1>5, <1>6, <2>1, <2>3, <2>4, <2>5 DEF DiskRun
<1>11. ChainShape(v, d.head)
  <2>1. \A h \in n + 1 .. H : h \in Height /\ vm[h] = m[h] /\ h \in T + 1 .. H /\ h # T + 1
    BY <1>2, <1>5, <1>9
  <2>2. ASSUME NEW h \in n + 1 .. H
        PROVE  /\ vm[h] \in Block /\ BlockHeight[vm[h]] = h
               /\ PreHash[vm[h]] = IF h = n + 1 THEN m[n] ELSE vm[h - 1]
    <3>1. h # n + 1 => h - 1 \in n + 1 .. H
      BY <1>2, <1>5
    <3>2. h = n + 1 => h - 1 = n
      BY <1>5
    <3> QED
      BY <1>2, <2>1, <3>1, <3>2
  <2>3. \A h \in Height : h <= n \/ h > H => vm[h] = Nil
    BY <1>2, <1>5 DEF Height
  <2>4. n # H => vm[H] = m[H]
    BY <1>2, <1>5, <1>9
  <2> HIDE DEF vm
  <2>5. Run(vm, n + 1, H, m[n])
    BY <2>2 DEF Run
  <2>6. n = BlockHeight[m[n]]
    BY <1>2, <1>5
  <2> QED
    BY <1>5, <1>6, <1>7, <1>8, <2>3, <2>4, <2>5, <2>6 DEF ChainShape
<1>12. ASSUME NEW b \in Block, Holds(vm, b) PROVE ChainHolds(c, b)
  <2>1. BlockHeight[b] \in Height /\ b # Nil
    BY TreeAssumption
  <2> QED
    BY <1>12, <2>1 DEF Holds, ChainHolds, m, ch
<1>13. ASSUME NEW h \in T + 1 .. n PROVE ChainHolds(c, m[h]) /\ ~Holds(vm, m[h])
  <2>1. h \in T + 1 .. H /\ h \in Height
    BY <1>2, <1>5, <1>9
  <2>2. m[h] \in Block /\ BlockHeight[m[h]] = h
    BY <1>2, <2>1
  <2>3. vm[h] = Nil
    BY <1>2, <1>5, <2>1
  <2> QED
    BY <2>2, <2>3, TreeAssumption DEF Holds, ChainHolds, m, ch
<1>14. \A b \in d.byHash : b \in diskChain.byHash \/ (ChainHolds(c, b) /\ ~Holds(vm, b))
  BY <1>6, <1>13
<1> HIDE DEF vm, dm
<1> QED
  BY <1>7, <1>10, <1>11, <1>12, <1>14 DEF d, v, T, H, m, ch
\* removeChain: the head leaves the disk.
LEMMA RemovedShape ==
    ASSUME TypeOK, DiskShape, Top > 0
    PROVE  LET d == Removed(diskChain.head)
           IN  /\ DiskRun(d, Top - 1) /\ d.head = PreHash[diskChain.head]
               /\ d.byHash = diskChain.byHash \ {diskChain.head}
<1> DEFINE b == diskChain.head
           k == diskChain.byHeight
           d == Removed(b)
           dm == [k EXCEPT ![Top] = Nil]
           n == Top - 1
<1>1. /\ Top \in Int /\ 0 <= Top /\ Top <= MaxHeight /\ n \in Int
      /\ DiskBlock(0) = Genesis /\ DiskBlock(Top) = b
      /\ \A h \in 0..Top : /\ DiskBlock(h) \in Block
                           /\ BlockHeight[DiskBlock(h)] = h
                           /\ DiskBlock(h) \in diskChain.byHash
                           /\ h # 0 => PreHash[DiskBlock(h)] = DiskBlock(h - 1)
  BY DiskReads
<1>2. /\ b \in Block /\ BlockHeight[b] = Top /\ k \in [Height -> HashOrNil]
      /\ \A h \in Height : h > Top => k[h] = Nil
      /\ diskChain.byHash = {k[h] : h \in 0..Top}
  BY DEF DiskShape, Top, TypeOK, DiskChain
<1>3. /\ \A h \in 0..Top : h \in Height /\ k[h] = DiskBlock(h)
      /\ Top \in 0..Top /\ n \in 0..Top
  BY <1>1, TreeAssumption DEF Height, DiskBlock
<1>4. PreHash[b] = k[n] /\ k[n] \in diskChain.byHash /\ k[n] \in Block /\ BlockHeight[k[n]] = n
  BY <1>1, <1>3
<1>5. d.head = k[n] /\ d.byHeight = dm /\ d.byHash = diskChain.byHash \ {b}
  BY <1>2, <1>4 DEF Removed
<1>6. \A h \in Height : dm[h] = IF h = Top THEN Nil ELSE k[h]
  BY <1>2, <1>3
<1> HIDE DEF k, b, dm
<1>7. \A h \in 0..n : h \in 0..Top /\ h \in Height /\ h # Top /\ dm[h] = k[h]
  BY <1>1, <1>3, <1>6
<1>8. dm[0] = Genesis /\ dm[n] = k[n] /\ 0 \in 0..n
  BY <1>1, <1>3, <1>7
<1>9. Run(dm, 1, n, Genesis)
  <2> SUFFICES ASSUME NEW h \in 1..n
               PROVE  /\ dm[h] \in Block /\ BlockHeight[dm[h]] = h
                      /\ PreHash[dm[h]] = IF h = 1 THEN Genesis ELSE dm[h - 1]
    BY DEF Run
  <2>1. h \in 0..n /\ h - 1 \in 0..n /\ h # 0
    BY <1>1
  <2>2. dm[h] = DiskBlock(h) /\ dm[h - 1] = DiskBlock(h - 1) /\ h \in 0..Top
    BY <1>3, <1>7, <2>1
  <2>3. h = 1 => h - 1 = 0
    OBVIOUS
  <2> QED
    BY <1>1, <1>8, <2>1, <2>2, <2>3
<1>10. \A h \in Height : h > n => dm[h] = Nil
  <2>1. \A h \in Height : h > n => h = Top \/ h > Top
    BY <1>1 DEF Height
  <2> QED
    BY <1>2, <1>6, <2>1
<1>11. d.byHash = {dm[h] : h \in 0..n}
  <2>1. \A h \in 0..n : k[h] # b
    <3>1. \A h \in 0..n : BlockHeight[k[h]] = h /\ h # Top
      BY <1>1, <1>3, <1>7
    <3> QED
      BY <1>2, <3>1
  <2>2. \A h \in 0..Top : h = Top \/ h \in 0..n
    BY <1>1
  <2>3. k[Top] = b
    BY <1>1, <1>3
  <2> QED
    BY <1>2, <1>5, <1>7, <2>1, <2>2, <2>3
<1> QED
  BY <1>4, <1>5, <1>8, <1>9, <1>10, <1>11 DEF DiskRun, b

\* A disk of this shape.
LEMMA DiskMoves ==
    ASSUME NEW n, DiskRun(diskChain', n)
    PROVE  DiskShape' /\ Top' = n
<1>1. Top' = n
  BY DEF Top, DiskRun
<1> QED
  BY <1>1 DEF DiskShape, DiskRun

\* The base chain moves together with what it continues.
LEMMA BaseMoves ==
    ASSUME Ground, OneForkPoint, PoolShape, Base = current, NEW v,
           ~LastTurn, ~LastTurn', ChainShape(v, Seat'),
           v.headHeight = chains[current].headHeight,
           v.referChain = chains[current].referChain,
           chains' = [chains EXCEPT ![current] = v],
           UNCHANGED <<chainIds, current>>
    PROVE  ChainsShape' /\ Base' = current
<1>1. /\ ChainsShape /\ chainIds \subseteq Block /\ current \in chainIds
      /\ chains \in [Block -> ForkedChain] /\ chains[current].referChain = Disk
  BY ChainFacts DEF PoolShape, Ground, TypeOK
<1>2. chains'[current] = v /\ \A d \in chainIds \ {current} : chains'[d] = chains[d]
  BY <1>1
<1>3. Base' = current
  BY <1>1, <1>2 DEF Base
<1>4. \A d \in chainIds : /\ chains'[d].referChain = chains[d].referChain
                          /\ chains'[d].headHeight = chains[d].headHeight
  BY <1>1, <1>2
<1>5. \A d \in chainIds \ {current} : ChainShape(chains'[d], ForkBlock)
  BY <1>1, <1>2 DEF ChainsShape
<1>6. \A d \in chainIds : chains'[d].referChain = Disk <=> d = current
  BY <1>1, <1>4 DEF ChainsShape
<1>7. \A d, e \in chainIds : d # e => chains'[d].headHeight > ForkHeight
  BY <1>1, <1>4 DEF ChainsShape
<1>8. ChainsShape'
  BY <1>2, <1>3, <1>5, <1>6, <1>7 DEF ChainsShape
<1> QED
  BY <1>3, <1>8


\* loopFetchForSnippets and loopCheckCurrentInsert.
LEMMA ShapeInsert ==
    ASSUME Ground, OneForkPoint, PoolShape, HandFree', Fetch \/ Insert
    PROVE  PoolShape'
<1>1. /\ OnePlace /\ DiskShape /\ ChainsShape /\ HandShape /\ ForkShape /\ VisitShape
      /\ TypeOK /\ Bookkeeping /\ chainIds \subseteq Block
      /\ current \in chainIds /\ chains \in [Block -> ForkedChain]
  BY DEF PoolShape, Ground, TypeOK, Bookkeeping
<1>2. CASE Fetch \/ NothingToInsert
  <2>1. /\ ~crashed /\ pc \in {"fetch", "insert"} /\ pc' \in {"insert", "gen"}
        /\ UNCHANGED <<compoundBlocks, snippetIds, snippetChains, chainIds, chains, current,
                       diskChain, fork, crashed>>
    BY <1>2 DEF Fetch, NothingToInsert, poolVars
  <2>2. Snippets' = Snippets /\ Live' = Live
    BY <2>1 DEF Snippets, Live
  <2> QED
    BY <1>1, <2>1, <2>2, PlacesStay, ChainsStay DEF PoolShape, VisitShape
<1>3. ASSUME NEW n \in -1..MaxHeight, NEW m \in -1..MaxHeight, TryInsert(n, m)
      PROVE  PoolShape'
  <2>1. PICK c \in chainIds : c = current
    BY <1>1
  <2>2. ~PointErrors
    BY DEF OneForkPoint
  <2>3. /\ ~crashed /\ pc = "insert" /\ ~WriteLocked /\ m = n
        /\ n \in chains[c].tailHeight .. chains[c].headHeight
        /\ diskChain' = Stored(chains[c].heightBlocks, chains[c].tailHeight + 1, n)
        /\ chains' = [chains EXCEPT ![c] = CutTo(chains[c], n)]
        /\ pc' = "gen"
        /\ crashed' = (n < chains[c].headHeight /\ chains[c].heightBlocks[n + 1] = Nil)
        /\ UNCHANGED <<compoundBlocks, snippetIds, snippetChains, chainIds, current, fork>>
    BY <1>3, <2>1, <2>2 DEF TryInsert, netVars
  <2>4. VisitShape'
    BY <2>3 DEF VisitShape
  <2>5. Snippets' = Snippets /\ Live' = Live
    BY <2>3 DEF Snippets, Live
  <2>6. Base = current
    BY <1>1, <2>3 DEF ForkShape, WriteLocked
  <2>10. ~InHand /\ ~LastTurn /\ ~InHand' /\ ~LastTurn' /\ fork.block = Nil
    BY <1>1, <2>3 DEF InHand, LastTurn, WriteLocked, HandShape
  <2>7. /\ chains[c].tailHeight \in Int /\ chains[c].headHeight \in Int
        /\ ChainShape(chains[c], diskChain.head)
    BY <2>1, <2>6, <2>10, OwnReads, ChainFacts DEF Foot, Seat
  <2>11. ~crashed'
    <3> SUFFICES ASSUME n < chains[c].headHeight PROVE chains[c].heightBlocks[n + 1] # Nil
      BY <2>3
    <3>1. n + 1 > chains[c].tailHeight /\ n + 1 <= chains[c].headHeight /\ n + 1 \in Int
      BY <2>3, <2>7
    <3>2. chains[c].heightBlocks[n + 1] \in Block
      BY <3>1, OwnReads
    <3> QED
      BY <3>2, TreeAssumption
  <2>8. CASE n = chains[c].tailHeight
    <3>1. chains[c].tailHeight < chains[c].tailHeight + 1
      BY <2>7
    <3>2. diskChain' = diskChain
      BY <2>3, <2>8, <3>1 DEF Stored
    <3>3. CutTo(chains[c], n) = chains[c]
      BY <2>7, <2>8 DEF CutTo
    <3>4. chains' = chains
      BY <1>1, <2>3, <3>3
    <3> QED
      BY <1>1, <2>3, <2>4, <2>5, <2>11, <3>2, <3>4, PlacesStay, ChainsStay DEF PoolShape
  <2>9. CASE n # chains[c].tailHeight
    <3>1. n \in Int /\ n > chains[c].tailHeight /\ n <= chains[c].headHeight /\ c \in Block
      BY <1>1, <2>3, <2>7, <2>9
    <3>2. PICK v : v = CutTo(chains[c], n)
      OBVIOUS
    <3>3. /\ DiskRun(diskChain', n) /\ ChainShape(v, diskChain'.head)
          /\ v.headHeight = chains[c].headHeight
          /\ v.referChain = chains[c].referChain
          /\ \A b \in Block : Holds(v.heightBlocks, b) => ChainHolds(c, b)
          /\ \A b \in diskChain'.byHash : \/ b \in diskChain.byHash
                                          \/ ChainHolds(c, b) /\ ~Holds(v.heightBlocks, b)
      BY <1>1, <2>3, <2>7, <3>1, <3>2, StoredShape
    <3>4. DiskShape' /\ ChainsShape' /\ Base' = current
      <4>1. DiskShape'
        BY <3>3, DiskMoves
      <4>2. ChainShape(v, Seat')
        BY <2>10, <3>3 DEF Seat
      <4> QED
        BY <2>1, <2>3, <2>6, <2>10, <3>2, <3>3, <4>1, <4>2, BaseMoves
    <3>5. ForkShape'
      <4>1. WriteLocked' = WriteLocked
        BY <2>3 DEF WriteLocked
      <4> QED
        BY <1>1, <2>3, <2>6, <2>11, <3>4, <4>1 DEF ForkShape, WriteLocked
    <3>14. HandShape'
      BY <1>1, <2>3, <2>10 DEF HandShape
    <3>6. chains'[c] = v /\ \A d \in chainIds \ {c} : chains'[d] = chains[d]
      BY <1>1, <2>3, <3>2
    <3>7. \A s \in Snippets', b \in Block : SnippetHolds(s, b)' <=> SnippetHolds(s, b)
      BY <2>3 DEF SnippetHolds
    <3>8. \A d \in chainIds \ {c}, b \in Block : ChainHolds(d, b)' <=> ChainHolds(d, b)
      BY <3>6 DEF ChainHolds
    <3>9. \A b \in Block : ChainHolds(c, b)' <=> Holds(v.heightBlocks, b)
      BY <3>6 DEF ChainHolds
    <3>10. ASSUME NEW b \in Block \ {Genesis}, b \in diskChain'.byHash, b \notin diskChain.byHash
           PROVE  /\ b \in compoundBlocks
                  /\ \A s \in Snippets' : ~SnippetHolds(s, b)'
                  /\ \A d \in chainIds' : ~ChainHolds(d, b)'
      <4>1. ChainHolds(c, b) /\ ~Holds(v.heightBlocks, b)
        BY <3>3, <3>10
      <4>2. /\ b \in compoundBlocks
            /\ \A d \in chainIds \ {c} : ~ChainHolds(d, b)
            /\ \A s \in Snippets : ~SnippetHolds(s, b)
        BY <1>1, <4>1 DEF OnePlace
      <4> QED
        BY <2>3, <2>5, <3>7, <3>8, <3>9, <4>1, <4>2
    <3>11. \A d \in chainIds', b \in Block : ChainHolds(d, b)' => d \in chainIds /\ ChainHolds(d, b)
      BY <2>3, <3>3, <3>8, <3>9
    <3>12. \A s \in Snippets' \cup Live', b \in Block : SnippetHolds(s, b)' => SnippetHolds(s, b)
      BY <2>3 DEF SnippetHolds
    <3>13. OnePlace'
      BY <1>1, <2>3, <2>5, <3>10, <3>11, <3>12, PlacesMoved
    <3> QED
      BY <2>4, <3>4, <3>5, <3>13, <3>14 DEF PoolShape
  <2> QED
    BY <2>8, <2>9
<1> QED
  BY <1>2, <1>3 DEF Insert

-----------------------------------------------------------------------------
(***************************************************************************)
(* The switch to another chain.                                            *)
(***************************************************************************)
\* The node starts with genesis on disk and one chain, empty, on top of it.
LEMMA ShapeInit ==
    ASSUME Init, OneForkPoint
    PROVE  PoolShape
<1>1. /\ Genesis \in Block /\ BlockHeight[Genesis] = 0 /\ Nil \notin Block
      /\ MaxHeight \in Nat /\ 0 \in Height
      /\ \A b \in Block : BlockHeight[b] \in Height
  BY TreeAssumption DEF Height
<1>2. /\ compoundBlocks = {} /\ chainIds = {Genesis} /\ current = Genesis
      /\ snippetIds = {} /\ pc = "gen" /\ crashed = FALSE
      /\ fork.pc = "idle" /\ fork.longest = Genesis /\ fork.block = Nil
      /\ diskChain.head = Genesis
      /\ diskChain.byHeight = [NoBlocks EXCEPT ![0] = Genesis]
      /\ diskChain.byHash = {Genesis}
  BY DEF Init, NoFork
<1>3. chains[Genesis] = [tailHeight |-> 0, tailHash |-> Genesis, headHeight |-> 0,
                         headHash |-> Genesis, heightBlocks |-> NoBlocks,
                         referChain |-> Disk]
  BY <1>1 DEF Init, NoChain, NewChain
<1>4. /\ diskChain.byHeight[0] = Genesis
      /\ \A h \in Height : h # 0 => diskChain.byHeight[h] = Nil
  BY <1>1, <1>2 DEF NoBlocks
<1>5. ~LastTurn /\ ~InHand /\ Base = Genesis /\ Seat = Genesis
  BY <1>2, <1>3 DEF LastTurn, InHand, Base, Seat
<1>6. Top = 0
  BY <1>1, <1>2 DEF Top
<1>7. OnePlace
  <2>1. Snippets = {} /\ Live = {}
    BY <1>2 DEF Snippets, Live
  <2>2. \A b \in Block : ~ChainHolds(Genesis, b)
    BY <1>1, <1>3 DEF ChainHolds, Holds, NoBlocks
  <2> QED
    BY <1>2, <2>1, <2>2 DEF OnePlace
<1>8. DiskShape
  <2>1. diskChain.byHash = {diskChain.byHeight[h] : h \in 0..0}
    BY <1>2, <1>4
  <2>2. \A h \in Height : h > 0 => h # 0
    BY DEF Height
  <2>3. Run(diskChain.byHeight, 1, 0, Genesis)
    BY DEF Run
  <2> QED
    BY <1>1, <1>2, <1>4, <1>6, <2>1, <2>2, <2>3 DEF DiskShape
<1>9. ChainsShape
  <2>1. Run(NoBlocks, 0 + 1, 0, Genesis)
    BY DEF Run
  <2>2. ChainShape(chains[Genesis], Genesis)
    BY <1>1, <1>3, <2>1 DEF ChainShape, NoBlocks
  <2> QED
    BY <1>2, <1>3, <1>5, <2>2 DEF ChainsShape
<1>10. ForkShape /\ VisitShape /\ HandShape /\ HandFree
  BY <1>2, <1>5 DEF ForkShape, VisitShape, WriteLocked, HandShape, HandFree
<1> QED
  BY <1>7, <1>8, <1>9, <1>10 DEF PoolShape

\* What forky knows depends on the heads of chains only.
LEMMA VisitStays ==
    ASSUME Bookkeeping, VisitShape,
           \A c \in chainIds : /\ chains'[c].headHeight = chains[c].headHeight
                               /\ chains'[c].headHash = chains[c].headHash,
           UNCHANGED <<chainIds, snippetChains, pc, w, tmpChains, visit>>
    PROVE  VisitShape'
<1>1. \A i \in DOMAIN tmpChains : tmpChains[i] \in chainIds
  BY DEF Bookkeeping, Range
<1>2. \A i \in DOMAIN tmpChains : Continues(tmpChains[i])' = Continues(tmpChains[i])
  BY <1>1 DEF Continues
<1> QED
  BY <1>2 DEF VisitShape


\* loop() puts no block anywhere that was compounded before and was nowhere.
Somewhere(b) == \/ \E s \in Snippets : SnippetHolds(s, b)
                \/ \E c \in chainIds : ChainHolds(c, b)

LEMMA HandKept ==
    ASSUME TypeOK, HandFree, fork' = fork, compoundBlocks \subseteq compoundBlocks',
           diskChain' = diskChain,
           \A b \in compoundBlocks : Somewhere(b)' => Somewhere(b)
    PROVE  HandFree'
BY DEF HandFree, InHand, Somewhere

\* The chains stay and the snippets hold no more than they did.
LEMMA HandSnippets ==
    ASSUME TypeOK, HandFree, fork' = fork, compoundBlocks \subseteq compoundBlocks',
           \A b \in compoundBlocks, s \in Snippets' :
               SnippetHolds(s, b)' => \E t \in Snippets : SnippetHolds(t, b),
           UNCHANGED <<chainIds, chains, diskChain>>
    PROVE  HandFree'
<1>1. \A b \in compoundBlocks, c \in chainIds' : ChainHolds(c, b)' => c \in chainIds /\ ChainHolds(c, b)
  BY DEF ChainHolds
<1>2. \A b \in compoundBlocks : Somewhere(b)' => Somewhere(b)
  BY <1>1 DEF Somewhere
<1> QED
  BY <1>2, HandKept

LEMMA HandSame ==
    ASSUME TypeOK, HandFree, Snippets' \subseteq Snippets,
           UNCHANGED <<compoundBlocks, snippetChains, chainIds, chains, diskChain, fork>>
    PROVE  HandFree'
<1>1. \A b \in compoundBlocks, s \in Snippets' : SnippetHolds(s, b)' => s \in Snippets /\ SnippetHolds(s, b)
  BY DEF SnippetHolds
<1> QED
  BY <1>1, HandSnippets

LEMMA HandGen ==
    ASSUME Ground, HandFree, Gen
    PROVE  HandFree'
<1>1. TypeOK /\ Bookkeeping
  BY DEF Ground
<1>2. CASE GenStart
  <2>1. /\ pc = "gen" /\ pc' = "compound" /\ list' \in Orders(snippetIds)
        /\ UNCHANGED <<compoundBlocks, snippetIds, snippetChains, chainIds, chains,
                       diskChain, fork>>
    BY <1>2 DEF GenStart, poolVars
  <2>2. Snippets = snippetIds /\ Snippets' = Range(list')
    BY <2>1 DEF Snippets
  <2>3. Range(list') \subseteq snippetIds
    BY <1>1, <2>1, OrdersType DEF TypeOK
  <2> QED
    BY <1>1, <2>1, <2>2, <2>3, HandSame
<1>3. ASSUME NEW b \in Block, GenAddTail(b) \/ GenDrop(b) \/ GenNewSnippet(b)
      PROVE  HandFree'
  <2>1. /\ pc = "compound" /\ pc' = pc /\ b \in pending
        /\ compoundBlocks' = compoundBlocks \cup {b}
        /\ UNCHANGED <<chainIds, chains, diskChain, fork>>
    BY <1>3 DEF GenAddTail, GenDrop, GenNewSnippet, Compound
  <2>2. Snippets = Range(list) /\ Snippets' = Range(list')
    BY <2>1 DEF Snippets
  <2>3. /\ snippetChains \in [Block -> Snippet] /\ list \in Seq(Block)
        /\ Range(list) \subseteq Block /\ compoundBlocks \subseteq Block
    BY <1>1 DEF TypeOK, Range
  <2>4. b \notin compoundBlocks
    BY <1>1, <2>1 DEF Bookkeeping
  <2>5. CASE GenAddTail(b)
    <3>1. PICK x : x = FirstHit(b)
      OBVIOUS
    <3>2. Hits(b) # {} /\ snippetChains' = [snippetChains EXCEPT ![x] = AddTail(@, b)] /\ list' = list
      BY <2>5, <3>1 DEF GenAddTail
    <3>3. x \in Range(list) /\ x \in Block
      BY <1>1, <2>3, <3>1, <3>2, FirstHitInList
    <3>4. snippetChains'[x].heightBlocks = [snippetChains[x].heightBlocks EXCEPT ![BlockHeight[b]] = b]
      BY <2>3, <3>2, <3>3 DEF AddTail, Snippet
    <3>5. snippetChains[x].heightBlocks \in [Height -> HashOrNil] /\ \A a \in Block : BlockHeight[a] \in Height
      BY <2>3, <3>3, TreeAssumption DEF Snippet
    <3>6. ASSUME NEW a \in compoundBlocks, SnippetHolds(x, a)' PROVE SnippetHolds(x, a)
      <4>1. snippetChains'[x].heightBlocks[BlockHeight[a]] = a
        BY <3>6 DEF SnippetHolds, Holds
      <4> QED
        BY <2>3, <2>4, <3>4, <3>5, <4>1 DEF SnippetHolds, Holds
    <3>7. \A a \in compoundBlocks, s \in Snippets' \ {x} : SnippetHolds(s, a)' => SnippetHolds(s, a)
      BY <2>2, <2>3, <3>2 DEF SnippetHolds
    <3>8. \A a \in compoundBlocks, s \in Snippets' : SnippetHolds(s, a)' => \E t \in Snippets : SnippetHolds(t, a)
      BY <2>2, <3>2, <3>6, <3>7
    <3> QED
      BY <1>1, <2>1, <3>8, HandSnippets
  <2>6. CASE GenDrop(b)
    <3>1. snippetChains' = snippetChains /\ list' = list
      BY <2>6 DEF GenDrop
    <3>2. \A a \in compoundBlocks, s \in Snippets' : SnippetHolds(s, a)' => \E t \in Snippets : SnippetHolds(t, a)
      BY <2>2, <3>1 DEF SnippetHolds
    <3> QED
      BY <1>1, <2>1, <3>2, HandSnippets
  <2>7. CASE GenNewSnippet(b)
    <3>1. snippetChains' = [snippetChains EXCEPT ![b] = NewSnippet(b)] /\ list' = Append(list, b)
      BY <2>7 DEF GenNewSnippet
    <3>2. Snippets' \subseteq Snippets \cup {b}
      BY <2>2, <2>3, <3>1, RangeAppend
    <3>3. snippetChains'[b].heightBlocks = [NoBlocks EXCEPT ![BlockHeight[b]] = b]
      BY <2>3, <3>1 DEF NewSnippet
    <3>4. \A a \in Block : BlockHeight[a] \in Height /\ a # Nil
      BY TreeAssumption
    <3>5. ASSUME NEW a \in compoundBlocks, SnippetHolds(b, a)' PROVE FALSE
      <4>1. snippetChains'[b].heightBlocks[BlockHeight[a]] = a /\ a \in Block /\ a # b
        BY <2>3, <2>4, <3>5 DEF SnippetHolds, Holds
      <4> QED
        BY <3>3, <3>4, <4>1 DEF NoBlocks
    <3>6. \A s \in Snippets' \ {b} : snippetChains'[s] = snippetChains[s]
      BY <2>2, <2>3, <3>1, <3>2
    <3>7. \A a \in compoundBlocks, s \in Snippets' : SnippetHolds(s, a)' => \E t \in Snippets : SnippetHolds(t, a)
      BY <3>2, <3>5, <3>6 DEF SnippetHolds
    <3> QED
      BY <1>1, <2>1, <3>7, HandSnippets
  <2> QED
    BY <1>3, <2>5, <2>6, <2>7
<1>4. CASE GenSplit \/ GenMerged
  <2>1. /\ pc \in {"compound", "merge"} /\ pc' = "merge" /\ list' = list
        /\ UNCHANGED <<compoundBlocks, snippetChains, chainIds, chains, diskChain, fork>>
    BY <1>4 DEF GenSplit, GenMerged, poolVars
  <2>2. Snippets' = Snippets
    BY <2>1 DEF Snippets
  <2> QED
    BY <1>1, <2>1, <2>2, HandSame
<1>5. CASE GenMerge
  <2>1. PICK s, oc : s = list[next] /\ oc = snippetChains[s].tailHash
    OBVIOUS
  <2>2. /\ pc = "merge" /\ pc' = pc /\ next <= Len(list) /\ oc \in headMap /\ list' = list
        /\ snippetChains' = [snippetChains EXCEPT ![s] = Merge(@, snippetChains[oc])]
        /\ UNCHANGED <<compoundBlocks, chainIds, chains, diskChain, fork>>
    BY <1>5, <2>1 DEF GenMerge, BelowInMap, netVars
  <2>3. /\ snippetChains \in [Block -> Snippet] /\ list \in Seq(Block)
        /\ Range(list) \subseteq Block /\ headMap \subseteq Range(list)
        /\ next \in 1..Len(list) /\ compoundBlocks \subseteq Block
    BY <1>1, <2>2 DEF TypeOK, Range, Bookkeeping
  <2>4. s \in Range(list) /\ s \in Block /\ oc \in Range(list) /\ oc \in Block
    BY <2>1, <2>2, <2>3 DEF Range
  <2>5. Snippets = Range(list) /\ Snippets' = Range(list)
    BY <2>2 DEF Snippets
  <2>6. \A t \in Snippets \ {s}, b \in Block : SnippetHolds(t, b)' <=> SnippetHolds(t, b)
    BY <2>2, <2>3, <2>5 DEF SnippetHolds
  <2>7. ASSUME NEW b \in Block, SnippetHolds(s, b)'
        PROVE  SnippetHolds(s, b) \/ SnippetHolds(oc, b)
    <3>1. snippetChains'[s] = Merge(snippetChains[s], snippetChains[oc]) /\ BlockHeight[b] \in Height
      BY <2>2, <2>3, <2>4, TreeAssumption
    <3>2. \/ snippetChains'[s].heightBlocks[BlockHeight[b]] = snippetChains[oc].heightBlocks[BlockHeight[b]]
          \/ snippetChains'[s].heightBlocks[BlockHeight[b]] = snippetChains[s].heightBlocks[BlockHeight[b]]
      BY <3>1 DEF Merge
    <3> QED
      BY <2>7, <3>2 DEF SnippetHolds, Holds
  <2>8. \A a \in compoundBlocks, t \in Snippets' : SnippetHolds(t, a)' => \E u \in Snippets : SnippetHolds(u, a)
    BY <2>3, <2>4, <2>5, <2>6, <2>7
  <2> QED
    BY <1>1, <2>2, <2>8, HandSnippets
<1>6. CASE GenDone
  <2>1. /\ pc = "merge" /\ pc' = "append" /\ snippetIds' = headMap
        /\ snippetChains' = [b \in Block |-> IF b \in headMap THEN snippetChains[b]
                                                              ELSE NoSnippet]
        /\ UNCHANGED <<compoundBlocks, chainIds, chains, diskChain, fork>>
    BY <1>6 DEF GenDone, netVars
  <2>2. headMap \subseteq Range(list) /\ headMap \subseteq Block
    BY <1>1 DEF Bookkeeping, TypeOK
  <2>3. Snippets = Range(list) /\ Snippets' = headMap
    BY <2>1 DEF Snippets
  <2>4. \A s \in headMap, b \in compoundBlocks : SnippetHolds(s, b)' => SnippetHolds(s, b)
    BY <2>1, <2>2 DEF SnippetHolds
  <2> QED
    BY <1>1, <2>1, <2>2, <2>3, <2>4, HandSnippets
<1> QED
  BY <1>2, <1>3, <1>4, <1>5, <1>6 DEF Gen

\* What insertSnippet and forkChain put into a chain comes out of the snippet.
LEMMA HandAttach ==
    ASSUME Ground, HandFree, pc = "forky", w \in snippetIds,
           NEW c \in chainIds, NEW sn \in Snippet, LinkedSnippet(w, sn),
           \A b \in Block : Holds(sn.heightBlocks, b) => SnippetHolds(w, b),
           InsertSnippet(c, sn) \/ ForkChain(c, sn), AppendFrame
    PROVE  HandFree'
<1>1. /\ TypeOK /\ c \in Block /\ w \in Block /\ snippetIds \subseteq Block
      /\ snippetChains \in [Block -> Snippet] /\ chains \in [Block -> ForkedChain]
      /\ chainIds \subseteq Block /\ compoundBlocks \subseteq Block
  BY DEF Ground, TypeOK
<1>2. UNCHANGED <<compoundBlocks, diskChain, pc, fork>>
  BY DEF AppendFrame, netVars
<1>3. Snippets = snippetIds /\ Snippets' = snippetIds'
  BY <1>2 DEF Snippets
<1>4. PICK x : x = w
  OBVIOUS
<1>5. snippetIds' \subseteq snippetIds /\ \A s \in snippetIds' :
         snippetChains'[s] = snippetChains[s] \/ (s = x /\ snippetChains'[s] = sn)
  BY <1>1, <1>4 DEF InsertSnippet, ForkChain, DeleteSnippet
<1>6. \A b \in Block, s \in Snippets' : SnippetHolds(s, b)' => s \in Snippets /\ SnippetHolds(s, b)
  BY <1>3, <1>4, <1>5 DEF SnippetHolds
<1>7. ASSUME NEW d \in chainIds', NEW b \in Block, ChainHolds(d, b)'
      PROVE  (d \in chainIds /\ ChainHolds(d, b)) \/ SnippetHolds(x, b)
  <2>1. CASE chainIds' = chainIds /\ chains' = chains
    BY <1>7, <2>1 DEF ChainHolds
  <2>2. CASE chainIds' = chainIds /\ chains' = [chains EXCEPT ![c] = Extended(c, w, sn)]
    <3>1. chains'[c].heightBlocks =
             [h \in Height |-> IF h > sn.tailHeight /\ h <= BlockHeight[w] THEN sn.heightBlocks[h]
                               ELSE chains[c].heightBlocks[h]]
      BY <1>1, <2>2 DEF Extended, ForkedChain
    <3>2. BlockHeight[b] \in Height
      BY TreeAssumption
    <3>3. CASE d = c
      <4>1. \/ chains'[c].heightBlocks[BlockHeight[b]] = sn.heightBlocks[BlockHeight[b]]
            \/ chains'[c].heightBlocks[BlockHeight[b]] = chains[c].heightBlocks[BlockHeight[b]]
        BY <3>1, <3>2
      <4> QED
        BY <1>4, <1>7, <3>3, <4>1 DEF ChainHolds, Holds
    <3>4. CASE d # c
      BY <1>1, <1>7, <2>2, <3>4 DEF ChainHolds
    <3> QED
      BY <3>3, <3>4
  <2>3. CASE chainIds' = chainIds \cup {w} /\ chains' = [chains EXCEPT ![w] = ForkOf(w, sn, c)]
    <3>1. chains'[w].heightBlocks = sn.heightBlocks
      BY <1>1, <2>3 DEF ForkOf
    <3>2. CASE d = x
      BY <1>4, <1>7, <3>1, <3>2 DEF ChainHolds
    <3>3. CASE d # x
      BY <1>1, <1>4, <1>7, <2>3, <3>3 DEF ChainHolds
    <3> QED
      BY <3>2, <3>3
  <2> QED
    BY <2>1, <2>2, <2>3 DEF InsertSnippet, ForkChain
<1>8. \A b \in compoundBlocks : Somewhere(b)' => Somewhere(b)
  BY <1>1, <1>3, <1>4, <1>6, <1>7 DEF Somewhere
<1> QED
  BY <1>1, <1>2, <1>8, HandKept

LEMMA HandAppend ==
    ASSUME Ground, OneForkPoint, PoolShape, AppendChains
    PROVE  HandFree'
<1>1. /\ HandFree /\ TypeOK /\ Bookkeeping /\ chainIds \subseteq Block
      /\ snippetChains \in [Block -> Snippet] /\ snippetIds \subseteq Block
      /\ compoundBlocks \subseteq Block
  BY DEF PoolShape, Ground, TypeOK
<1>2. CASE AppendNone \/ AppendStart \/ AppendNext \/ AppendDone \/ AppendSkip \/ AppendPanic
  <2>1. /\ pc \in {"append", "forky"} /\ pc' \in {"insert", "forky", "fetch"}
        /\ UNCHANGED <<compoundBlocks, snippetIds, snippetChains, chainIds, chains,
                       diskChain, fork>>
    BY <1>2 DEF AppendNone, AppendStart, AppendNext, AppendDone, AppendSkip, AppendPanic,
                Visiting, AppendFrame, poolVars, netVars
  <2>2. Snippets' = Snippets
    BY <2>1 DEF Snippets
  <2> QED
    BY <1>1, <2>1, <2>2, HandSame
<1>3. ASSUME Visiting
      PROVE  /\ pc = "forky" /\ w \in snippetIds /\ w \in Block /\ w \in Snippets
             /\ Visited \in chainIds
             /\ snippetChains[w] \in Snippet /\ LinkedSnippet(w, snippetChains[w])
  <2>1. pc = "forky" /\ w # Nil /\ visit <= Len(tmpChains)
    BY <1>3 DEF Visiting
  <2>2. Visited \in chainIds
    BY <1>1, <2>1 DEF Visited, Bookkeeping, TypeOK, Range
  <2>3. w \in snippetIds /\ w \in Block /\ w \in Snippets
    BY <1>1, <2>1 DEF Bookkeeping, TypeOK, Snippets
  <2> QED
    BY <1>1, <2>1, <2>2, <2>3 DEF Ground, SnippetsLinked
<1>4. CASE AppendInsert
  <2>1. Visiting /\ InsertSnippet(Visited, snippetChains[w]) /\ AppendFrame
    BY <1>4 DEF AppendInsert
  <2>2. PICK c \in chainIds : c = Visited
    BY <1>3, <2>1
  <2>3. PICK sn \in Snippet : sn = snippetChains[w]
    BY <1>3, <2>1
  <2>4. \A b \in Block : Holds(sn.heightBlocks, b) => SnippetHolds(w, b)
    BY <2>3 DEF SnippetHolds
  <2> QED
    BY <1>1, <1>3, <2>1, <2>2, <2>3, <2>4, HandAttach
<1>5. CASE AppendSame
  <2>1. /\ Visiting /\ ~OutOfReach(Visited) /\ AppendFrame
        /\ InsertSnippet(Visited, CutTo(snippetChains[w], chains[Visited].headHeight))
    BY <1>5 DEF AppendSame
  <2>2. PICK c \in chainIds : c = Visited
    BY <1>3, <2>1
  <2>3. PICK H : H = chains[c].headHeight
    OBVIOUS
  <2>4. H \in -1..MaxHeight /\ H < BlockHeight[w]
    <3>1. H \in Int /\ 0 <= H /\ H <= MaxHeight /\ MaxHeight \in Int
      BY <2>3, OwnReads, TreeAssumption
    <3>2. BlockHeight[w] \in Int /\ ~(BlockHeight[w] <= H)
      BY <1>3, <2>1, <2>2, <2>3, BlockFacts DEF OutOfReach
    <3> QED
      BY <3>1, <3>2
  <2>5. PICK sn \in Snippet : sn = CutTo(snippetChains[w], H)
    BY <1>3, <2>1, <2>4, CutToSnippet
  <2>6. LinkedSnippet(w, sn)
    BY <1>3, <2>1, <2>4, <2>5, CutLinked
  <2>7. \A b \in Block : Holds(sn.heightBlocks, b) => SnippetHolds(w, b)
    BY <1>3, <2>1, <2>5, CutHolds DEF SnippetHolds
  <2>8. InsertSnippet(c, sn)
    BY <2>1, <2>2, <2>3, <2>5
  <2> QED
    BY <1>1, <1>3, <2>1, <2>6, <2>7, <2>8, HandAttach
<1>6. ASSUME NEW c \in chainIds, NEW refer, w \in snippetIds, w \in Block, w \in Snippets,
             pc = "forky", HasForkPoint(w, c, refer),
             ForkChain(c, Trimmed(w, c, refer)), AppendFrame
      PROVE  HandFree'
  <2>1. PICK sn : sn = Trimmed(w, c, refer)
    OBVIOUS
  <2>2. /\ sn \in Snippet /\ LinkedSnippet(w, sn)
        /\ \A b \in Block : Holds(sn.heightBlocks, b) => SnippetHolds(w, b)
    BY <1>6, <2>1, ForkPointFacts
  <2>3. ForkChain(c, sn)
    BY <1>6, <2>1
  <2> QED
    BY <1>1, <1>6, <2>2, <2>3, HandAttach
<1>7. CASE AppendFork
  <2>1. PICK c : c = Visited
    OBVIOUS
  <2>2. /\ Visiting /\ HasForkPoint(w, c, FALSE)
        /\ ForkChain(c, Trimmed(w, c, FALSE)) /\ AppendFrame
    BY <1>7, <2>1 DEF AppendFork
  <2> QED
    BY <1>3, <1>6, <2>1, <2>2
<1>8. CASE AppendDiskFork
  <2>1. PICK c : c = current
    OBVIOUS
  <2>2. /\ pc = "forky" /\ w # Nil /\ HasForkPoint(w, c, TRUE)
        /\ ForkChain(c, Trimmed(w, c, TRUE)) /\ AppendFrame
    BY <1>8, <2>1 DEF AppendDiskFork, DiskReached
  <2>3. c \in chainIds /\ w \in snippetIds /\ w \in Block /\ w \in Snippets
    BY <1>1, <2>1, <2>2 DEF Bookkeeping, TypeOK, Snippets
  <2> QED
    BY <1>6, <2>2, <2>3
<1>9. ASSUME NEW sn, pc = "forky", w \in snippetIds, KeepSnippet(sn),
             \A b \in Block : Holds(sn.heightBlocks, b) => SnippetHolds(w, b),
             UNCHANGED <<compoundBlocks, chainIds, chains, diskChain, fork, pc>>
      PROVE  HandFree'
  <2>1. PICK x \in Block : x = w
    BY <1>1, <1>9
  <2>2. snippetIds' \subseteq snippetIds /\ \A s \in snippetIds' :
           snippetChains'[s] = snippetChains[s] \/ (s = x /\ snippetChains'[s] = sn)
    BY <1>1, <1>9, <2>1 DEF KeepSnippet, DeleteSnippet
  <2>3. Snippets = snippetIds /\ Snippets' = snippetIds'
    BY <1>9 DEF Snippets
  <2>4. \A b \in compoundBlocks, s \in Snippets' : SnippetHolds(s, b)' => s \in Snippets /\ SnippetHolds(s, b)
    BY <1>1, <1>9, <2>1, <2>2, <2>3 DEF SnippetHolds
  <2> QED
    BY <1>1, <1>9, <2>4, HandSnippets
<1>10. CASE AppendPass
  <2>1. PICK sn : sn = Trimmed(w, Visited, FALSE)
    OBVIOUS
  <2>2. /\ Visiting /\ KeepSnippet(sn)
        /\ UNCHANGED <<compoundBlocks, chainIds, chains, diskChain, fork, pc>>
    BY <1>10, <2>1 DEF AppendPass, AppendFrame, netVars
  <2>3. \A b \in Block : Holds(sn.heightBlocks, b) => SnippetHolds(w, b)
    BY <1>1, <1>3, <2>1, <2>2, CutHolds DEF Trimmed, SnippetHolds
  <2> QED
    BY <1>3, <1>9, <2>2, <2>3
<1>11. CASE AppendLeave
  <2>1. PICK sn : sn = IF BelowDiskHead THEN Trimmed(w, current, TRUE) ELSE snippetChains[w]
    OBVIOUS
  <2>2. /\ pc = "forky" /\ w # Nil /\ KeepSnippet(sn)
        /\ UNCHANGED <<compoundBlocks, chainIds, chains, diskChain, fork, pc>>
    BY <1>11, <2>1 DEF AppendLeave, DiskReached, AppendFrame, netVars
  <2>3. w \in snippetIds /\ w \in Block
    BY <1>1, <2>2 DEF Bookkeeping
  <2>4. \A b \in Block : Holds(sn.heightBlocks, b) => SnippetHolds(w, b)
    BY <1>1, <2>1, <2>3, CutHolds DEF Trimmed, SnippetHolds
  <2> QED
    BY <1>9, <2>2, <2>3, <2>4
<1> QED
  BY <1>2, <1>4, <1>5, <1>7, <1>8, <1>10, <1>11 DEF AppendChains

\* No step of loop() or of the network disturbs the block in hand.
LEMMA HandLoop ==
    ASSUME Ground, OneForkPoint, PoolShape, Network \/ Loop
    PROVE  HandFree'
<1>1. HandFree /\ TypeOK
  BY DEF PoolShape, Ground
<1>2. CASE Network \/ Fetch \/ NothingToInsert
  <2>1. /\ UNCHANGED <<compoundBlocks, snippetIds, snippetChains, chainIds, chains,
                       diskChain, fork>>
        /\ (pc' = pc /\ list' = list) \/ (pc \in {"fetch", "insert"} /\ pc' \in {"insert", "gen"})
    BY <1>2 DEF Network, AddBlock, Fetch, NothingToInsert, poolVars, genVars
  <2>2. Snippets' = Snippets
    BY <2>1 DEF Snippets
  <2> QED
    BY <1>1, <2>1, <2>2, HandSame
<1>3. CASE Gen
  BY <1>1, <1>3, HandGen
<1>4. CASE AppendChains
  BY <1>4, HandAppend
<1>5. ASSUME NEW n, NEW m, TryInsert(n, m)
      PROVE  HandFree'
  <2>1. ~WriteLocked /\ fork' = fork
    BY <1>5, Zenon DEF TryInsert
  <2> QED
    BY <2>1 DEF WriteLocked, HandFree, InHand
<1> QED
  BY <1>2, <1>3, <1>4, <1>5 DEF Loop, Insert

\* Above the block where branches part, another chain than the base either has
\* its own block at every height of the base, or ends below the base's head and
\* reads the base from there on.
LEMMA ApartOrBelow ==
    ASSUME Ground, OneForkPoint, PoolShape, ~InHand, ~LastTurn,
           NEW top, top = chains[Base].headHeight
    PROVE  \A c \in chainIds \ {Base} :
              \/ \A h \in ForkHeight + 1 .. top :
                    GetBlock(c, h) # Nil /\ GetBlock(c, h) # GetBlock(Base, h)
              \/ /\ chains[c].headHeight < top
                 /\ GetBlock(c, top) = GetBlock(Base, top)
                 /\ GetBlock(c, top + 1) = Nil
<1> DEFINE Apart(c) == \A h \in ForkHeight + 1 .. top :
                          GetBlock(c, h) # Nil /\ GetBlock(c, h) # GetBlock(Base, h)
           Under(c) == /\ chains[c].headHeight < top
                       /\ GetBlock(c, top) = GetBlock(Base, top)
                       /\ GetBlock(c, top + 1) = Nil
           S == {c \in chainIds \ {Base} : ~(Apart(c) \/ Under(c))}
<1>1. Base \in chainIds /\ RefersReachDisk
  BY ChainFacts DEF Ground
<1>2. top \in Int /\ ForkHeight \in Int /\ 0 <= ForkHeight /\ 0 <= top
  <2>1. 0 \in Int
    OBVIOUS
  <2>2. chains[Base].headHeight \in Int /\ 0 <= chains[Base].tailHeight
        /\ chains[Base].tailHeight <= chains[Base].headHeight /\ chains[Base].tailHeight \in Int
    BY <1>1, <2>1, OwnReads
  <2> QED
    BY <2>2, ForkBlockFacts
<1>3. ASSUME NEW c \in chainIds \ {Base}, NEW h \in ForkHeight + 1 .. top,
             h <= chains[c].headHeight
      PROVE  GetBlock(c, h) # Nil /\ GetBlock(c, h) # GetBlock(Base, h)
  <2>1. h \in Int /\ h > ForkHeight /\ h <= top /\ h >= 0
    BY <1>2
  <2>2. chains[c].tailHeight = ForkHeight /\ GetBlock(c, h) = OwnBlock(c, h)
    BY <1>3, <2>1, SideReads
  <2>3. OwnBlock(c, h) \in Block \ {Genesis} /\ ChainHolds(c, OwnBlock(c, h))
    BY <1>3, <2>1, <2>2, OwnReads
  <2>4. PICK b \in Block \ {Genesis} : b = GetBlock(c, h) /\ ChainHolds(c, b)
    BY <2>2, <2>3
  <2>5. b \notin diskChain.byHash /\ ~ChainHolds(Base, b)
    BY <1>1, <2>4 DEF PoolShape, OnePlace
  <2>6. Top \in Int /\ chains[Base].tailHeight = Top
    BY <2>1, BaseReads, DiskReads DEF PoolShape, Ground
  <2>7. CASE h <= Top
    <3>1. h \in 0..Top /\ GetBlock(Base, h) = DiskBlock(h)
      BY <2>1, <2>6, <2>7, BaseReads
    <3>2. DiskBlock(h) \in diskChain.byHash
      BY <3>1, DiskReads DEF PoolShape, Ground
    <3> QED
      BY <2>4, <2>5, <3>1, <3>2, TreeAssumption
  <2>8. CASE h > Top
    <3>1. GetBlock(Base, h) = OwnBlock(Base, h)
      BY <2>1, <2>8, BaseReads
    <3>2. ChainHolds(Base, OwnBlock(Base, h))
      BY <1>1, <2>1, <2>6, <2>8, OwnReads
    <3> QED
      BY <2>4, <2>5, <3>1, <3>2, TreeAssumption
  <2> QED
    BY <2>1, <2>6, <2>7, <2>8
<1>4. ASSUME NEW c \in chainIds \ {Base},
             chains[c].referChain # Base =>
                Apart(chains[c].referChain) \/ Under(chains[c].referChain)
      PROVE  Apart(c) \/ Under(c)
  <2>1. chains[c].headHeight \in Int
    BY <1>2, OwnReads
  <2>2. CASE top <= chains[c].headHeight
    <3>1. \A h \in ForkHeight + 1 .. top : h <= chains[c].headHeight
      BY <1>2, <2>1, <2>2
    <3> QED
      BY <1>3, <3>1
  <2>3. CASE ~(top <= chains[c].headHeight)
    <3>1. chains[c].headHeight < top /\ top + 1 > chains[c].headHeight /\ top + 1 \in Int
      BY <1>2, <2>1, <2>3
    <3>2. PICK d \in chainIds : d = chains[c].referChain /\ d # Disk
      BY ChainFacts
    <3>3. \A h \in Int : h > chains[c].headHeight => GetBlock(c, h) = GetBlock(d, h)
      BY <3>2, AboveHead
    <3>4. GetBlock(c, top) = GetBlock(d, top) /\ GetBlock(c, top + 1) = GetBlock(d, top + 1)
      BY <1>2, <3>1, <3>3
    <3>5. CASE d = Base
      <4>1. GetBlock(Base, top + 1) = Nil
        <5>1. top + 1 > chains[Base].headHeight
          BY <1>2
        <5> QED
          BY <1>1, <3>1, <5>1, AboveHead, ChainFacts
      <4> QED
        BY <3>1, <3>4, <3>5, <4>1
    <3>6. CASE d # Base /\ Under(d)
      BY <3>1, <3>4, <3>6
    <3>7. CASE d # Base /\ Apart(d)
      <4>1. ASSUME NEW h \in ForkHeight + 1 .. top
            PROVE  GetBlock(c, h) # Nil /\ GetBlock(c, h) # GetBlock(Base, h)
        <5>1. CASE h <= chains[c].headHeight
          BY <1>3, <5>1
        <5>2. CASE ~(h <= chains[c].headHeight)
          <6>1. h \in Int /\ h > chains[c].headHeight
            BY <1>2, <2>1, <5>2
          <6> QED
            BY <3>3, <3>7, <6>1
        <5> QED
          BY <5>1, <5>2
      <4> QED
        BY <4>1
    <3> QED
      BY <1>4, <3>2, <3>5, <3>6, <3>7
  <2> QED
    BY <2>2, <2>3
<1> HIDE DEF Apart, Under
<1>5. S = {}
  <2> SUFFICES ASSUME S # {} PROVE FALSE
    OBVIOUS
  <2>1. PICK c \in S : chains[c].referChain \notin S
    BY <1>1 DEF RefersReachDisk
  <2>2. chains[c].referChain \in chainIds
    BY ChainFacts
  <2> QED
    BY <1>4, <2>1, <2>2
<1>6. \A c \in chainIds \ {Base} : Apart(c) \/ Under(c)
  BY <1>5
<1> QED
  BY <1>6 DEF Apart, Under

\* getForkPoint stops at the block where branches part, unless the chain to
\* switch to reads the current chain at its head.
LEMMA StopsAtFork ==
    ASSUME Ground, OneForkPoint, PoolShape, fork.pc = "captured"
    PROVE  \/ /\ StopHeight = ForkHeight
              /\ GetBlock(fork.longest, ForkHeight + 1) # Nil
           \/ /\ chains[fork.longest].headHeight < chains[current].headHeight
              /\ GetBlock(fork.longest, StopHeight + 1) = Nil
<1>0. /\ ~InHand /\ ~LastTurn /\ fork.block = Nil
      /\ Base = current /\ fork.longest # current
  BY DEF InHand, LastTurn, PoolShape, HandShape, ForkShape
<1>1. PICK l \in chainIds : l = fork.longest /\ l # Base
  BY <1>0 DEF Ground, Bookkeeping
<1>2. PICK top : top = chains[current].headHeight
  OBVIOUS
<1>3. current \in chainIds /\ top = chains[Base].headHeight
  BY <1>0, <1>2, ChainFacts
<1>4. ForkHeight \in Int /\ 0 <= ForkHeight
  BY ForkBlockFacts
<1>5. top \in Int /\ top > ForkHeight
  <2>1. top \in Int
    BY <1>3, <1>4, ChainFacts, OwnReads
  <2>2. top > ForkHeight
    BY <1>1, <1>3, <1>4, SideReads
  <2> QED
    BY <2>1, <2>2
<1>6. CASE \A h \in ForkHeight + 1 .. top :
              GetBlock(l, h) # Nil /\ GetBlock(l, h) # GetBlock(current, h)
  <2> DEFINE S == {h \in -1 .. top : \/ h = -1
                                     \/ GetBlock(current, h) = Nil
                                     \/ GetBlock(l, h) = Nil
                                     \/ GetBlock(current, h) = GetBlock(l, h)}
  <2>1. StopHeight = Max(S)
    BY <1>1, <1>2 DEF StopHeight
  <2>2. ForkHeight \in S
    <3>1. GetBlock(l, ForkHeight) = GetBlock(current, ForkHeight)
      BY <1>0, <1>1, <1>4, SideReads, ReadHand
    <3>2. ForkHeight \in -1 .. top
      BY <1>4, <1>5
    <3> QED
      BY <3>1, <3>2
  <2>3. ASSUME NEW h \in S PROVE h <= ForkHeight
    <3>1. h \in Int /\ -1 <= h /\ h <= top
      BY <1>5
    <3> SUFFICES ASSUME h > ForkHeight PROVE FALSE
      BY <1>4, <3>1
    <3>2. h \in ForkHeight + 1 .. top /\ h \in 0 .. top /\ h # -1
      BY <1>4, <1>5, <3>1
    <3>3. GetBlock(current, h) \in Block
      BY <1>0, <1>2, <1>3, <3>2, Complete, ReadHand
    <3> QED
      BY <1>6, <3>2, <3>3, TreeAssumption
  <2>4. S \subseteq -1 .. top /\ S # {}
    BY <2>2
  <2> HIDE DEF S
  <2>5. Max(S) \in S /\ Max(S) >= ForkHeight
    <3>1. -1 \in Int
      OBVIOUS
    <3> QED
      BY <1>5, <2>2, <2>4, <3>1, MaxOfInterval
  <2>6. Max(S) \in Int
    <3>1. Max(S) \in -1 .. top
      BY <2>4, <2>5
    <3> QED
      BY <3>1
  <2>7. Max(S) = ForkHeight
    BY <1>4, <2>3, <2>5, <2>6
  <2>8. ForkHeight + 1 \in ForkHeight + 1 .. top
    BY <1>4, <1>5
  <2> QED
    BY <1>1, <1>6, <2>1, <2>7, <2>8
<1>7. CASE /\ chains[l].headHeight < top
           /\ GetBlock(l, top) = GetBlock(current, top)
           /\ GetBlock(l, top + 1) = Nil
  <2> DEFINE S == {h \in -1 .. top : \/ h = -1
                                     \/ GetBlock(current, h) = Nil
                                     \/ GetBlock(l, h) = Nil
                                     \/ GetBlock(current, h) = GetBlock(l, h)}
  <2>1. StopHeight = Max(S)
    BY <1>1, <1>2 DEF StopHeight
  <2>2. top \in S
    BY <1>4, <1>5, <1>7
  <2>3. S \subseteq -1 .. top /\ S # {}
    BY <2>2
  <2> HIDE DEF S
  <2>4. Max(S) \in S /\ Max(S) >= top
    <3>1. -1 \in Int
      OBVIOUS
    <3> QED
      BY <1>5, <2>2, <2>3, <3>1, MaxOfInterval
  <2>5. Max(S) \in -1 .. top
    BY <2>3, <2>4
  <2>6. Max(S) = top
    BY <1>5, <2>4, <2>5
  <2> QED
    BY <1>1, <1>2, <1>7, <2>1, <2>6
<1> QED
  BY <1>0, <1>1, <1>3, <1>6, <1>7, ApartOrBelow

\* removeTail: a chain of more than one block gives up its lowest one.
LEMMA TailGiven ==
    ASSUME NEW ch \in ForkedChain, NEW foot \in Block, ChainShape(ch, foot),
           ch.tailHeight + 1 < ch.headHeight,
           NEW b, b = ch.heightBlocks[ch.tailHeight + 1]
    PROVE  /\ ChainShape(RemoveTail(ch, b), b)
           /\ RemoveTail(ch, b).headHeight = ch.headHeight
           /\ RemoveTail(ch, b).headHash = ch.headHash
           /\ \A x \in Block : Holds(RemoveTail(ch, b).heightBlocks, x) =>
                 Holds(ch.heightBlocks, x) /\ x # b
<1> DEFINE T == ch.tailHeight
           H == ch.headHeight
           m == ch.heightBlocks
           vm == [m EXCEPT ![T + 1] = Nil]
           v == RemoveTail(ch, b)
<1>1. /\ T \in Int /\ H \in Int /\ MaxHeight \in Nat /\ 0 <= T /\ T <= H /\ H <= MaxHeight
      /\ \A h \in T + 1 .. H : /\ h \in Height /\ m[h] \in Block /\ BlockHeight[m[h]] = h
                               /\ h # T + 1 => PreHash[m[h]] = m[h - 1]
      /\ \A h \in Height : ~(h \in T + 1 .. H) => m[h] = Nil
  BY ShapeReads
<1>2. T + 1 \in T + 1 .. H /\ T + 1 < H /\ T + 1 \in Height
  BY <1>1
<1>3. b \in Block /\ BlockHeight[b] = T + 1 /\ b = m[T + 1]
  BY <1>1, <1>2
<1>4. m \in [Height -> HashOrNil]
  BY DEF ForkedChain
<1>5. /\ v.tailHeight = T + 1 /\ v.headHeight = H /\ v.headHash = ch.headHash
      /\ v.heightBlocks = vm
  BY <1>3 DEF RemoveTail, ForkedChain
<1>6. H = BlockHeight[ch.headHash] /\ m[H] = ch.headHash
  BY <1>1, <1>2 DEF ChainShape
<1> HIDE DEF T, H, m, v
<1>7. vm[T + 1] = Nil /\ \A h \in Height : h # T + 1 => vm[h] = m[h]
  BY <1>2, <1>4
<1> HIDE DEF vm
<1>8. ASSUME NEW h \in T + 1 + 1 .. H
      PROVE  /\ vm[h] \in Block /\ BlockHeight[vm[h]] = h
             /\ PreHash[vm[h]] = IF h = T + 1 + 1 THEN b ELSE vm[h - 1]
  <2>1. h \in T + 1 .. H /\ h \in Height /\ h # T + 1
    BY <1>1
  <2>2. h = T + 1 + 1 => h - 1 = T + 1
    BY <1>1
  <2>3. h # T + 1 + 1 => h - 1 \in T + 1 .. H /\ h - 1 # T + 1
    BY <1>1
  <2>4. h # T + 1 + 1 => h - 1 \in Height
    BY <1>1, <2>3
  <2> QED
    BY <1>1, <1>3, <1>7, <2>1, <2>2, <2>3, <2>4
<1>9. Run(vm, T + 1 + 1, H, b)
  BY <1>8 DEF Run
<1>10. \A h \in Height : h <= T + 1 \/ h > H => vm[h] = Nil
  <2>1. \A h \in Height : h \in Int
    BY DEF Height
  <2>2. \A h \in Height : h # T + 1 /\ (h <= T + 1 \/ h > H) => ~(h \in T + 1 .. H)
    BY <1>1, <2>1
  <2> QED
    BY <1>1, <1>7, <2>2
<1>11. H \in Height /\ H # T + 1 /\ T + 1 <= H
  BY <1>1, <1>2 DEF Height
<1>12. vm[H] = ch.headHash
  BY <1>6, <1>7, <1>11
<1>13. ChainShape(v, b)
  BY <1>3, <1>5, <1>6, <1>9, <1>10, <1>11, <1>12 DEF ChainShape
<1>14. ASSUME NEW x \in Block, vm[BlockHeight[x]] = x
       PROVE  m[BlockHeight[x]] = x /\ x # b
  BY <1>3, <1>7, <1>14, TreeAssumption
<1> QED
  BY <1>5, <1>13, <1>14 DEF v, m, T, H, Holds

\* addTail: a chain takes the block it stands on.
LEMMA TailTaken ==
    ASSUME NEW ch \in ForkedChain, NEW b \in Block, PreHash[b] \in Block, ChainShape(ch, b)
    PROVE  /\ ChainShape(AddTail(ch, b), PreHash[b])
           /\ AddTail(ch, b).headHeight = ch.headHeight
           /\ AddTail(ch, b).headHash = ch.headHash
           /\ \A x \in Block : Holds(AddTail(ch, b).heightBlocks, x) =>
                 Holds(ch.heightBlocks, x) \/ x = b
<1> DEFINE T == ch.tailHeight
           H == ch.headHeight
           m == ch.heightBlocks
           um == [m EXCEPT ![T] = b]
           u == AddTail(ch, b)
<1>1. /\ T \in Int /\ H \in Int /\ MaxHeight \in Nat /\ 0 <= T /\ T <= H /\ H <= MaxHeight
      /\ \A h \in T + 1 .. H : /\ h \in Height /\ m[h] \in Block /\ BlockHeight[m[h]] = h
                               /\ h # T + 1 => PreHash[m[h]] = m[h - 1]
                               /\ h = T + 1 => PreHash[m[h]] = b
      /\ \A h \in Height : ~(h \in T + 1 .. H) => m[h] = Nil
  BY ShapeReads
<1>2. BlockHeight[b] = T
  BY DEF ChainShape
<1>3. T \in Height /\ b # Genesis
  BY <1>1, TreeAssumption DEF Height
<1>4. BlockHeight[PreHash[b]] = T - 1
  BY <1>2, <1>3, Bottom
<1>5. m \in [Height -> HashOrNil]
  BY DEF ForkedChain
<1>6. /\ u.tailHeight = T - 1 /\ u.headHeight = H /\ u.headHash = ch.headHash
      /\ u.heightBlocks = um
  BY <1>2 DEF AddTail, ForkedChain
<1>7. /\ H = BlockHeight[ch.headHash]
      /\ T = H => ch.headHash = b
      /\ T # H => m[H] = ch.headHash
  BY DEF ChainShape
<1> HIDE DEF T, H, m, u
<1>8. um[T] = b /\ \A h \in Height : h # T => um[h] = m[h]
  BY <1>3, <1>5
<1> HIDE DEF um
<1>9. ASSUME NEW h \in T - 1 + 1 .. H
      PROVE  /\ um[h] \in Block /\ BlockHeight[um[h]] = h
             /\ PreHash[um[h]] = IF h = T - 1 + 1 THEN PreHash[b] ELSE um[h - 1]
  <2>1. T - 1 + 1 = T /\ h \in Int
    BY <1>1
  <2>2. CASE h = T
    BY <1>2, <1>8, <2>1, <2>2
  <2>3. CASE h # T
    <3>1. h \in T + 1 .. H /\ h \in Height
      BY <1>1, <2>1, <2>3
    <3>2. CASE h = T + 1
      <4>1. h - 1 = T
        BY <1>1, <3>2
      <4> QED
        BY <1>1, <1>8, <2>1, <2>3, <3>1, <3>2, <4>1
    <3>3. CASE h # T + 1
      <4>1. h - 1 \in T + 1 .. H /\ h - 1 # T
        BY <1>1, <3>1, <3>3
      <4>2. h - 1 \in Height
        BY <1>1, <4>1
      <4> QED
        BY <1>1, <1>8, <2>1, <2>3, <3>1, <3>3, <4>1, <4>2
    <3> QED
      BY <3>2, <3>3
  <2> QED
    BY <2>2, <2>3
<1>10. Run(um, T - 1 + 1, H, PreHash[b])
  BY <1>9 DEF Run
<1>11. \A h \in Height : h <= T - 1 \/ h > H => um[h] = Nil
  <2>1. \A h \in Height : h \in Int
    BY DEF Height
  <2>2. \A h \in Height : h <= T - 1 \/ h > H => h # T /\ ~(h \in T + 1 .. H)
    BY <1>1, <2>1
  <2> QED
    BY <1>1, <1>8, <2>2
<1>12. H \in Height /\ H # T - 1 /\ T - 1 <= H
  BY <1>1 DEF Height
<1>13. um[H] = ch.headHash
  BY <1>7, <1>8, <1>12
<1>14. ChainShape(u, PreHash[b])
  BY <1>4, <1>6, <1>7, <1>10, <1>11, <1>12, <1>13 DEF ChainShape
<1>15. ASSUME NEW x \in Block, um[BlockHeight[x]] = x
       PROVE  m[BlockHeight[x]] = x \/ x = b
  BY <1>8, <1>15, TreeAssumption
<1> QED
  BY <1>6, <1>14, <1>15 DEF u, m, H, Holds

-----------------------------------------------------------------------------
(***************************************************************************)
(* snapshotFork.                                                           *)
(***************************************************************************)
LEMMA FrameFacts ==
    ASSUME ForkFrame
    PROVE  /\ UNCHANGED <<compoundBlocks, snippetIds, snippetChains, chainIds, current, pc,
                          list, headMap, w, tmpChains, visit>>
           /\ Snippets' = Snippets /\ Live' = Live
<1>1. UNCHANGED <<compoundBlocks, snippetIds, snippetChains, chainIds, current, pc,
                  list, headMap, w, tmpChains, visit>>
  BY DEF ForkFrame, netVars, genVars, appendVars
<1> QED
  BY <1>1 DEF Snippets, Live

\* Only the state of snapshotFork moves, and not in modifyRefer.
LEMMA ForkMoves ==
    ASSUME Ground, OneForkPoint, PoolShape,
           UNCHANGED <<compoundBlocks, snippetIds, snippetChains, chainIds, chains, current,
                       diskChain, pc, list, headMap, w, tmpChains, visit>>, ~crashed',
           fork.pc \notin {"removed", "untailed", "refer", "turn"},
           fork'.pc \notin {"removed", "untailed", "refer", "turn"},
           fork'.block = Nil,
           Base = current \/ fork'.longest = fork.longest,
           Base # current => fork'.pc = "modify",
           fork'.pc # "idle" => fork'.longest # current,
           fork'.pc = "rollback" => fork'.point = ForkHeight,
           fork'.pc \notin {"idle", "captured", "rollback"} => Top <= ForkHeight
    PROVE  PoolShape'
<1>1. /\ OnePlace /\ DiskShape /\ ChainsShape /\ ForkShape /\ VisitShape
      /\ TypeOK /\ Bookkeeping /\ current \in chainIds
  BY DEF PoolShape, Ground, Bookkeeping
<1>2. /\ ~InHand /\ ~InHand' /\ ~LastTurn /\ ~LastTurn'
      /\ Seat = diskChain.head /\ Seat' = diskChain.head /\ Top' = Top
  BY DEF InHand, LastTurn, Seat, Top
<1>3. Base' = Base
  <2>1. chains[current].referChain = Disk <=> current = Base
    BY <1>1, <1>2 DEF ChainsShape
  <2> QED
    BY <1>2, <2>1 DEF Base
<1>4. DiskShape'
  BY <1>1, <1>2 DEF DiskShape
<1>5. ChainsShape'
  BY <1>1, <1>2, <1>3 DEF ChainsShape
<1>6. ForkShape'
  BY <1>2, <1>3 DEF ForkShape, WriteLocked
<1>7. HandShape' /\ HandFree'
  BY <1>2 DEF HandShape, HandFree
<1>8. VisitShape'
  BY <1>1, VisitStays
<1>9. Snippets' = Snippets /\ Live' = Live
  BY DEF Snippets, Live
<1>10. OnePlace'
  BY <1>1, <1>9, PlacesStay
<1> QED
  BY <1>4, <1>5, <1>6, <1>7, <1>8, <1>10 DEF PoolShape

\* The decision for a chain, and the steps that give it up.
LEMMA ShapeDecide ==
    ASSUME Ground, OneForkPoint, PoolShape,
           (\E l \in Block : CheckFork(l)) \/ ForkGiveUp \/ ForkFailed \/ CurrentModify
    PROVE  PoolShape'
<1>1. ForkShape /\ TypeOK /\ fork \in ForkLocals /\ HandShape
  BY DEF PoolShape, Ground, TypeOK, ForkLocals
<1>2. CASE \E l \in Block : CheckFork(l)
  <2>1. PICK l \in Block : CheckFork(l)
    BY <1>2
  <2>2. /\ fork.pc = "idle" /\ Longest(l) /\ ~crashed'
        /\ fork'.pc = "captured" /\ fork'.longest = l /\ fork'.block = Nil
        /\ UNCHANGED <<compoundBlocks, snippetIds, snippetChains, chainIds, chains, current,
                       diskChain, pc, list, headMap, w, tmpChains, visit>>
    BY <2>1 DEF CheckFork, NoFork, poolVars, genVars, appendVars
  <2>3. Base = current
    BY <1>1, <2>2 DEF ForkShape
  <2>4. l # current
    <3>1. /\ chains[l].headHeight - ForkMargin > chains[current].headHeight
          /\ chains[current].headHeight \in Int /\ ForkMargin \in Nat
      BY <1>1, <2>2, TreeAssumption, SnapshotPoolAssumption DEF Longest, TypeOK, ForkedChain, Height
    <3> QED
      BY <3>1
  <2> QED
    BY <2>2, <2>3, <2>4, ForkMoves
<1>3. CASE ForkGiveUp \/ ForkFailed
  <2>1. /\ fork.pc \in {"captured", "failed"} /\ ~crashed'
        /\ fork'.pc = "idle" /\ fork'.block = Nil
        /\ UNCHANGED <<compoundBlocks, snippetIds, snippetChains, chainIds, chains, current,
                       diskChain, pc, list, headMap, w, tmpChains, visit>>
    BY <1>3 DEF ForkGiveUp, ForkFailed, ForkReturn, NoFork, netVars, genVars, appendVars
  <2>2. Base = current
    BY <1>1, <2>1 DEF ForkShape
  <2> QED
    BY <2>1, <2>2, ForkMoves
<1>4. CASE CurrentModify
  <2>1. /\ fork.pc = "rolled" /\ ~crashed' /\ ForkFrame /\ UNCHANGED <<chains, diskChain>>
        /\ fork' = [fork EXCEPT !.pc = "modify"] \/ fork' = NoFork
    BY <1>4 DEF CurrentModify
  <2>2. fork.block = Nil /\ Base = current /\ fork.longest # current /\ Top <= ForkHeight
    BY <1>1, <2>1 DEF HandShape, ForkShape, WriteLocked
  <2>3. /\ fork'.block = Nil
        /\ \/ fork'.pc = "modify" /\ fork'.longest = fork.longest
           \/ fork'.pc = "idle"
    BY <1>1, <2>1, <2>2 DEF ForkLocals, NoFork
  <2> QED
    BY <2>1, <2>2, <2>3, FrameFacts, ForkMoves
<1> QED
  BY <1>2, <1>3, <1>4

\* snapshotFork has the lock: the fork point is the block where branches part,
\* or the chain was overtaken.
LEMMA ShapeStart ==
    ASSUME Ground, OneForkPoint, PoolShape, ForkStart
    PROVE  PoolShape'
<1>1. /\ OnePlace /\ HandFree /\ DiskShape /\ ChainsShape /\ HandShape /\ ForkShape /\ VisitShape
      /\ TypeOK /\ Bookkeeping /\ fork \in ForkLocals
  BY DEF PoolShape, Ground, TypeOK, ForkLocals
<1>2. /\ ~crashed /\ fork.pc = "captured" /\ ForkFrame /\ UNCHANGED <<chains, diskChain>>
      /\ IF GetBlock(fork.longest, StopHeight + 1) = Nil
         THEN crashed' = TRUE /\ fork' = fork
         ELSE /\ fork' = [fork EXCEPT !.pc = "rollback", !.point = StopHeight]
              /\ crashed' = crashed
  BY DEF ForkStart
<1>3. Base = current /\ fork.longest # current /\ fork.block = Nil
  BY <1>1, <1>2 DEF ForkShape, HandShape
<1>4. CASE GetBlock(fork.longest, StopHeight + 1) = Nil
  <2>1. fork' = fork
    BY <1>2, <1>4
  <2>2. chains[fork.longest].headHeight < chains[current].headHeight
    BY <1>2, <1>4, StopsAtFork
  <2>3. /\ chains[fork.longest].headHeight \in Int /\ chains[current].headHeight \in Int
    BY <1>1, TreeAssumption DEF TypeOK, ForkedChain, Height
  <2>4. Overtaken
    BY <1>2, <2>2, <2>3 DEF Overtaken
  <2>5. Overtaken'
    BY <1>2, <2>1, <2>4, FrameFacts DEF Overtaken
  <2>6. DiskShape' /\ ChainsShape' /\ HandShape' /\ ForkShape'
    BY <1>1, <1>2, <2>1, <2>5, FrameFacts, ChainsStay
  <2>7. OnePlace' /\ VisitShape'
    BY <1>1, <1>2, FrameFacts, PlacesStay, VisitStays
  <2>8. HandFree'
    BY <1>2, <2>1 DEF HandFree, InHand
  <2> QED
    BY <2>6, <2>7, <2>8 DEF PoolShape
<1>5. CASE GetBlock(fork.longest, StopHeight + 1) # Nil
  <2>1. StopHeight = ForkHeight
    BY <1>2, <1>5, StopsAtFork
  <2>2. PICK n : n = StopHeight
    OBVIOUS
  <2>3. ~crashed' /\ fork' = [fork EXCEPT !.pc = "rollback", !.point = n]
    BY <1>2, <1>5, <2>2
  <2>4. fork'.pc = "rollback" /\ fork'.point = n /\ fork'.longest = fork.longest /\ fork'.block = Nil
    BY <1>1, <1>3, <2>3 DEF ForkLocals
  <2> QED
    BY <1>2, <1>3, <2>1, <2>2, <2>3, <2>4, FrameFacts, ForkMoves
<1> QED
  BY <1>4, <1>5

\* A block leaves the disk: what the current chain continues is now in hand.
LEMMA ShapeRemove ==
    ASSUME Ground, OneForkPoint, PoolShape, RollbackRemove
    PROVE  PoolShape'
<1>1. /\ OnePlace /\ DiskShape /\ ChainsShape /\ HandShape /\ ForkShape /\ VisitShape
      /\ TypeOK /\ Bookkeeping /\ fork \in ForkLocals /\ chains \in [Block -> ForkedChain]
      /\ current \in Block
  BY DEF PoolShape, Ground, TypeOK, ForkLocals
<1>2. /\ ~crashed /\ fork.pc = "rollback" /\ ForkFrame /\ chains' = chains
      /\ ~(chains[current].tailHeight <= fork.point)
  BY DEF RollbackRemove, RollbackDone
<1>3. /\ Base = current /\ fork.longest # current /\ fork.point = ForkHeight
      /\ ~InHand /\ ~LastTurn
  BY <1>1, <1>2 DEF ForkShape, InHand, LastTurn
<1>4. /\ Top \in Int /\ 0 <= Top /\ DiskBlock(Top) = diskChain.head
      /\ diskChain.head \in Block /\ diskChain.head \in diskChain.byHash
  BY <1>1, DiskReads DEF DiskShape
<1>5. chains[current].tailHeight = Top
  <2>1. chains[Base].tailHeight = Top
    BY <1>3, <1>4, BaseReads
  <2> QED
    BY <1>3, <2>1
<1>6. Top > ForkHeight /\ Top > 0 /\ ForkHeight \in Int
  BY <1>2, <1>3, <1>4, <1>5, ForkBlockFacts
<1>7. PICK b \in Block : b = diskChain.head
  BY <1>4
<1>8. b # Nil /\ b # Genesis /\ DiskBlock(chains[current].tailHeight) = b /\ BlockHeight[b] = Top
  BY <1>4, <1>5, <1>6, <1>7, Bottom, TreeAssumption DEF Top
<1>9. /\ diskChain' = Removed(b) /\ crashed' = crashed
      /\ fork' = [fork EXCEPT !.pc = "removed", !.block = b]
  BY <1>8, Zenon DEF RollbackRemove
<1>10. /\ fork'.pc = "removed" /\ fork'.block = b /\ fork'.longest = fork.longest
       /\ fork'.point = fork.point
  BY <1>1, <1>9 DEF ForkLocals
<1>11. /\ DiskRun(diskChain', Top - 1) /\ diskChain'.head = PreHash[b]
       /\ diskChain'.byHash = diskChain.byHash \ {b}
  BY <1>1, <1>6, <1>7, <1>9, RemovedShape
<1>12. DiskShape'
  BY <1>11, DiskMoves
<1>13. /\ ~LastTurn' /\ InHand' /\ Seat' = b /\ Seat = b
  BY <1>3, <1>7, <1>10 DEF LastTurn, InHand, Seat
<1>14. PICK v : v = chains[current]
  OBVIOUS
<1>15. ChainShape(v, b)
  BY <1>1, <1>3, <1>13, <1>14 DEF ChainsShape
<1>16. chains' = [chains EXCEPT ![current] = v]
  BY <1>1, <1>2, <1>14
<1>17. ChainsShape' /\ Base' = current
  BY <1>2, <1>3, <1>13, <1>14, <1>15, <1>16, FrameFacts, BaseMoves
<1>18. HandShape'
  BY <1>6, <1>8, <1>10, <1>11, <1>13 DEF HandShape
<1>19. ForkShape'
  BY <1>2, <1>3, <1>9, <1>10, <1>17, FrameFacts DEF ForkShape
<1>20. \A c \in chainIds, a \in Block : ChainHolds(c, a)' <=> ChainHolds(c, a)
  BY <1>2 DEF ChainHolds
<1>21. \A s \in Snippets, a \in Block : SnippetHolds(s, a)' <=> SnippetHolds(s, a)
  BY <1>2, FrameFacts DEF SnippetHolds
<1>22. /\ b \in compoundBlocks
       /\ \A s \in Snippets : ~SnippetHolds(s, b)
       /\ \A c \in chainIds : ~ChainHolds(c, b)
  BY <1>1, <1>4, <1>7, <1>8 DEF OnePlace
<1>23. HandFree'
  <2>1. /\ b \in compoundBlocks' /\ b \notin diskChain'.byHash
        /\ \A s \in Snippets' : ~SnippetHolds(s, b)'
        /\ \A c \in chainIds' : ~ChainHolds(c, b)'
    BY <1>2, <1>11, <1>20, <1>21, <1>22, FrameFacts
  <2> QED
    BY <1>10, <2>1 DEF HandFree, SnippetHolds, ChainHolds
<1>24. OnePlace'
  <2>1. \A s \in Snippets' \cup Live', a \in Block : SnippetHolds(s, a)' => SnippetHolds(s, a)
    BY <1>2, FrameFacts DEF SnippetHolds
  <2>2. \A c \in chainIds', a \in Block : ChainHolds(c, a)' => c \in chainIds /\ ChainHolds(c, a)
    BY <1>2, <1>20, FrameFacts
  <2> QED
    BY <1>1, <1>2, <1>11, <2>1, <2>2, FrameFacts, PlacesMoved
<1>25. VisitShape'
  BY <1>1, <1>2, FrameFacts, VisitStays
<1> QED
  BY <1>12, <1>17, <1>18, <1>19, <1>23, <1>24, <1>25 DEF PoolShape

\* The block in hand goes to the current chain, which stands on it.
LEMMA ShapeAddTail ==
    ASSUME Ground, OneForkPoint, PoolShape, RollbackAddTail
    PROVE  PoolShape'
<1>1. /\ OnePlace /\ HandFree /\ DiskShape /\ ChainsShape /\ HandShape /\ ForkShape /\ VisitShape
      /\ TypeOK /\ Bookkeeping /\ fork \in ForkLocals /\ chains \in [Block -> ForkedChain]
      /\ current \in chainIds /\ chainIds \subseteq Block
  BY DEF PoolShape, Ground, TypeOK, ForkLocals, Bookkeeping
<1>2. /\ ~crashed /\ fork.pc = "removed" /\ ForkFrame /\ UNCHANGED <<diskChain, crashed>>
      /\ chains' = [chains EXCEPT ![current] = AddTail(chains[current], fork.block)]
      /\ fork' = [fork EXCEPT !.pc = "rollback", !.block = Nil]
  BY DEF RollbackAddTail
<1>3. /\ fork'.pc = "rollback" /\ fork'.block = Nil /\ fork'.longest = fork.longest
      /\ fork'.point = fork.point
  BY <1>1, <1>2 DEF ForkLocals
<1>4. /\ InHand /\ ~LastTurn /\ ~InHand' /\ ~LastTurn' /\ Seat' = diskChain.head
      /\ Base = current /\ fork.longest # current /\ fork.point = ForkHeight
  BY <1>1, <1>2, <1>3 DEF ForkShape, InHand, LastTurn, Seat
<1>5. PICK c \in chainIds : c = current
  BY <1>1
<1>6. PICK b \in Block \ {Genesis} : b = fork.block /\ PreHash[b] = diskChain.head
  BY <1>4, HandFacts
<1>7. PICK v : v = AddTail(chains[c], b)
  OBVIOUS
<1>8. ChainShape(chains[c], b) /\ PreHash[b] \in Block /\ chains[c] \in ForkedChain
  BY <1>1, <1>4, <1>5, <1>6 DEF ChainsShape, Seat, DiskShape
<1>9. /\ ChainShape(v, diskChain.head)
      /\ v.headHeight = chains[c].headHeight
      /\ v.headHash = chains[c].headHash
      /\ \A x \in Block : Holds(v.heightBlocks, x) => ChainHolds(c, x) \/ x = b
  BY <1>6, <1>7, <1>8, TailTaken DEF ChainHolds
<1>10. v.referChain = chains[c].referChain
  BY <1>7, <1>8 DEF AddTail, ForkedChain
<1>11. chains' = [chains EXCEPT ![current] = v]
  BY <1>2, <1>5, <1>6, <1>7
<1>12. ChainsShape' /\ Base' = current
  BY <1>2, <1>4, <1>5, <1>9, <1>10, <1>11, FrameFacts, BaseMoves
<1>13. chains'[c] = v /\ \A d \in chainIds \ {c} : chains'[d] = chains[d]
  BY <1>1, <1>5, <1>11
<1>14. DiskShape'
  BY <1>1, <1>2 DEF DiskShape, Top
<1>15. HandShape' /\ HandFree'
  BY <1>3, <1>4 DEF HandShape, HandFree
<1>16. ForkShape'
  BY <1>2, <1>3, <1>4, <1>12, FrameFacts DEF ForkShape
<1>17. VisitShape'
  <2>1. \A d \in chainIds : /\ chains'[d].headHeight = chains[d].headHeight
                            /\ chains'[d].headHash = chains[d].headHash
    BY <1>9, <1>13
  <2> QED
    BY <1>1, <1>2, <2>1, FrameFacts, VisitStays
<1>18. OnePlace'
  <2>1. \A s \in Snippets' \cup Live', a \in Block : SnippetHolds(s, a)' <=> SnippetHolds(s, a)
    BY <1>2, FrameFacts DEF SnippetHolds
  <2>2. \A d \in chainIds \ {c}, a \in Block : ChainHolds(d, a)' <=> ChainHolds(d, a)
    BY <1>13 DEF ChainHolds
  <2>3. \A a \in Block : ChainHolds(c, a)' => ChainHolds(c, a) \/ a = b
    BY <1>9, <1>13 DEF ChainHolds
  <2>4. /\ b \in compoundBlocks /\ b \notin diskChain'.byHash
        /\ \A s \in Snippets' : ~SnippetHolds(s, b)'
        /\ \A d \in chainIds' \ {c} : ~ChainHolds(d, b)'
    BY <1>1, <1>2, <1>4, <1>6, <2>1, <2>2, FrameFacts DEF HandFree
  <2>5. \A a \in Block \ {Genesis}, d \in chainIds' : ChainHolds(d, a)' =>
            \/ d \in chainIds /\ ChainHolds(d, a)
            \/ /\ d = c /\ a \in compoundBlocks /\ a \notin diskChain'.byHash
               /\ \A s \in Snippets' : ~SnippetHolds(s, a)'
               /\ \A e \in chainIds' \ {c} : ~ChainHolds(e, a)'
    BY <1>2, <2>2, <2>3, <2>4, FrameFacts
  <2> QED
    BY <1>1, <1>2, <2>1, <2>5, FrameFacts, PlacesMoved
<1> QED
  BY <1>12, <1>14, <1>15, <1>16, <1>17, <1>18 DEF PoolShape

\* At the end of rollback the disk ends at the block where branches part, or
\* below it.
LEMMA ShapeCheck ==
    ASSUME Ground, OneForkPoint, PoolShape, RollbackCheck
    PROVE  PoolShape'
<1>1. DiskShape /\ HandShape /\ ForkShape /\ TypeOK /\ fork \in ForkLocals
  BY DEF PoolShape, Ground, TypeOK, ForkLocals
<1>2. /\ ~crashed /\ fork.pc = "rollback" /\ ForkFrame /\ UNCHANGED <<chains, diskChain>>
      /\ chains[current].tailHeight <= fork.point
  BY DEF RollbackCheck, RollbackDone
<1>3. /\ Base = current /\ fork.longest # current /\ fork.point = ForkHeight
      /\ fork.block = Nil /\ ~InHand
  BY <1>1, <1>2 DEF ForkShape, HandShape, InHand
<1>4. Top \in Int /\ diskChain.head # Nil
  BY <1>1, DiskReads, TreeAssumption DEF DiskShape
<1>5. chains[current].tailHeight = Top
  <2>1. chains[Base].tailHeight = Top
    BY <1>3, <1>4, BaseReads
  <2> QED
    BY <1>3, <2>1
<1>6. ~crashed' /\ \E p \in {"rolled", "failed"} : fork' = [fork EXCEPT !.pc = p]
  BY <1>2, <1>4 DEF RollbackCheck
<1>7. /\ fork'.pc \in {"rolled", "failed"} /\ fork'.longest = fork.longest
      /\ fork'.block = fork.block
  BY <1>1, <1>6 DEF ForkLocals
<1> QED
  BY <1>2, <1>3, <1>5, <1>6, <1>7, FrameFacts, ForkMoves

\* While references are turned around, and before the last turn, the current
\* chain is the base and the target stands on the block where branches part.
LEMMA TurnFacts ==
    ASSUME Ground, OneForkPoint, PoolShape, fork.pc = "modify",
           chains[fork.longest].referChain # Disk
    PROVE  /\ fork.longest \in chainIds /\ fork.longest # current /\ Base = current
           /\ current \in chainIds
           /\ chains[fork.longest].referChain \in chainIds
           /\ chains[fork.longest].referChain # fork.longest
           /\ chains[fork.longest].tailHeight = ForkHeight
           /\ ~InHand /\ ~LastTurn /\ fork.block = Nil
           /\ Top \in Int /\ ForkHeight \in Int /\ 0 <= Top /\ Top <= ForkHeight
           /\ chains[current].tailHeight = Top
           /\ \A c \in chainIds \ {current} : chains[c].tailHeight = ForkHeight
<1>1. /\ ~InHand /\ ~LastTurn /\ fork.block = Nil /\ Top <= ForkHeight
      /\ fork.longest \in chainIds /\ fork.longest # current /\ current \in chainIds
  BY DEF InHand, LastTurn, PoolShape, HandShape, ForkShape, WriteLocked, Ground, Bookkeeping
<1>2. fork.longest # Base
  BY <1>1, ChainFacts
<1>3. Base = current
  BY <1>2 DEF Base
<1>4. /\ chains[fork.longest].referChain \in chainIds
      /\ chains[fork.longest].referChain # fork.longest
  <2>1. chains[fork.longest].referChain \in chainIds \cup {Disk}
    BY <1>1 DEF Ground, RefersReachDisk
  <2>2. \E c \in {fork.longest} : chains[c].referChain \notin {fork.longest}
    <3>1. {fork.longest} \in SUBSET chainIds /\ {fork.longest} # {}
      BY <1>1
    <3> QED
      BY <3>1 DEF Ground, RefersReachDisk
  <2> QED
    BY <2>1, <2>2
<1>5. ForkHeight \in Int /\ Top \in Int /\ 0 <= Top
  BY ForkBlockFacts, HandFacts
<1>6. \A c \in chainIds \ {current} : chains[c].tailHeight = ForkHeight
  BY <1>3, <1>5, SideReads
<1>7. chains[current].tailHeight = Top
  <2>1. chains[Base].tailHeight = Top
    BY <1>1, <1>5, BaseReads
  <2> QED
    BY <1>3, <2>1
<1> QED
  BY <1>1, <1>3, <1>4, <1>5, <1>6, <1>7

\* removeTail: the current chain gives up the block where branches part.
LEMMA ShapeRemoveTail ==
    ASSUME Ground, OneForkPoint, PoolShape, ModifyRemoveTail
    PROVE  PoolShape'
<1>1. /\ OnePlace /\ DiskShape /\ ChainsShape /\ HandShape /\ ForkShape /\ VisitShape
      /\ TypeOK /\ Bookkeeping /\ fork \in ForkLocals /\ chains \in [Block -> ForkedChain]
      /\ chainIds \subseteq Block
  BY DEF PoolShape, Ground, TypeOK, ForkLocals, Bookkeeping
<1>2. PICK to, from : to = fork.longest /\ from = chains[to].referChain
  OBVIOUS
<1>3. /\ ~crashed /\ fork.pc = "modify" /\ from # Disk /\ ForkFrame /\ diskChain' = diskChain
      /\ chains[to].tailHeight > chains[from].tailHeight
  BY <1>2, Zenon DEF ModifyRemoveTail, Moves
<1>4. /\ to \in chainIds /\ to # current /\ Base = current /\ current \in chainIds
      /\ from \in chainIds /\ chains[to].tailHeight = ForkHeight
      /\ ~InHand /\ ~LastTurn
      /\ Top \in Int /\ ForkHeight \in Int /\ 0 <= Top
      /\ chains[current].tailHeight = Top
      /\ \A c \in chainIds \ {current} : chains[c].tailHeight = ForkHeight
  BY <1>2, <1>3, TurnFacts
<1>5. from = current /\ Top < ForkHeight
  BY <1>3, <1>4
<1>6. Top + 1 = ForkHeight
  BY <1>4, <1>5, ForkBlockFacts
<1>7. chains[from].headHeight \in Int /\ chains[from].headHeight > ForkHeight
  BY <1>4, <1>5, ChainFacts, OwnReads
<1>8. PICK b : b = OwnBlock(from, ForkHeight)
  OBVIOUS
<1>9. /\ b \in Block \ {Genesis} /\ BlockHeight[b] = ForkHeight /\ ChainHolds(from, b)
      /\ b = chains[from].heightBlocks[ForkHeight] /\ PreHash[b] = Foot(from)
  <2>1. /\ ForkHeight > chains[from].tailHeight /\ ForkHeight <= chains[from].headHeight
        /\ ForkHeight = chains[from].tailHeight + 1
    BY <1>4, <1>5, <1>6, <1>7
  <2> QED
    BY <1>4, <1>8, <2>1, OwnReads
<1>10. b = ForkBlock
  BY <1>4, <1>9, ForkBlockFacts, OneBelow DEF ForkHeight
<1>11. Foot(from) = diskChain.head /\ Seat = diskChain.head
  BY <1>4, <1>5 DEF Foot, Seat
<1>12. b # Nil
  BY <1>9, TreeAssumption
<1>13. PICK v : v = RemoveTail(chains[from], b)
  OBVIOUS
<1>14. /\ chains' = [chains EXCEPT ![from] = v] /\ crashed' = crashed
       /\ fork' = [fork EXCEPT !.pc = "untailed", !.block = b, !.from = from]
  BY <1>2, <1>4, <1>8, <1>12, <1>13, Zenon DEF ModifyRemoveTail
<1>15. /\ fork'.pc = "untailed" /\ fork'.block = b /\ fork'.from = from
       /\ fork'.longest = fork.longest
  BY <1>1, <1>14 DEF ForkLocals
<1>16. ChainShape(chains[from], diskChain.head) /\ chains[from] \in ForkedChain /\ diskChain.head \in Block
  BY <1>1, <1>4, <1>11, ChainFacts DEF DiskShape
<1>17. /\ ChainShape(v, b)
       /\ v.headHeight = chains[from].headHeight
       /\ v.headHash = chains[from].headHash
       /\ \A x \in Block : Holds(v.heightBlocks, x) => ChainHolds(from, x) /\ x # b
  <2>1. /\ chains[from].tailHeight + 1 < chains[from].headHeight
        /\ b = chains[from].heightBlocks[chains[from].tailHeight + 1]
    BY <1>4, <1>5, <1>6, <1>7, <1>9
  <2> QED
    BY <1>13, <1>16, <2>1, TailGiven DEF ChainHolds
<1>18. v.referChain = chains[from].referChain
  BY <1>13, <1>16 DEF RemoveTail, ForkedChain
<1>19. ~LastTurn' /\ InHand' /\ Seat' = b
  BY <1>15 DEF LastTurn, InHand, Seat
<1>20. chains' = [chains EXCEPT ![current] = v]
  BY <1>5, <1>14
<1>21. ChainsShape' /\ Base' = current
  BY <1>3, <1>4, <1>5, <1>17, <1>18, <1>19, <1>20, FrameFacts, BaseMoves
<1>22. DiskShape' /\ Top' = Top
  BY <1>1, <1>3 DEF DiskShape, Top
<1>23. HandShape'
  BY <1>3, <1>5, <1>9, <1>10, <1>11, <1>15, <1>19, FrameFacts DEF HandShape, LastTurn
<1>24. ForkShape'
  <2>1. Top' <= ForkHeight
    BY <1>4, <1>5, <1>22
  <2> QED
    BY <1>2, <1>3, <1>4, <1>14, <1>15, <1>21, <2>1, FrameFacts DEF ForkShape
<1>25. chains'[from] = v /\ \A d \in chainIds \ {from} : chains'[d] = chains[d]
  BY <1>1, <1>4, <1>14
<1>26. VisitShape'
  <2>1. \A d \in chainIds : /\ chains'[d].headHeight = chains[d].headHeight
                            /\ chains'[d].headHash = chains[d].headHash
    BY <1>17, <1>25
  <2> QED
    BY <1>1, <1>3, <2>1, FrameFacts, VisitStays
<1>27. \A d \in chainIds, a \in Block : ChainHolds(d, a)' => ChainHolds(d, a)
  BY <1>17, <1>25 DEF ChainHolds
<1>28. \A s \in Snippets' \cup Live', a \in Block : SnippetHolds(s, a)' <=> SnippetHolds(s, a)
  BY <1>3, FrameFacts DEF SnippetHolds
<1>29. OnePlace'
  <2>1. \A a \in Block \ {Genesis}, d \in chainIds' : ChainHolds(d, a)' =>
            d \in chainIds /\ ChainHolds(d, a)
    BY <1>3, <1>27, FrameFacts
  <2> QED
    BY <1>1, <1>3, <1>28, <2>1, FrameFacts, PlacesMoved
<1>30. HandFree'
  <2>1. /\ b \in compoundBlocks /\ b \notin diskChain.byHash
        /\ \A d \in chainIds \ {from} : ~ChainHolds(d, b)
        /\ \A s \in Snippets : ~SnippetHolds(s, b)
    BY <1>1, <1>4, <1>9 DEF OnePlace
  <2>2. ~ChainHolds(from, b)'
    BY <1>9, <1>17, <1>25 DEF ChainHolds
  <2>3. /\ b \in compoundBlocks' /\ b \notin diskChain'.byHash
        /\ \A s \in Snippets' : ~SnippetHolds(s, b)'
        /\ \A d \in chainIds' : ~ChainHolds(d, b)'
    BY <1>3, <1>9, <1>27, <1>28, <2>1, <2>2, FrameFacts
  <2> QED
    BY <1>15, <2>3 DEF HandFree, SnippetHolds, ChainHolds
<1> QED
  BY <1>21, <1>22, <1>23, <1>24, <1>26, <1>29, <1>30 DEF PoolShape

\* addTail: the target takes the block and continues the disk.
LEMMA ShapeModifyAddTail ==
    ASSUME Ground, OneForkPoint, PoolShape, ModifyAddTail
    PROVE  PoolShape'
<1>1. /\ OnePlace /\ HandFree /\ DiskShape /\ ChainsShape /\ HandShape /\ ForkShape /\ VisitShape
      /\ TypeOK /\ Bookkeeping /\ fork \in ForkLocals /\ chains \in [Block -> ForkedChain]
      /\ current \in chainIds /\ chainIds \subseteq Block
  BY DEF PoolShape, Ground, TypeOK, ForkLocals, Bookkeeping
<1>2. PICK c \in chainIds : c = fork.longest
  BY <1>1 DEF Bookkeeping
<1>3. /\ ~crashed /\ fork.pc = "untailed" /\ ForkFrame /\ UNCHANGED <<diskChain, crashed>>
      /\ chains' = [chains EXCEPT ![c] = AddTail(chains[c], fork.block)]
      /\ fork' = [fork EXCEPT !.pc = "refer"]
  BY <1>2 DEF ModifyAddTail
<1>4. /\ fork'.pc = "refer" /\ fork'.block = fork.block /\ fork'.longest = fork.longest
      /\ fork'.from = fork.from
  BY <1>1, <1>3 DEF ForkLocals
<1>5. /\ InHand /\ ~LastTurn /\ ~InHand' /\ Seat' = diskChain.head
      /\ Base = current /\ c # current /\ Top <= ForkHeight
  BY <1>1, <1>2, <1>3, <1>4 DEF ForkShape, InHand, LastTurn, Seat, WriteLocked
<1>6. PICK b \in Block \ {Genesis} : b = fork.block /\ PreHash[b] = diskChain.head
  BY <1>5, HandFacts
<1>7. b = ForkBlock /\ fork.from = current
  BY <1>1, <1>3, <1>6, TreeAssumption DEF HandShape
<1>8. LastTurn' /\ Base' = c
  BY <1>2, <1>3, <1>4, <1>7, FrameFacts DEF LastTurn, Base
<1>9. PICK v : v = AddTail(chains[c], b)
  OBVIOUS
<1>10. ChainShape(chains[c], b) /\ PreHash[b] \in Block /\ chains[c] \in ForkedChain
  BY <1>1, <1>5, <1>6, <1>7 DEF ChainsShape, DiskShape
<1>11. /\ ChainShape(v, diskChain.head)
       /\ v.headHeight = chains[c].headHeight
       /\ v.headHash = chains[c].headHash
       /\ \A x \in Block : Holds(v.heightBlocks, x) => ChainHolds(c, x) \/ x = b
  BY <1>6, <1>9, <1>10, TailTaken DEF ChainHolds
<1>12. v.referChain = chains[c].referChain
  BY <1>9, <1>10 DEF AddTail, ForkedChain
<1>13. chains'[c] = v /\ \A d \in chainIds \ {c} : chains'[d] = chains[d]
  BY <1>1, <1>3, <1>6, <1>9
<1>14. ChainsShape'
  <2>1. /\ chains'[current].referChain = Disk
        /\ \A d \in chainIds : chains'[d].referChain = Disk => d = current
    BY <1>1, <1>5, <1>12, <1>13 DEF ChainsShape
  <2>2. \A d \in chainIds \ {c} : ChainShape(chains'[d], ForkBlock)
    BY <1>1, <1>5, <1>6, <1>7, <1>13 DEF ChainsShape, Seat
  <2>3. \A d, e \in chainIds : d # e => chains'[d].headHeight > ForkHeight
    BY <1>1, <1>11, <1>13 DEF ChainsShape
  <2>4. ChainShape(chains'[c], diskChain.head)
    BY <1>11, <1>13
  <2> QED
    BY <1>3, <1>5, <1>8, <2>1, <2>2, <2>3, <2>4, FrameFacts DEF ChainsShape
<1>15. DiskShape' /\ Top' = Top
  BY <1>1, <1>3 DEF DiskShape, Top
<1>16. HandShape' /\ HandFree'
  BY <1>3, <1>4, <1>5, <1>6, <1>7, FrameFacts, TreeAssumption DEF HandShape, HandFree
<1>17. ForkShape'
  BY <1>2, <1>3, <1>4, <1>5, <1>15, FrameFacts DEF ForkShape
<1>18. VisitShape'
  <2>1. \A d \in chainIds : /\ chains'[d].headHeight = chains[d].headHeight
                            /\ chains'[d].headHash = chains[d].headHash
    BY <1>11, <1>13
  <2> QED
    BY <1>1, <1>3, <2>1, FrameFacts, VisitStays
<1>19. OnePlace'
  <2>1. \A s \in Snippets' \cup Live', a \in Block : SnippetHolds(s, a)' <=> SnippetHolds(s, a)
    BY <1>3, FrameFacts DEF SnippetHolds
  <2>2. \A d \in chainIds \ {c}, a \in Block : ChainHolds(d, a)' <=> ChainHolds(d, a)
    BY <1>13 DEF ChainHolds
  <2>3. \A a \in Block : ChainHolds(c, a)' => ChainHolds(c, a) \/ a = b
    BY <1>11, <1>13 DEF ChainHolds
  <2>4. /\ b \in compoundBlocks /\ b \notin diskChain'.byHash
        /\ \A s \in Snippets' : ~SnippetHolds(s, b)'
        /\ \A d \in chainIds' \ {c} : ~ChainHolds(d, b)'
    BY <1>1, <1>3, <1>5, <1>6, <2>1, <2>2, FrameFacts DEF HandFree
  <2>5. \A a \in Block \ {Genesis}, d \in chainIds' : ChainHolds(d, a)' =>
            \/ d \in chainIds /\ ChainHolds(d, a)
            \/ /\ d = c /\ a \in compoundBlocks /\ a \notin diskChain'.byHash
               /\ \A s \in Snippets' : ~SnippetHolds(s, a)'
               /\ \A e \in chainIds' \ {c} : ~ChainHolds(e, a)'
    BY <1>3, <2>2, <2>3, <2>4, FrameFacts
  <2> QED
    BY <1>1, <1>3, <2>1, <2>5, FrameFacts, PlacesMoved
<1> QED
  BY <1>14, <1>15, <1>16, <1>17, <1>18, <1>19 DEF PoolShape

\* A round of modifyRefer that has no block to move: in the last one, the disk
\* ends at the block where branches part and both chains stand on it.
LEMMA ShapeRefer ==
    ASSUME Ground, OneForkPoint, PoolShape, ModifyRefer
    PROVE  PoolShape'
<1>1. /\ OnePlace /\ DiskShape /\ ChainsShape /\ HandShape /\ ForkShape /\ VisitShape
      /\ TypeOK /\ Bookkeeping /\ fork \in ForkLocals
  BY DEF PoolShape, Ground, TypeOK, ForkLocals, Bookkeeping
<1>2. PICK to, from : to = fork.longest /\ from = chains[to].referChain
  OBVIOUS
<1>3. /\ ~crashed /\ fork.pc = "modify" /\ from # Disk /\ ForkFrame
      /\ UNCHANGED <<chains, diskChain, crashed>>
      /\ ~(chains[to].tailHeight > chains[from].tailHeight)
      /\ fork' = [fork EXCEPT !.pc = "refer", !.from = from]
  BY <1>2, Zenon DEF ModifyRefer, Moves
<1>4. /\ to \in chainIds /\ to # current /\ Base = current /\ current \in chainIds
      /\ from \in chainIds /\ chains[to].tailHeight = ForkHeight
      /\ ~InHand /\ ~LastTurn /\ fork.block = Nil
      /\ Top \in Int /\ ForkHeight \in Int /\ Top <= ForkHeight
      /\ chains[current].tailHeight = Top
  BY <1>2, <1>3, TurnFacts
<1>5. /\ fork'.pc = "refer" /\ fork'.block = Nil /\ fork'.longest = to /\ fork'.from = from
  BY <1>1, <1>2, <1>3, <1>4 DEF ForkLocals
<1>6. ~InHand' /\ Seat' = diskChain.head /\ Seat = diskChain.head
  BY <1>3, <1>4, <1>5 DEF InHand, Seat
<1>7. DiskShape' /\ Top' = Top
  BY <1>1, <1>3 DEF DiskShape, Top
<1>8. from = current => Top = ForkHeight
  BY <1>3, <1>4
<1>9. HandShape' /\ HandFree'
  BY <1>3, <1>5, <1>6, <1>7, <1>8, FrameFacts DEF HandShape, HandFree, LastTurn
<1>10. ForkShape'
  BY <1>3, <1>4, <1>5, <1>7, FrameFacts DEF ForkShape
<1>11. ChainsShape'
  <2>1. CASE from = current
    <3>1. LastTurn' /\ Base' = to
      BY <1>3, <1>5, <2>1, FrameFacts DEF LastTurn, Base
    <3>2. diskChain.head = ForkBlock
      <4>1. diskChain.head \in Block /\ BlockHeight[diskChain.head] = ForkHeight
        BY <1>1, <1>8, <2>1 DEF DiskShape, Top
      <4> QED
        BY <1>4, <4>1, ForkBlockFacts, OneBelow DEF ForkHeight
    <3>3. \A c \in chainIds : ChainShape(chains[c], ForkBlock)
      BY <1>1, <1>6, <3>2 DEF ChainsShape
    <3> QED
      BY <1>1, <1>3, <1>4, <1>6, <3>1, <3>2, <3>3, FrameFacts DEF ChainsShape
  <2>2. CASE from # current
    <3>1. ~LastTurn'
      BY <1>3, <1>5, <2>2, FrameFacts DEF LastTurn
    <3>2. Base' = Base
      BY <1>2, <1>3, <1>4, <1>5, <3>1, FrameFacts DEF Base
    <3> QED
      BY <1>1, <1>3, <1>4, <1>6, <3>1, <3>2, FrameFacts DEF ChainsShape
  <2> QED
    BY <2>1, <2>2
<1>12. OnePlace' /\ VisitShape'
  BY <1>1, <1>3, FrameFacts, PlacesStay, VisitStays
<1> QED
  BY <1>7, <1>9, <1>10, <1>11, <1>12 DEF PoolShape

\* Only a reference and the state of snapshotFork change.
LEMMA ReferMoves ==
    ASSUME Ground, OneForkPoint, PoolShape, NEW c \in chainIds, NEW r,
           chains' = [chains EXCEPT ![c].referChain = r],
           ForkFrame, diskChain' = diskChain, ~InHand, ~InHand'
    PROVE  /\ OnePlace' /\ HandFree' /\ DiskShape' /\ VisitShape'
           /\ Top' = Top /\ Seat' = diskChain.head /\ Seat = diskChain.head
           /\ chains'[c].referChain = r
           /\ \A d \in chainIds \ {c} : chains'[d].referChain = chains[d].referChain
           /\ \A d \in chainIds : /\ chains'[d].headHeight = chains[d].headHeight
                                  /\ \A foot : ChainShape(chains[d], foot) => ChainShape(chains'[d], foot)
<1>1. /\ OnePlace /\ DiskShape /\ VisitShape /\ TypeOK /\ Bookkeeping
      /\ chains \in [Block -> ForkedChain] /\ chainIds \subseteq Block
  BY DEF PoolShape, Ground, TypeOK
<1>2. /\ chains'[c].referChain = r
      /\ \A d \in chainIds \ {c} : chains'[d] = chains[d]
      /\ chains'[c].headHeight = chains[c].headHeight
      /\ chains'[c].headHash = chains[c].headHash
      /\ chains'[c].tailHeight = chains[c].tailHeight
      /\ chains'[c].heightBlocks = chains[c].heightBlocks
  BY <1>1 DEF ForkedChain
<1>3. DiskShape' /\ Top' = Top /\ HandFree' /\ Seat' = diskChain.head /\ Seat = diskChain.head
  BY <1>1 DEF DiskShape, Top, HandFree, Seat
<1>4. ASSUME NEW d \in chainIds
      PROVE  /\ chains'[d].headHeight = chains[d].headHeight
             /\ chains'[d].headHash = chains[d].headHash
             /\ chains'[d].tailHeight = chains[d].tailHeight
             /\ chains'[d].heightBlocks = chains[d].heightBlocks
  BY <1>2
<1>5. ASSUME NEW d \in chainIds, NEW foot, ChainShape(chains[d], foot)
      PROVE  ChainShape(chains'[d], foot)
  BY <1>4, <1>5 DEF ChainShape
<1>6. VisitShape'
  BY <1>1, <1>4, FrameFacts, VisitStays
<1>7. \A s \in Snippets' \cup Live', a \in Block : SnippetHolds(s, a)' => SnippetHolds(s, a)
  BY FrameFacts DEF SnippetHolds
<1>8. \A d \in chainIds', a \in Block : ChainHolds(d, a)' => d \in chainIds /\ ChainHolds(d, a)
  BY <1>4, FrameFacts DEF ChainHolds
<1>9. OnePlace'
  BY <1>1, <1>7, <1>8, FrameFacts, PlacesMoved
<1> QED
  BY <1>2, <1>3, <1>4, <1>5, <1>6, <1>9

\* The target refers to what from refers to.
LEMMA ShapeReferTo ==
    ASSUME Ground, OneForkPoint, PoolShape, ModifyReferTo
    PROVE  PoolShape'
<1>1. /\ ChainsShape /\ HandShape /\ ForkShape /\ TurnShape
      /\ TypeOK /\ Bookkeeping /\ fork \in ForkLocals /\ current \in chainIds
      /\ Disk \notin chainIds
  BY ChainFacts DEF PoolShape, Ground, TypeOK, ForkLocals, Bookkeeping
<1>2. PICK c \in chainIds : c = fork.longest
  BY <1>1 DEF Bookkeeping
<1>3. PICK r : r = chains[fork.from].referChain
  OBVIOUS
<1>4. /\ ~crashed /\ fork.pc = "refer" /\ ForkFrame /\ UNCHANGED <<diskChain, crashed>>
      /\ chains' = [chains EXCEPT ![c].referChain = r]
      /\ fork' = [fork EXCEPT !.pc = "turn"]
  BY <1>2, <1>3 DEF ModifyReferTo, TurnedRefer
<1>5. /\ fork'.pc = "turn" /\ fork'.block = fork.block /\ fork'.longest = c
      /\ fork'.from = fork.from
  BY <1>1, <1>2, <1>4 DEF ForkLocals
<1>6. /\ ~InHand /\ ~InHand' /\ LastTurn' = LastTurn /\ c # current /\ Top <= ForkHeight
      /\ fork.from \in chainIds /\ fork.from # c /\ chains[c].referChain = fork.from
  BY <1>1, <1>2, <1>4, <1>5, FrameFacts DEF InHand, LastTurn, ForkShape, WriteLocked, TurnShape
<1>7. /\ OnePlace' /\ HandFree' /\ DiskShape' /\ VisitShape'
      /\ Top' = Top /\ Seat' = diskChain.head /\ Seat = diskChain.head
      /\ chains'[c].referChain = r
      /\ \A d \in chainIds \ {c} : chains'[d].referChain = chains[d].referChain
      /\ \A d \in chainIds : /\ chains'[d].headHeight = chains[d].headHeight
                             /\ \A foot : ChainShape(chains[d], foot) => ChainShape(chains'[d], foot)
  BY <1>4, <1>6, ReferMoves
<1>8. HandShape'
  BY <1>1, <1>4, <1>5, <1>6, <1>7, FrameFacts DEF HandShape
<1>9. ForkShape'
  BY <1>4, <1>5, <1>6, <1>7, FrameFacts DEF ForkShape
<1>10. CASE LastTurn
  <2>1. /\ r = Disk /\ Base = c /\ Base' = c
    BY <1>1, <1>2, <1>3, <1>5, <1>6, <1>10 DEF LastTurn, ChainsShape, Base
  <2>2. /\ chains'[current].referChain = Disk
        /\ \A d \in chainIds : chains'[d].referChain = Disk => d \in {current, c}
    BY <1>1, <1>6, <1>7, <1>10, <2>1 DEF ChainsShape
  <2>3. /\ ChainShape(chains'[c], diskChain.head)
        /\ \A d \in chainIds \ {c} : ChainShape(chains'[d], ForkBlock)
        /\ \A d, e \in chainIds : d # e => chains'[d].headHeight > ForkHeight
    BY <1>1, <1>7, <2>1 DEF ChainsShape
  <2>4. ChainsShape'
    BY <1>4, <1>6, <1>7, <1>10, <2>1, <2>2, <2>3, FrameFacts DEF ChainsShape
  <2> QED
    BY <1>7, <1>8, <1>9, <2>4 DEF PoolShape
<1>11. CASE ~LastTurn
  <2>1. Base = current
    <3>1. c # Base
      BY <1>1, <1>6, <1>11 DEF ChainsShape
    <3> QED
      BY <1>2, <3>1 DEF Base
  <2>2. fork.from # current
    BY <1>4, <1>11 DEF LastTurn
  <2>3. r # Disk
    BY <1>1, <1>3, <1>6, <1>11, <2>1, <2>2 DEF ChainsShape
  <2>4. \A d \in chainIds : chains'[d].referChain = Disk <=> d = current
    BY <1>1, <1>6, <1>7, <1>11, <2>1, <2>3 DEF ChainsShape
  <2>5. Base' = current
    BY <1>1, <1>4, <1>6, <1>11, <2>4, FrameFacts DEF Base
  <2>6. /\ ChainShape(chains'[current], diskChain.head)
        /\ \A d \in chainIds \ {current} : ChainShape(chains'[d], ForkBlock)
        /\ \A d, e \in chainIds : d # e => chains'[d].headHeight > ForkHeight
    BY <1>1, <1>7, <2>1 DEF ChainsShape
  <2>7. ChainsShape'
    BY <1>4, <1>6, <1>7, <1>11, <2>4, <2>5, <2>6, FrameFacts DEF ChainsShape
  <2> QED
    BY <1>7, <1>8, <1>9, <2>7 DEF PoolShape
<1> QED
  BY <1>10, <1>11

\* And from refers to the target.
LEMMA ShapeReferFrom ==
    ASSUME Ground, OneForkPoint, PoolShape, ModifyReferFrom
    PROVE  PoolShape'
<1>1. /\ ChainsShape /\ HandShape /\ ForkShape /\ TurnShape
      /\ TypeOK /\ Bookkeeping /\ fork \in ForkLocals /\ current \in chainIds
      /\ Disk \notin chainIds
  BY ChainFacts DEF PoolShape, Ground, TypeOK, ForkLocals, Bookkeeping
<1>2. PICK c \in chainIds : c = fork.from
  BY <1>1 DEF TurnShape
<1>3. PICK l \in chainIds : l = fork.longest
  BY <1>1 DEF Bookkeeping
<1>4. /\ ~crashed /\ fork.pc = "turn" /\ ForkFrame /\ UNCHANGED <<diskChain, crashed>>
      /\ chains' = [chains EXCEPT ![c].referChain = l]
      /\ fork' = [fork EXCEPT !.pc = "modify", !.block = Nil, !.from = Genesis]
  BY <1>2, <1>3 DEF ModifyReferFrom
<1>5. /\ fork'.pc = "modify" /\ fork'.block = Nil /\ fork'.longest = l
  BY <1>1, <1>3, <1>4 DEF ForkLocals
<1>6. /\ ~InHand /\ ~InHand' /\ ~LastTurn' /\ l # current /\ Top <= ForkHeight
      /\ c # l /\ chains[l].referChain = chains[c].referChain /\ l # Disk
  BY <1>1, <1>2, <1>3, <1>4, <1>5 DEF InHand, LastTurn, ForkShape, WriteLocked, TurnShape
<1>7. /\ OnePlace' /\ HandFree' /\ DiskShape' /\ VisitShape'
      /\ Top' = Top /\ Seat' = diskChain.head /\ Seat = diskChain.head
      /\ chains'[c].referChain = l
      /\ \A d \in chainIds \ {c} : chains'[d].referChain = chains[d].referChain
      /\ \A d \in chainIds : /\ chains'[d].headHeight = chains[d].headHeight
                             /\ \A foot : ChainShape(chains[d], foot) => ChainShape(chains'[d], foot)
  BY <1>4, <1>6, ReferMoves
<1>8. HandShape'
  BY <1>5, <1>6 DEF HandShape
<1>9. ForkShape'
  BY <1>4, <1>5, <1>6, <1>7, FrameFacts DEF ForkShape
<1>10. CASE LastTurn
  <2>1. /\ c = current /\ Base = l /\ chains[l].referChain = Disk
    BY <1>1, <1>2, <1>3, <1>6, <1>10 DEF LastTurn, ChainsShape, Base
  <2>2. \A d \in chainIds : chains'[d].referChain = Disk <=> d = l
    BY <1>1, <1>6, <1>7, <1>10, <2>1 DEF ChainsShape
  <2>3. Base' = l
    BY <1>1, <1>4, <1>5, <1>6, <2>2, FrameFacts DEF Base
  <2>4. /\ ChainShape(chains'[l], diskChain.head)
        /\ \A d \in chainIds \ {l} : ChainShape(chains'[d], ForkBlock)
        /\ \A d, e \in chainIds : d # e => chains'[d].headHeight > ForkHeight
    BY <1>1, <1>7, <2>1 DEF ChainsShape
  <2>5. ChainsShape'
    BY <1>4, <1>6, <1>7, <2>2, <2>3, <2>4, FrameFacts DEF ChainsShape
  <2> QED
    BY <1>7, <1>8, <1>9, <2>5 DEF PoolShape
<1>11. CASE ~LastTurn
  <2>1. Base = current
    <3>1. l # Base
      BY <1>1, <1>6, <1>11 DEF ChainsShape
    <3> QED
      BY <1>3, <3>1 DEF Base
  <2>2. c # current
    BY <1>2, <1>4, <1>11 DEF LastTurn
  <2>3. \A d \in chainIds : chains'[d].referChain = Disk <=> d = current
    BY <1>1, <1>6, <1>7, <1>11, <2>1, <2>2 DEF ChainsShape
  <2>4. Base' = current
    BY <1>1, <1>4, <1>6, <2>3, FrameFacts DEF Base
  <2>5. /\ ChainShape(chains'[current], diskChain.head)
        /\ \A d \in chainIds \ {current} : ChainShape(chains'[d], ForkBlock)
        /\ \A d, e \in chainIds : d # e => chains'[d].headHeight > ForkHeight
    BY <1>1, <1>7, <2>1 DEF ChainsShape
  <2>6. ChainsShape'
    BY <1>4, <1>6, <1>7, <2>3, <2>4, <2>5, FrameFacts DEF ChainsShape
  <2> QED
    BY <1>7, <1>8, <1>9, <2>6 DEF PoolShape
<1> QED
  BY <1>10, <1>11

\* The target, which continues the disk, becomes the current chain.
LEMMA ShapeModifyCurrent ==
    ASSUME Ground, OneForkPoint, PoolShape, ModifyCurrent
    PROVE  PoolShape'
<1>1. /\ OnePlace /\ DiskShape /\ ChainsShape /\ VisitShape
      /\ TypeOK /\ Bookkeeping /\ fork.longest \in chainIds
  BY DEF PoolShape, Ground, Bookkeeping
<1>2. /\ ~crashed' /\ fork.pc = "modify" /\ chains[fork.longest].referChain = Disk
      /\ current' = fork.longest /\ fork' = NoFork
      /\ UNCHANGED <<compoundBlocks, snippetIds, snippetChains, chainIds, chains,
                     diskChain, pc, list, headMap, w, tmpChains, visit>>
  BY DEF ModifyCurrent, ForkReturn, netVars, genVars, appendVars
<1>3. fork'.pc = "idle" /\ fork'.block = Nil
  BY <1>2 DEF NoFork
<1>4. ~InHand /\ ~LastTurn /\ ~InHand' /\ ~LastTurn' /\ Seat = diskChain.head /\ Seat' = diskChain.head
  BY <1>2, <1>3 DEF InHand, LastTurn, Seat
<1>5. Base = fork.longest /\ Base' = fork.longest
  <2>1. Base = fork.longest
    BY <1>1, <1>2, <1>4 DEF ChainsShape
  <2>2. Base' = fork.longest
    BY <1>2, <1>4 DEF Base
  <2> QED
    BY <2>1, <2>2
<1>6. DiskShape'
  BY <1>1, <1>2 DEF DiskShape, Top
<1>7. ChainsShape'
  BY <1>1, <1>2, <1>4, <1>5 DEF ChainsShape
<1>8. HandShape' /\ HandFree'
  BY <1>3, <1>4 DEF HandShape, HandFree
<1>9. ForkShape'
  BY <1>2, <1>3, <1>5 DEF ForkShape, WriteLocked
<1>10. VisitShape'
  BY <1>1, <1>2, VisitStays
<1>11. Snippets' = Snippets /\ Live' = Live
  BY <1>2 DEF Snippets, Live
<1>12. OnePlace'
  BY <1>1, <1>2, <1>11, PlacesStay
<1> QED
  BY <1>6, <1>7, <1>8, <1>9, <1>10, <1>12 DEF PoolShape

\* loopCheckFork: the decision, the rollback, the turning of references and the
\* change of the current chain.
LEMMA ShapeFork ==
    ASSUME Ground, OneForkPoint, PoolShape, LoopCheckFork
    PROVE  PoolShape'
BY ShapeDecide, ShapeStart, ShapeRemove, ShapeAddTail, ShapeCheck, ShapeRemoveTail,
   ShapeModifyAddTail, ShapeRefer, ShapeReferTo, ShapeReferFrom, ShapeModifyCurrent
   DEF LoopCheckFork, SnapshotFork

-----------------------------------------------------------------------------
(***************************************************************************)
(* The theorems.                                                           *)
(***************************************************************************)
\* Every step keeps the shape of the pool.
LEMMA ShapeNext ==
    ASSUME Ground, OneForkPoint => PoolShape, [Next]_vars
    PROVE  OneForkPoint => PoolShape'
<1> SUFFICES ASSUME OneForkPoint PROVE PoolShape'
  OBVIOUS
<1>1. PoolShape
  OBVIOUS
<1>2. CASE UNCHANGED vars
  <2>1. UNCHANGED <<compoundBlocks, snippetIds, snippetChains, chainIds, chains, current,
                    diskChain, crashed, fork, pc, list, headMap, w, tmpChains, visit>>
    BY <1>2 DEF vars, poolVars, genVars, appendVars
  <2>2. Snippets' = Snippets /\ Live' = Live
    BY <2>1 DEF Snippets, Live
  <2>3. VisitShape'
    BY <1>1, <2>1, VisitStays DEF PoolShape, Ground
  <2>4. HandFree'
    BY <1>1, <2>1, <2>2, HandSame DEF PoolShape, Ground
  <2>5. crashed' => Overtaken' \/ HeadInHand'
    BY <1>1, <2>1 DEF PoolShape, ForkShape, Overtaken, HeadInHand, Visited
  <2> QED
    BY <1>1, <2>1, <2>2, <2>3, <2>4, <2>5, PlacesStay, ChainsStay DEF PoolShape
<1>3. CASE Network \/ Loop
  <2>1. HandFree'
    BY <1>1, <1>3, HandLoop
  <2> QED
    BY <1>1, <1>3, <2>1, ShapeNetwork, ShapeGen, ShapeAppend, ShapeInsert DEF Loop
<1>4. CASE LoopCheckFork
  BY <1>1, <1>4, ShapeFork
<1> QED
  BY <1>2, <1>3, <1>4 DEF Next

\* The disk, the chains and the snippets keep their shape, for every tree with
\* one fork point: no block is in two places; the disk is a linked run from
\* genesis; one chain continues it, or continues the one block that rollback or
\* modifyRefer has taken and not yet put back, which fits the disk; and every
\* other chain stands on the block where the branches part.
THEOREM ShapeKept == Spec => [](OneForkPoint => PoolShape)
<1>1. Init => (OneForkPoint => PoolShape)
  BY ShapeInit
<1>2. OneForkPoint' = OneForkPoint
  BY DEF OneForkPoint
<1>3. /\ TypeOK /\ Bookkeeping /\ SnippetsLinked /\ RefersReachDisk /\ TurnShape
      /\ (OneForkPoint => PoolShape) /\ [Next]_vars
      => (OneForkPoint => PoolShape)'
  BY <1>2, ShapeNext DEF Ground
<1> QED
  BY <1>1, <1>3, TypeCorrect, NamesApart, SnippetsCorrect, RefersCorrect, TurnCorrect, PTL
     DEF Spec

\* ShapeSuffices, with the facts it rests on spelled out.
LEMMA ShapeGives ==
    /\ TypeOK /\ Bookkeeping /\ SnippetsLinked /\ RefersReachDisk /\ TurnShape
    /\ (OneForkPoint => PoolShape)
    => ChainsLinked /\ CurrentOnDisk /\ DiskLinked /\ ChainsComplete /\ PanicsOnlyInRaces
  BY ShapeSuffices DEF Ground

\* The blocks that a forked chain holds are an unbroken, hash-linked run that
\* ends in its head, for every tree with one fork point: insertSnippet, forkChain,
\* writeToChain, and every single write of rollback and modifyRefer keep it, in
\* every interleaving.
THEOREM ChainsStayLinked == Spec => []ChainsLinked
  BY ShapeGives, ShapeKept, TypeCorrect, NamesApart, SnippetsCorrect, RefersCorrect,
     TurnCorrect, PTL

\* Outside snapshotFork the current chain starts where the disk ends, for every
\* tree with one fork point: what writeToChain stores next continues the disk.
THEOREM CurrentStaysOnDisk == Spec => []CurrentOnDisk
  BY ShapeGives, ShapeKept, TypeCorrect, NamesApart, SnippetsCorrect, RefersCorrect,
     TurnCorrect, PTL

\* The disk holds one hash-linked chain from genesis to its head, for every tree
\* with one fork point, although insertChain compares nothing.
THEOREM DiskStaysLinked == Spec => []DiskLinked
  BY ShapeGives, ShapeKept, TypeCorrect, NamesApart, SnippetsCorrect, RefersCorrect,
     TurnCorrect, PTL

\* getBlock through references returns, for every chain, a hash-linked chain
\* from genesis to its head, for every tree with one fork point, but for the one
\* block that snapshotFork is moving: between removeChain and addTail only the
\* current chain misses it, and it fits where it is missing.
THEOREM ChainsStayComplete == Spec => []ChainsComplete
  BY ShapeGives, ShapeKept, TypeCorrect, NamesApart, SnippetsCorrect, RefersCorrect,
     TurnCorrect, PTL

\* The process ends in two panics only, for every tree with one fork point: that
\* of a fork to a chain that was overtaken before the lock was granted, and that
\* of sameChain when forky looks at the current chain, all of which was on disk,
\* between removeChain and addTail.
THEOREM PanicsStayRaces == Spec => []PanicsOnlyInRaces
  BY ShapeGives, ShapeKept, TypeCorrect, NamesApart, SnippetsCorrect, RefersCorrect,
     TurnCorrect, PTL

-----------------------------------------------------------------------------
(***************************************************************************)
(* The refinement of FollowBranch.  First its paths: Path is the least set *)
(* of blocks closed under predecessors, and the disk and every chain lie   *)
(* on the path of their head.  Then one lemma per action.                  *)
(***************************************************************************)

\* One round of Path.
LEMMA PathRound ==
    ASSUME NEW b \in Block
    PROVE  Follow!Path[b] = IF PreHash[b] = Nil THEN {b} ELSE {b} \cup Follow!Path[PreHash[b]]
<1> DEFINE Closed(S) == \A y \in S : PreHash[y] # Nil => PreHash[y] \in S
           P == [c \in Block |-> {x \in Block : \A S \in SUBSET Block :
                                     c \in S /\ Closed(S) => x \in S}]
           Round(f) == [c \in Block |-> IF PreHash[c] = Nil THEN {c}
                                        ELSE {c} \cup f[PreHash[c]]]
           p == CHOOSE f : f = Round(f)
<1>1. P = Round(P)
  <2>1. ASSUME NEW c \in Block PROVE P[c] = Round(P)[c]
    <3>1. CASE PreHash[c] = Nil
      <4>1. {c} \in SUBSET Block /\ Closed({c})
        BY <3>1
      <4>2. P[c] = {c}
        BY <4>1
      <4> QED
        BY <3>1, <4>2
    <3>2. CASE PreHash[c] # Nil
      <4>1. PreHash[c] \in Block
        BY <3>2, TreeAssumption
      <4>2. P[PreHash[c]] \subseteq P[c] /\ c \in P[c]
        BY <3>2, <4>1
      <4>3. PICK T : T = {c} \cup P[PreHash[c]]
        OBVIOUS
      <4>4. PreHash[c] \in P[PreHash[c]] /\ P[PreHash[c]] \subseteq Block
        BY <4>1
      <4>5. Closed(P[PreHash[c]])
        BY <4>1, TreeAssumption
      <4>6. T \in SUBSET Block /\ c \in T /\ Closed(T)
        BY <4>3, <4>4, <4>5
      <4>7. P[c] \subseteq T
        BY <4>6
      <4>8. P[c] = T
        BY <4>2, <4>3, <4>7
      <4>9. Round(P)[c] = {c} \cup P[PreHash[c]]
        BY <3>2
      <4> QED
        BY <4>3, <4>8, <4>9
    <3> QED
      BY <3>1, <3>2
  <2> QED
    BY <2>1
<1>2. p = Round(p)
  BY <1>1
<1>3. Follow!Path = p
  BY DEF Follow!Path
<1> HIDE DEF p
<1> QED
  BY <1>2, <1>3

\* A block is on its own path.
LEMMA PathOwn ==
    ASSUME NEW b \in Block
    PROVE  b \in Follow!Path[b]
  BY PathRound

\* Induction over an interval: a set of its members that has with each of them
\* the one below it is empty.
LEMMA NoDescent ==
    ASSUME NEW lo \in Int, NEW hi \in Int, NEW S, S \subseteq lo..hi,
           \A h \in S : h - 1 \in S
    PROVE  S = {}
<1> SUFFICES ASSUME S # {} PROVE FALSE
  OBVIOUS
<1>1. Min(S) \in S /\ \A y \in S : Min(S) <= y
  BY MinOfInterval
<1>2. PICK h : h = Min(S)
  OBVIOUS
<1>3. h \in S /\ h - 1 \in S /\ h <= h - 1
  BY <1>1, <1>2
<1>4. h \in lo..hi
  BY <1>3
<1>5. h \in Int
  BY <1>4
<1> QED
  BY <1>3, <1>5

\* The blocks of a linked run above tail have tail on their paths, and every
\* block of the run below them.
LEMMA PathOfRun ==
    ASSUME NEW m, NEW lo \in Int, NEW hi \in Int, NEW tail \in Block,
           Run(m, lo, hi, tail), NEW k \in lo..hi
    PROVE  \A h \in k..hi : tail \in Follow!Path[m[h]] /\ m[k] \in Follow!Path[m[h]]
<1> DEFINE Good(h) == tail \in Follow!Path[m[h]] /\ (k <= h => m[k] \in Follow!Path[m[h]])
           S == {h \in lo..hi : ~Good(h)}
<1>1. ASSUME NEW h \in lo..hi, h # lo => Good(h - 1)
      PROVE  Good(h)
  <2>1. m[h] \in Block /\ PreHash[m[h]] = IF h = lo THEN tail ELSE m[h - 1]
    BY DEF Run
  <2>2. h \in Int /\ k \in Int /\ (h # lo => h - 1 \in lo..hi) /\ lo <= k
    OBVIOUS
  <2>3. PreHash[m[h]] \in Block
    BY <2>1, <2>2 DEF Run
  <2>4. Follow!Path[m[h]] = {m[h]} \cup Follow!Path[PreHash[m[h]]]
    BY <2>1, <2>3, PathRound, TreeAssumption
  <2>5. CASE h = lo
    <3>1. tail \in Follow!Path[m[h]]
      BY <2>1, <2>4, <2>5, PathOwn
    <3>2. k <= h => k = h
      BY <2>2, <2>5
    <3> QED
      BY <2>4, <3>1, <3>2
  <2>6. CASE h # lo
    <3>1. Follow!Path[m[h - 1]] \subseteq Follow!Path[m[h]]
      BY <2>1, <2>4, <2>6
    <3>2. k <= h => k = h \/ k <= h - 1
      BY <2>2
    <3> QED
      BY <1>1, <2>4, <2>6, <3>1, <3>2
  <2> QED
    BY <2>5, <2>6
<1> HIDE DEF Good
<1>2. \A h \in S : h - 1 \in S
  <2>1. ASSUME NEW h \in S PROVE h - 1 \in S
    <3>1. h \in lo..hi /\ ~Good(h)
      OBVIOUS
    <3>2. h # lo /\ ~Good(h - 1)
      BY <1>1, <3>1
    <3>3. h - 1 \in lo..hi
      BY <3>1, <3>2
    <3> QED
      BY <3>2, <3>3
  <2> QED
    BY <2>1
<1>3. S \subseteq lo..hi
  OBVIOUS
<1>4. S = {}
  <2> HIDE DEF S
  <2> QED
    BY <1>2, <1>3, NoDescent
<1>5. \A h \in lo..hi : Good(h)
  BY <1>4
<1>6. \A h \in k..hi : h \in lo..hi /\ k <= h
  OBVIOUS
<1> QED
  BY <1>5, <1>6 DEF Good

\* The path of a block of a run from genesis is the run up to it.
LEMMA PathFromGenesis ==
    ASSUME NEW m, NEW n \in Nat, m[0] = Genesis,
           \A h \in 1..n : m[h] \in Block /\ PreHash[m[h]] = m[h - 1]
    PROVE  \A k \in 0..n : Follow!Path[m[k]] = {m[h] : h \in 0..k}
<1> DEFINE Good(k) == Follow!Path[m[k]] = {m[h] : h \in 0..k}
           S == {k \in 0..n : ~Good(k)}
<1>1. Good(0)
  <2>1. Follow!Path[Genesis] = {Genesis}
    BY PathRound, TreeAssumption
  <2>2. {m[h] : h \in 0..0} = {Genesis}
    OBVIOUS
  <2> QED
    BY <2>1, <2>2
<1>2. ASSUME NEW k \in 1..n, Good(k - 1) PROVE Good(k)
  <2>1. m[k] \in Block /\ PreHash[m[k]] = m[k - 1]
    OBVIOUS
  <2>2. m[k - 1] \in Block
    <3>1. k = 1 \/ k - 1 \in 1..n
      OBVIOUS
    <3>2. k = 1 => m[k - 1] = Genesis
      OBVIOUS
    <3> QED
      BY <3>1, <3>2, TreeAssumption
  <2>3. Follow!Path[m[k]] = {m[k]} \cup Follow!Path[m[k - 1]]
    <3>1. PreHash[m[k]] # Nil
      BY <2>1, <2>2, TreeAssumption
    <3> QED
      BY <2>1, <3>1, PathRound
  <2>4. \A h \in 0..k : h = k \/ h \in 0..k - 1
    OBVIOUS
  <2>5. k \in 0..k /\ \A h \in 0..k - 1 : h \in 0..k
    OBVIOUS
  <2>6. PICK low : low = {m[h] : h \in 0..k - 1}
    OBVIOUS
  <2>7. Follow!Path[m[k]] = {m[k]} \cup low
    BY <1>2, <2>3, <2>6
  <2>8. \A x : x \in low <=> \E h \in 0..k - 1 : x = m[h]
    BY <2>6
  <2>9. ASSUME NEW x PROVE x \in {m[k]} \cup low <=> x \in {m[h] : h \in 0..k}
    BY <2>4, <2>5, <2>8
  <2> QED
    BY <2>7, <2>9
<1> HIDE DEF Good
<1>3. \A k \in S : k - 1 \in S
  <2>1. ASSUME NEW k \in S PROVE k - 1 \in S
    <3>1. k \in 0..n /\ ~Good(k) /\ k # 0
      BY <1>1
    <3>2. k \in 1..n /\ k - 1 \in 0..n
      BY <3>1
    <3>3. ~Good(k - 1)
      BY <1>2, <3>1, <3>2
    <3> QED
      BY <3>2, <3>3
  <2> QED
    BY <2>1
<1>4. S \subseteq 0..n /\ 0 \in Int /\ n \in Int
  OBVIOUS
<1>5. S = {}
  <2> HIDE DEF S
  <2> QED
    BY <1>3, <1>4, NoDescent
<1>6. \A k \in 0..n : Good(k)
  BY <1>5
<1> QED
  BY <1>6 DEF Good

\* What a disk of the right shape stores is the path of its head.
LEMMA PathOfDisk ==
    ASSUME NEW d, NEW n \in Nat, DiskRun(d, n)
    PROVE  d.byHash = Follow!Path[d.head]
<1>1. /\ d.byHeight[0] = Genesis /\ d.byHeight[n] = d.head
      /\ d.byHash = {d.byHeight[h] : h \in 0..n}
      /\ Run(d.byHeight, 1, n, Genesis)
  BY DEF DiskRun
<1>2. PICK m : m = d.byHeight
  OBVIOUS
<1>3. ASSUME NEW h \in 1..n PROVE m[h] \in Block /\ PreHash[m[h]] = m[h - 1]
  <2>1. m[h] \in Block /\ PreHash[m[h]] = IF h = 1 THEN Genesis ELSE m[h - 1]
    BY <1>1, <1>2 DEF Run
  <2>2. h = 1 => m[h - 1] = Genesis
    BY <1>1, <1>2
  <2> QED
    BY <2>1, <2>2
<1>4. n \in 0..n
  OBVIOUS
<1>5. Follow!Path[m[n]] = {m[h] : h \in 0..n}
  <2>1. m[0] = Genesis /\ \A h \in 1..n : m[h] \in Block /\ PreHash[m[h]] = m[h - 1]
    BY <1>1, <1>2, <1>3
  <2>2. \A k \in 0..n : Follow!Path[m[k]] = {m[h] : h \in 0..k}
    BY <2>1, PathFromGenesis
  <2> QED
    BY <1>4, <2>2
<1> QED
  BY <1>1, <1>2, <1>5

\* The path of the head of a chain is what the chain reads.
LEMMA PathOfChain ==
    ASSUME Ground, OneForkPoint, PoolShape, NEW c \in chainIds
    PROVE  Follow!Path[chains[c].headHash] =
               {Read(c, h) : h \in 0 .. chains[c].headHeight}
<1>1. PICK n : n = chains[c].headHeight
  OBVIOUS
<1>2. n \in Nat
  <2>1. n \in Int /\ 0 <= n
    <3>1. 0 \in Int
      OBVIOUS
    <3>2. /\ chains[c].tailHeight \in Int /\ chains[c].headHeight \in Int
          /\ 0 <= chains[c].tailHeight /\ chains[c].tailHeight <= chains[c].headHeight
      BY <3>1, OwnReads
    <3> QED
      BY <1>1, <3>2
  <2> QED
    BY <2>1
<1>3. PICK m : m = [h \in 0..n |-> Read(c, h)]
  OBVIOUS
<1>4. \A h \in 0..n : m[h] = Read(c, h)
  BY <1>3
<1>5. 0 \in 0..n /\ n \in 0..n /\ \A h \in 1..n : h \in 0..n /\ h - 1 \in 0..n /\ h # 0
  BY <1>2
<1>6. /\ Read(c, 0) = Genesis /\ Read(c, n) = chains[c].headHash
      /\ \A h \in 0..n : /\ Read(c, h) \in Block
                         /\ h # 0 => PreHash[Read(c, h)] = Read(c, h - 1)
  BY <1>1, Complete, ReadHand, TreeAssumption
<1>7. m[0] = Genesis /\ m[n] = chains[c].headHash
  BY <1>4, <1>5, <1>6
<1>8. ASSUME NEW h \in 1..n PROVE m[h] \in Block /\ PreHash[m[h]] = m[h - 1]
  BY <1>4, <1>5, <1>6
<1>9. Follow!Path[m[n]] = {m[h] : h \in 0..n}
  <2>1. m[0] = Genesis /\ \A h \in 1..n : m[h] \in Block /\ PreHash[m[h]] = m[h - 1]
    BY <1>7, <1>8
  <2>2. \A k \in 0..n : Follow!Path[m[k]] = {m[h] : h \in 0..k}
    BY <1>2, <2>1, PathFromGenesis
  <2> QED
    BY <1>5, <2>2
<1>10. {m[h] : h \in 0..n} = {Read(c, h) : h \in 0..n}
  BY <1>4
<1> QED
  BY <1>1, <1>7, <1>9, <1>10

\* The stored blocks are those at the heights up to the disk's head, and the
\* path of that head.
LEMMA StoredBlocks ==
    ASSUME Ground, OneForkPoint, PoolShape
    PROVE  /\ \A b : b \in diskChain.byHash <=> \E h \in 0..Top : b = DiskBlock(h)
           /\ diskChain.byHash = Follow!Path[diskChain.head]
<1>1. TypeOK /\ DiskShape
  BY DEF Ground, PoolShape
<1>2. Top \in Nat /\ Top <= MaxHeight /\ MaxHeight \in Nat
  BY <1>1, DiskReads, TreeAssumption
<1>3. \A h \in 0..Top : DiskBlock(h) = diskChain.byHeight[h]
  BY <1>2 DEF DiskBlock, Height
<1>4. DiskRun(diskChain, Top)
  BY <1>1 DEF DiskShape, DiskRun, Top
<1>5. diskChain.byHash = Follow!Path[diskChain.head]
  BY <1>2, <1>4, PathOfDisk
<1>6. diskChain.byHash = {diskChain.byHeight[h] : h \in 0..Top}
  BY <1>1 DEF DiskShape
<1> QED
  BY <1>3, <1>5, <1>6

\* What the disk has up to the block where branches part is on every chain.
LEMMA SharedStored ==
    ASSUME Ground, OneForkPoint, PoolShape, NEW c \in chainIds,
           NEW h \in 0..Top, c = Base \/ h <= ForkHeight
    PROVE  DiskBlock(h) \in Follow!Path[chains[c].headHash]
<1>1. TypeOK /\ DiskShape /\ Base \in chainIds
  BY ChainFacts DEF Ground, PoolShape
<1>2. Top \in Int /\ h \in Int /\ 0 <= h /\ h <= Top /\ ForkHeight \in Int
  BY <1>1, DiskReads, ForkBlockFacts
<1>3. Read(Base, h) = DiskBlock(h)
  <2>1. GetBlock(Base, h) = DiskBlock(h)
    BY <1>2, BaseReads
  <2>2. DiskBlock(h) # Nil
    BY <1>1, DiskReads, TreeAssumption
  <2> QED
    BY <2>1, <2>2, ReadHand
<1>4. h <= ForkHeight => Read(c, h) = DiskBlock(h)
  BY <1>2, <1>3, LowReads
<1>5. chains[c].headHeight \in Int
  BY <1>2, OwnReads
<1>6. h <= chains[c].headHeight
  <2>1. CASE c = Base
    <3>1. /\ chains[c].tailHeight \in {Top, Top + 1} /\ chains[c].tailHeight \in Int
          /\ chains[c].tailHeight <= chains[c].headHeight
      BY <1>2, <2>1, BaseReads, OwnReads
    <3> QED
      BY <1>2, <1>5, <3>1
  <2>2. CASE c # Base
    <3>1. chains[c].headHeight > ForkHeight
      BY <1>2, <2>2, SideReads
    <3> QED
      BY <1>2, <1>5, <2>2, <3>1
  <2> QED
    BY <2>1, <2>2
<1>7. h \in 0 .. chains[c].headHeight
  BY <1>2, <1>5, <1>6
<1> QED
  BY <1>3, <1>4, <1>7, PathOfChain

\* What the disk has above that block is on the base chain only.
LEMMA OwnStored ==
    ASSUME Ground, OneForkPoint, PoolShape, NEW c \in chainIds, c # Base,
           NEW h \in 0..Top, h > ForkHeight
    PROVE  DiskBlock(h) \notin Follow!Path[chains[c].headHash]
<1> SUFFICES ASSUME DiskBlock(h) \in Follow!Path[chains[c].headHash] PROVE FALSE
  OBVIOUS
<1>1. PICK b : b = DiskBlock(h)
  OBVIOUS
<1>2. TypeOK /\ DiskShape /\ OnePlace
  BY DEF Ground, PoolShape
<1>3. /\ ForkHeight \in Int /\ 0 <= ForkHeight /\ h \in Int
      /\ b \in Block /\ BlockHeight[b] = h /\ b \in diskChain.byHash
  BY <1>1, <1>2, DiskReads, ForkBlockFacts
<1>4. h # 0
  BY <1>3
<1>5. b # Genesis
  BY <1>3, <1>4, Bottom
<1>6. PICK k \in 0 .. chains[c].headHeight : b = Read(c, k)
  BY <1>1, PathOfChain
<1>7. k = h
  BY <1>3, <1>6, Complete
<1>8. h <= chains[c].headHeight
  BY <1>6, <1>7
<1>9. b = OwnBlock(c, h) /\ chains[c].tailHeight = ForkHeight
  <2>1. chains[c].tailHeight = ForkHeight /\ GetBlock(c, h) = OwnBlock(c, h)
    BY <1>3, <1>8, SideReads
  <2>2. OwnBlock(c, h) # Nil
    BY <1>3, <1>8, <2>1, OwnReads, TreeAssumption
  <2> QED
    BY <1>6, <1>7, <2>1, <2>2, ReadHand
<1>10. OwnBlock(c, h) = chains[c].heightBlocks[h]
  BY <1>3, <1>8, <1>9, OwnReads
<1>11. ChainHolds(c, b)
  BY <1>3, <1>9, <1>10 DEF ChainHolds, Holds
<1> QED
  BY <1>2, <1>3, <1>5, <1>11 DEF OnePlace

-----------------------------------------------------------------------------
(***************************************************************************)
(* The pool implements FollowBranch, step by step.                         *)
(***************************************************************************)
\* A step of FollowBranch, or none.
FollowStep == [Follow!Next]_(Follow!vars)

\* A step that leaves the disk, the fork and the heads of the two chains alone
\* is none.
LEMMA FollowStays ==
    ASSUME UNCHANGED <<diskChain, current, fork>>,
           chains'[current].headHash = chains[current].headHash,
           chains'[fork.longest].headHash = chains[fork.longest].headHash
    PROVE  FollowStep
<1>1. UNCHANGED Follow!vars
  BY DEF Follow!vars
<1> QED
  BY <1>1 DEF FollowStep

\* insertSnippet lengthens the branch that is followed, or the one decided for,
\* or another.
LEMMA FollowInsertSnippet ==
    ASSUME Ground, OneForkPoint, PoolShape, NEW c \in chainIds, w \in Block,
           NEW sn \in Snippet, LinkedSnippet(w, sn), InsertSnippet(c, sn), AppendFrame
    PROVE  FollowStep
<1>1. /\ UNCHANGED <<current, diskChain, fork>>
      /\ chains \in [Block -> ForkedChain] /\ c \in Block
      /\ current \in chainIds /\ fork.longest \in chainIds /\ chainIds \subseteq Block
      /\ fork.pc # "idle" => fork.longest # current
  BY DEF AppendFrame, netVars, Ground, TypeOK, Bookkeeping, PoolShape, ForkShape
<1> DEFINE Attached == /\ sn.tailHeight = chains[c].headHeight
                       /\ PreHash[sn.heightBlocks[sn.tailHeight + 1]] = chains[c].headHash
<1>2. CASE ~Attached
  <2>1. chains' = chains
    BY <1>2 DEF InsertSnippet
  <2> QED
    BY <1>1, <2>1, FollowStays
<1>3. CASE Attached
  <2>1. chains' = [chains EXCEPT ![c] = Extended(c, w, sn)]
    BY <1>3 DEF InsertSnippet
  <2>2. Extended(c, w, sn).headHash = w
    BY <1>1 DEF Extended, ForkedChain
  <2>3. chains'[c].headHash = w /\ \A d \in Block \ {c} : chains'[d] = chains[d]
    BY <1>1, <2>1, <2>2
  <2>4. chains[c].headHash \in Follow!Path[w]
    <3>1. PICK t \in Block : t = chains[c].headHash
      BY <1>1 DEF ForkedChain
    <3>2. t = sn.tailHash
      BY <1>3, <3>1, LowestBlock
    <3>3. /\ sn.tailHeight \in Int /\ BlockHeight[w] \in Int
          /\ sn.tailHeight < BlockHeight[w]
          /\ sn.heightBlocks[BlockHeight[w]] = w
          /\ Run(sn.heightBlocks, sn.tailHeight + 1, BlockHeight[w], sn.tailHash)
      BY BlockFacts DEF Snippet, LinkedSnippet
    <3>4. PICK hi \in Int : hi = BlockHeight[w]
      BY <3>3
    <3>5. PICK lo \in Int : lo = sn.tailHeight + 1
      BY <3>3
    <3>6. hi \in lo..hi /\ hi \in hi..hi
      BY <3>3, <3>4, <3>5
    <3>7. Run(sn.heightBlocks, lo, hi, t)
      BY <3>2, <3>3, <3>4, <3>5
    <3>8. t \in Follow!Path[sn.heightBlocks[hi]]
      BY <3>6, <3>7, PathOfRun
    <3> QED
      BY <3>1, <3>3, <3>4, <3>8
  <2>5. ASSUME NEW d \in chainIds
        PROVE  chains'[d].headHash \in {b \in Block : chains[d].headHash \in Follow!Path[b]}
    <3>1. CASE d = c
      BY <2>3, <2>4, <3>1
    <3>2. CASE d # c
      <4>1. chains'[d] = chains[d] /\ chains[d].headHash \in Block
        BY <1>1, <2>3, <3>2 DEF ForkedChain
      <4> QED
        BY <4>1, PathOwn
    <3> QED
      BY <3>1, <3>2
  <2>6. chains[fork.longest].headHash # Nil
    BY <1>1, TreeAssumption DEF ForkedChain
  <2>7. Follow!Lengthen
    BY <1>1, <2>5, <2>6 DEF Follow!Lengthen
  <2> QED
    BY <2>7 DEF FollowStep, Follow!Next
<1> QED
  BY <1>2, <1>3

\* loopAppendChains: forkChain adds a chain and touches no other.
LEMMA FollowAppend ==
    ASSUME Ground, OneForkPoint, PoolShape, AppendChains
    PROVE  FollowStep
<1>1. /\ TypeOK /\ Bookkeeping /\ chainIds \subseteq Block
      /\ snippetChains \in [Block -> Snippet] /\ chains \in [Block -> ForkedChain]
      /\ current \in chainIds /\ fork.longest \in chainIds
  BY DEF Ground, TypeOK, Bookkeeping
<1>2. CASE \/ AppendNone \/ AppendStart \/ AppendNext \/ AppendDone \/ AppendSkip
           \/ AppendPass \/ AppendPanic \/ AppendLeave
  <2>1. UNCHANGED <<diskChain, current, fork, chains>>
    BY <1>2 DEF AppendNone, AppendStart, AppendNext, AppendDone, AppendSkip, AppendPass,
                AppendPanic, AppendLeave, AppendFrame, poolVars
  <2> QED
    BY <2>1, FollowStays
<1>3. ASSUME Visiting
      PROVE  /\ Visited \in chainIds /\ w \in Block
             /\ snippetChains[w] \in Snippet /\ LinkedSnippet(w, snippetChains[w])
  <2>1. ~crashed /\ pc = "forky" /\ w # Nil /\ visit <= Len(tmpChains)
    BY <1>3 DEF Visiting
  <2>2. Visited \in chainIds
    BY <1>1, <2>1 DEF Visited, Bookkeeping, TypeOK, Range
  <2>3. w \in Block /\ w \in Snippets
    BY <1>1, <2>1 DEF Bookkeeping, TypeOK, Snippets
  <2> QED
    BY <1>1, <2>2, <2>3 DEF Ground, SnippetsLinked
<1>4. CASE AppendInsert
  <2>1. Visiting /\ InsertSnippet(Visited, snippetChains[w]) /\ AppendFrame
    BY <1>4 DEF AppendInsert
  <2>2. PICK c \in chainIds : c = Visited
    BY <1>3, <2>1
  <2>3. PICK sn \in Snippet : sn = snippetChains[w]
    BY <1>3, <2>1
  <2> QED
    BY <1>3, <2>1, <2>2, <2>3, FollowInsertSnippet
<1>5. CASE AppendSame
  <2>1. /\ Visiting /\ ~OutOfReach(Visited) /\ AppendFrame
        /\ InsertSnippet(Visited, CutTo(snippetChains[w], chains[Visited].headHeight))
    BY <1>5 DEF AppendSame
  <2>2. PICK c \in chainIds : c = Visited
    BY <1>3, <2>1
  <2>3. PICK H : H = chains[c].headHeight
    OBVIOUS
  <2>4. H \in -1..MaxHeight /\ H < BlockHeight[w]
    <3>1. H \in Int /\ 0 <= H /\ H <= MaxHeight /\ MaxHeight \in Int
      BY <2>3, OwnReads, TreeAssumption
    <3>2. BlockHeight[w] \in Int /\ ~(BlockHeight[w] <= H)
      BY <1>3, <2>1, <2>2, <2>3, BlockFacts DEF OutOfReach
    <3> QED
      BY <3>1, <3>2
  <2>5. PICK sn \in Snippet : sn = CutTo(snippetChains[w], H)
    BY <1>3, <2>1, <2>4, CutToSnippet
  <2>6. LinkedSnippet(w, sn)
    BY <1>3, <2>1, <2>4, <2>5, CutLinked
  <2>7. InsertSnippet(c, sn)
    BY <2>1, <2>2, <2>3, <2>5
  <2> QED
    BY <1>3, <2>1, <2>6, <2>7, FollowInsertSnippet
<1>6. CASE AppendFork \/ AppendDiskFork
  <2>1. PICK c, refer : /\ w # Nil /\ HasForkPoint(w, c, refer) /\ AppendFrame
                        /\ ForkChain(c, Trimmed(w, c, refer))
    BY <1>6 DEF AppendFork, AppendDiskFork, Visiting, DiskReached
  <2>2. w \in Block \ chainIds
    BY <1>1, <2>1, FreshName
  <2>3. /\ UNCHANGED <<diskChain, current, fork>>
        /\ chains' = [chains EXCEPT ![w] = ForkOf(w, Trimmed(w, c, refer), c)]
    BY <2>1 DEF ForkChain, AppendFrame
  <2>4. \A d \in chainIds : chains'[d] = chains[d]
    BY <1>1, <2>2, <2>3
  <2> QED
    BY <1>1, <2>3, <2>4, FollowStays
<1> QED
  BY <1>2, <1>4, <1>5, <1>6 DEF AppendChains

\* loopCheckCurrentInsert stores blocks of the branch that is followed.
LEMMA FollowInsert ==
    ASSUME Ground, OneForkPoint, PoolShape, Fetch \/ Insert
    PROVE  FollowStep
<1>1. /\ TypeOK /\ DiskShape /\ ForkShape /\ chainIds \subseteq Block
      /\ current \in chainIds /\ fork.longest \in chainIds
      /\ chains \in [Block -> ForkedChain]
  BY DEF PoolShape, Ground, TypeOK, Bookkeeping
<1>2. CASE Fetch \/ NothingToInsert
  <2>1. UNCHANGED <<diskChain, current, fork, chains>>
    BY <1>2 DEF Fetch, NothingToInsert, poolVars
  <2> QED
    BY <2>1, FollowStays
<1>3. ASSUME NEW n \in -1..MaxHeight, NEW m \in -1..MaxHeight, TryInsert(n, m)
      PROVE  FollowStep
  <2>1. PICK c \in chainIds : c = current
    BY <1>1
  <2>2. ~PointErrors
    BY DEF OneForkPoint
  <2>3. /\ ~WriteLocked /\ m = n
        /\ n \in chains[c].tailHeight .. chains[c].headHeight
        /\ diskChain' = Stored(chains[c].heightBlocks, chains[c].tailHeight + 1, n)
        /\ chains' = [chains EXCEPT ![c] = CutTo(chains[c], n)]
        /\ UNCHANGED <<current, fork>>
    BY <1>3, <2>1, <2>2 DEF TryInsert
  <2>4. Base = current
    BY <1>1, <2>3 DEF ForkShape, WriteLocked
  <2>10. ~InHand
    BY <2>3 DEF InHand, WriteLocked
  <2>5. /\ chains[c].tailHeight \in Int /\ chains[c].headHeight \in Int
        /\ 0 <= chains[c].tailHeight
        /\ ChainShape(chains[c], diskChain.head) /\ diskChain.head \in Block
    BY <1>1, <2>1, <2>4, <2>10, OwnReads, ChainFacts DEF Foot, Seat, DiskShape
  <2>6. CutTo(chains[c], n).headHash = chains[c].headHash
    BY <1>1 DEF CutTo, ForkedChain
  <2>7. \A d \in chainIds : chains'[d].headHash = chains[d].headHash
    BY <1>1, <2>3, <2>6
  <2>8. CASE n = chains[c].tailHeight
    <3>1. chains[c].tailHeight < chains[c].tailHeight + 1
      BY <2>5
    <3>2. diskChain' = diskChain
      BY <2>3, <2>8, <3>1 DEF Stored
    <3> QED
      BY <1>1, <2>3, <2>7, <3>2, FollowStays
  <2>9. CASE n # chains[c].tailHeight
    <3>1. n \in Int /\ n > chains[c].tailHeight /\ n <= chains[c].headHeight /\ n \in Nat
      BY <2>3, <2>5, <2>9
    <3>2. PICK hm : hm = chains[c].heightBlocks
      OBVIOUS
    <3>3. DiskRun(diskChain', n)
      BY <1>1, <2>3, <2>5, <3>1, StoredShape
    <3>4. diskChain'.byHash = Follow!Path[diskChain'.head]
      BY <3>1, <3>3, PathOfDisk
    <3>5. ~(n < chains[c].tailHeight + 1) /\ chains[c].tailHeight # chains[c].headHeight
      BY <2>5, <3>1
    <3>6. /\ diskChain'.head = hm[n]
          /\ diskChain.byHash \subseteq diskChain'.byHash
      BY <2>3, <3>2, <3>5 DEF Stored
    <3>7. /\ Run(hm, chains[c].tailHeight + 1, chains[c].headHeight, diskChain.head)
          /\ hm[chains[c].headHeight] = chains[c].headHash
      BY <2>5, <3>2, <3>5 DEF ChainShape
    <3>8. PICK lo \in Int, hi \in Int :
             lo = chains[c].tailHeight + 1 /\ hi = chains[c].headHeight
      BY <2>5
    <3>9. n \in lo..hi /\ hi \in n..hi
      BY <2>5, <3>1, <3>8
    <3>10. Run(hm, lo, hi, diskChain.head)
      BY <3>7, <3>8
    <3>11. hm[n] \in Follow!Path[hm[hi]]
      BY <2>5, <3>9, <3>10, PathOfRun
    <3>12. diskChain'.head \in Follow!Path[chains[current].headHash]
      BY <2>1, <3>6, <3>7, <3>8, <3>11
    <3>13. /\ chains'[current'].headHash = chains[current].headHash
           /\ chains'[fork'.longest].headHash = chains[fork.longest].headHash
      BY <1>1, <2>3, <2>7
    <3>14. Follow!Store
      BY <2>3, <3>4, <3>6, <3>12, <3>13 DEF Follow!Store, WriteLocked
    <3> QED
      BY <3>14 DEF FollowStep, Follow!Next
  <2> QED
    BY <2>8, <2>9
<1> QED
  BY <1>2, <1>3 DEF Insert\* Once the disk ends at the block where branches part, or below it, what is
\* stored is on the path of every chain.
LEMMA AllShared ==
    ASSUME Ground, OneForkPoint, PoolShape, Top <= ForkHeight, NEW c \in chainIds
    PROVE  diskChain.byHash \subseteq Follow!Path[chains[c].headHash]
<1>1. Top \in Int /\ ForkHeight \in Int
  BY HandFacts, ForkBlockFacts
<1>2. \A h \in 0..Top : h <= ForkHeight
  BY <1>1
<1> QED
  BY <1>2, StoredBlocks, SharedStored

\* removeChain takes off the highest block, which the other chain lacks.
LEMMA FollowRemove ==
    ASSUME Ground, OneForkPoint, PoolShape, RollbackRemove
    PROVE  FollowStep
<1>1. /\ TypeOK /\ DiskShape /\ ForkShape /\ current \in chainIds
      /\ fork \in ForkLocals /\ chains \in [Block -> ForkedChain]
  BY DEF PoolShape, Ground, TypeOK, Bookkeeping, ForkLocals
<1>2. /\ fork.pc = "rollback" /\ chains' = chains /\ current' = current
      /\ ~(chains[current].tailHeight <= fork.point)
  BY DEF RollbackRemove, RollbackDone, ForkFrame
<1>3. /\ Base = current /\ fork.longest # current /\ fork.point = ForkHeight /\ ~InHand
  BY <1>1, <1>2 DEF ForkShape, InHand
<1>4. PICK l \in chainIds : l = fork.longest /\ l # Base
  BY <1>3 DEF Ground, Bookkeeping
<1>5. /\ Top \in Int /\ 0 <= Top /\ DiskBlock(Top) = diskChain.head
      /\ diskChain.head \in Block /\ diskChain.head \in diskChain.byHash
  BY <1>1, DiskReads DEF DiskShape
<1>6. chains[current].tailHeight = Top
  <2>1. chains[Base].tailHeight = Top
    BY <1>3, <1>5, BaseReads
  <2> QED
    BY <1>3, <2>1
<1>7. Top > ForkHeight /\ ForkHeight \in Int /\ Top \in 0..Top
  BY <1>2, <1>3, <1>5, <1>6, ForkBlockFacts
<1>8. PICK b \in Block : b = diskChain.head
  BY <1>5
<1>9. b # Nil /\ DiskBlock(chains[current].tailHeight) = b
  BY <1>5, <1>6, <1>8, TreeAssumption
<1>10. /\ diskChain' = Removed(b)
       /\ fork' = [fork EXCEPT !.pc = "removed", !.block = b]
  BY <1>9, Zenon DEF RollbackRemove
<1>11. fork'.pc = "removed" /\ fork'.longest = fork.longest
  BY <1>1, <1>10 DEF ForkLocals
<1>12. diskChain'.byHash = diskChain.byHash \ {b}
  BY <1>10 DEF Removed
<1>13. b \notin Follow!Path[chains[l].headHash]
  BY <1>4, <1>5, <1>7, <1>8, OwnStored
<1>14. ASSUME NEW c \in diskChain.byHash PROVE PreHash[c] # b
  <2>1. PICK h \in 0..Top : c = DiskBlock(h)
    BY StoredBlocks
  <2>2. CASE h = 0
    BY <1>1, <1>9, <2>1, <2>2, DiskReads, TreeAssumption
  <2>3. CASE h # 0
    <3>1. h - 1 \in 0..Top /\ h - 1 # Top
      BY <1>5, <2>3
    <3>2. PreHash[c] = DiskBlock(h - 1) /\ BlockHeight[DiskBlock(h - 1)] = h - 1
      BY <1>1, <2>1, <2>3, <3>1, DiskReads
    <3>3. BlockHeight[b] = Top
      BY <1>8 DEF Top
    <3> QED
      BY <3>1, <3>2, <3>3
  <2> QED
    BY <2>2, <2>3
<1>15. Follow!TakeOff
  BY <1>2, <1>4, <1>5, <1>8, <1>11, <1>12, <1>13, <1>14 DEF Follow!TakeOff
<1> QED
  BY <1>15 DEF FollowStep, Follow!Next

\* A step of snapshotFork under the lock that leaves the disk and the heads of
\* the chains alone is none.
LEMMA FollowMoves ==
    ASSUME UNCHANGED <<diskChain, current>>, fork'.longest = fork.longest,
           fork.pc \notin {"idle", "captured"}, fork'.pc \notin {"idle", "captured"},
           chains'[current].headHash = chains[current].headHash,
           chains'[fork.longest].headHash = chains[fork.longest].headHash
    PROVE  FollowStep
<1>1. UNCHANGED Follow!vars
  BY DEF Follow!vars
<1> QED
  BY <1>1 DEF FollowStep

\* loopCheckFork: the decision, the way back, and the change of the branch.
LEMMA FollowFork ==
    ASSUME Ground, OneForkPoint, PoolShape, LoopCheckFork
    PROVE  FollowStep
<1>1. /\ TypeOK /\ DiskShape /\ ForkShape /\ ChainsShape /\ TurnShape /\ chainIds \subseteq Block
      /\ current \in chainIds /\ fork.longest \in chainIds /\ fork \in ForkLocals
      /\ chains \in [Block -> ForkedChain] /\ RefersReachDisk /\ Disk \notin chainIds
  BY ChainFacts DEF PoolShape, Ground, TypeOK, Bookkeeping, ForkLocals
<1>2. \A c \in chainIds : chains[c].headHash \in Block /\ chains[c].headHash # Nil
  BY <1>1, TreeAssumption DEF ForkedChain
<1>3. ASSUME NEW l \in Block, CheckFork(l) PROVE FollowStep
  <2>1. /\ fork.pc = "idle" /\ l \in chainIds
        /\ chains[l].headHeight - ForkMargin > chains[current].headHeight
        /\ fork'.pc = "captured" /\ fork'.longest = l
        /\ UNCHANGED <<diskChain, current, chains>>
    BY <1>3 DEF CheckFork, Longest, NoFork, poolVars
  <2>2. /\ BlockHeight[chains[l].headHash] = chains[l].headHeight
        /\ BlockHeight[chains[current].headHash] = chains[current].headHeight
    BY <1>1, <2>1, HeadPlace
  <2>3. /\ ForkMargin \in Nat /\ chains[l].headHeight \in Int
        /\ chains[current].headHeight \in Int
    BY <1>1, SnapshotPoolAssumption, TreeAssumption DEF ForkedChain, Height
  <2>4. BlockHeight[chains[l].headHash] > BlockHeight[chains[current].headHash]
    BY <2>1, <2>2, <2>3
  <2>5. Follow!Decide
    BY <1>2, <2>1, <2>4 DEF Follow!Decide
  <2> QED
    BY <2>5 DEF FollowStep, Follow!Next
<1>4. ASSUME fork.pc # "idle", fork'.pc = "idle", UNCHANGED <<diskChain, current, chains>>,
             fork.pc \in {"rolled", "failed"} \/ fork.pc = "captured"
      PROVE  FollowStep
  <2>1. fork.pc # "captured" => diskChain.byHash \subseteq Follow!Path[chains[fork.longest].headHash]
    BY <1>1, <1>4, AllShared DEF ForkShape, WriteLocked
  <2>2. Follow!GiveUp
    BY <1>1, <1>2, <1>4, <2>1 DEF Follow!GiveUp
  <2> QED
    BY <2>2 DEF FollowStep, Follow!Next
<1>5. CASE ForkGiveUp \/ ForkFailed
  BY <1>4, <1>5 DEF ForkGiveUp, ForkFailed, ForkReturn, NoFork
<1>6. CASE ForkStart
  <2>1. /\ fork.pc = "captured" /\ UNCHANGED <<diskChain, chains, current>>
        /\ \/ fork' = fork
           \/ fork'.pc = "rollback" /\ fork'.longest = fork.longest
    BY <1>1, <1>6 DEF ForkStart, ForkFrame, ForkLocals
  <2>2. CASE fork' = fork
    BY <2>1, <2>2, FollowStays
  <2>3. CASE fork'.pc = "rollback" /\ fork'.longest = fork.longest
    <3>1. Follow!Undo
      BY <1>1, <1>2, <2>1, <2>3 DEF Follow!Undo
    <3> QED
      BY <3>1 DEF FollowStep, Follow!Next
  <2> QED
    BY <2>1, <2>2, <2>3
<1>7. CASE RollbackRemove
  BY <1>7, FollowRemove
<1>8. CASE RollbackAddTail
  <2>1. /\ fork.pc = "removed" /\ UNCHANGED <<diskChain, current>>
        /\ chains' = [chains EXCEPT ![current] = AddTail(chains[current], fork.block)]
        /\ fork' = [fork EXCEPT !.pc = "rollback", !.block = Nil]
    BY <1>8 DEF RollbackAddTail, ForkFrame
  <2>2. fork'.pc = "rollback" /\ fork'.longest = fork.longest
    BY <1>1, <2>1 DEF ForkLocals
  <2>3. AddTail(chains[current], fork.block).headHash = chains[current].headHash
    BY <1>1 DEF AddTail, ForkedChain
  <2>4. \A d \in chainIds : chains'[d].headHash = chains[d].headHash
    BY <1>1, <2>1, <2>3
  <2> QED
    BY <1>1, <2>1, <2>2, <2>4, FollowMoves
<1>9. CASE RollbackCheck
  <2>1. /\ fork.pc = "rollback" /\ UNCHANGED <<diskChain, chains, current>>
        /\ fork' = fork \/ \E p \in {"rolled", "failed"} : fork' = [fork EXCEPT !.pc = p]
    BY <1>9 DEF RollbackCheck, ForkFrame
  <2>2. fork'.pc \in {"rollback", "rolled", "failed"} /\ fork'.longest = fork.longest
    BY <1>1, <2>1 DEF ForkLocals
  <2> QED
    BY <1>1, <2>1, <2>2, FollowMoves
<1>10. CASE CurrentModify
  <2>1. /\ fork.pc = "rolled" /\ UNCHANGED <<diskChain, current, chains>>
        /\ \/ fork'.pc = "modify" /\ fork'.longest = fork.longest
           \/ fork'.pc = "idle"
    BY <1>1, <1>10 DEF CurrentModify, ForkFrame, ForkLocals, NoFork
  <2> QED
    BY <1>1, <1>4, <2>1, FollowMoves
<1>11. CASE ModifyRemoveTail
  <2>1. PICK to, from, b : /\ to = fork.longest /\ from = chains[to].referChain
                           /\ b = OwnBlock(from, chains[to].tailHeight)
    OBVIOUS
  <2>2. /\ fork.pc = "modify" /\ from # Disk /\ diskChain' = diskChain
        /\ IF b = Nil THEN UNCHANGED <<chains, fork>>
           ELSE /\ chains' = [chains EXCEPT ![from] = RemoveTail(chains[from], b)]
                /\ fork' = [fork EXCEPT !.pc = "untailed", !.block = b, !.from = from]
    BY <1>11, <2>1, Zenon DEF ModifyRemoveTail
  <2>3. current' = current
    BY <1>11, Zenon DEF ModifyRemoveTail, ForkFrame
  <2>4. fork'.pc \in {"modify", "untailed"} /\ fork'.longest = fork.longest
    BY <1>1, <2>2 DEF ForkLocals
  <2>5. from \in chainIds
    BY <1>1, <2>1, <2>2 DEF RefersReachDisk
  <2>6. RemoveTail(chains[from], b).headHash = chains[from].headHash
    BY <1>1, <2>5 DEF RemoveTail, ForkedChain
  <2>7. \A d \in chainIds : chains'[d].headHash = chains[d].headHash
    BY <1>1, <2>2, <2>5, <2>6
  <2> QED
    BY <1>1, <2>2, <2>3, <2>4, <2>7, FollowMoves
<1>12. CASE ModifyAddTail
  <2>1. PICK c \in chainIds : c = fork.longest
    BY <1>1
  <2>2. /\ fork.pc = "untailed" /\ UNCHANGED <<diskChain, current>>
        /\ chains' = [chains EXCEPT ![c] = AddTail(chains[c], fork.block)]
        /\ fork' = [fork EXCEPT !.pc = "refer"]
    BY <1>12, <2>1 DEF ModifyAddTail, ForkFrame
  <2>3. fork'.pc = "refer" /\ fork'.longest = fork.longest
    BY <1>1, <2>2 DEF ForkLocals
  <2>4. AddTail(chains[c], fork.block).headHash = chains[c].headHash
    BY <1>1 DEF AddTail, ForkedChain
  <2>5. \A d \in chainIds : chains'[d].headHash = chains[d].headHash
    BY <1>1, <2>2, <2>4
  <2> QED
    BY <1>1, <2>2, <2>3, <2>5, FollowMoves
<1>13. CASE ModifyRefer
  <2>1. PICK from : from = chains[fork.longest].referChain
    OBVIOUS
  <2>2. /\ fork.pc = "modify" /\ UNCHANGED <<diskChain, chains, current>>
        /\ fork' = [fork EXCEPT !.pc = "refer", !.from = from]
    BY <1>13, <2>1, Zenon DEF ModifyRefer, ForkFrame
  <2>3. fork'.pc = "refer" /\ fork'.longest = fork.longest
    BY <1>1, <2>2 DEF ForkLocals
  <2> QED
    BY <1>1, <2>2, <2>3, FollowMoves
<1>14. CASE ModifyReferTo \/ ModifyReferFrom
  <2>0. PICK c \in chainIds : \E r : /\ UNCHANGED <<diskChain, current>>
                                     /\ chains' = [chains EXCEPT ![c].referChain = r]
    BY <1>1, <1>14 DEF ModifyReferTo, ModifyReferFrom, ForkFrame, TurnShape
  <2>1. PICK r : /\ UNCHANGED <<diskChain, current>>
                 /\ chains' = [chains EXCEPT ![c].referChain = r]
    BY <2>0
  <2>2. /\ fork.pc \in {"refer", "turn"} /\ fork'.pc \in {"turn", "modify"}
        /\ fork'.longest = fork.longest
    BY <1>1, <1>14 DEF ModifyReferTo, ModifyReferFrom, ForkLocals
  <2>3. chains'[c].headHash = chains[c].headHash
    BY <1>1, <2>1 DEF ForkedChain
  <2>4. \A d \in chainIds : chains'[d].headHash = chains[d].headHash
    BY <1>1, <2>1, <2>3
  <2> QED
    BY <1>1, <2>1, <2>2, <2>4, FollowMoves
<1>15. CASE ModifyCurrent
  <2>1. /\ fork.pc = "modify" /\ chains[fork.longest].referChain = Disk
        /\ current' = fork.longest /\ fork'.pc = "idle"
        /\ UNCHANGED <<diskChain, chains>>
    BY <1>15 DEF ModifyCurrent, ForkReturn, NoFork
  <2>2. diskChain.byHash \subseteq Follow!Path[chains[fork.longest].headHash]
    BY <1>1, <2>1, AllShared DEF ForkShape, WriteLocked
  <2>3. Follow!Change
    BY <1>1, <1>2, <2>1, <2>2 DEF Follow!Change
  <2> QED
    BY <2>3 DEF FollowStep, Follow!Next
<1> QED
  BY <1>3, <1>5, <1>6, <1>7, <1>8, <1>9, <1>10, <1>11, <1>12, <1>13, <1>14, <1>15
     DEF LoopCheckFork, SnapshotFork

\* Every step of the pool is a step of FollowBranch or none.
LEMMA FollowNext ==
    ASSUME Ground, OneForkPoint, PoolShape, [Next]_vars
    PROVE  FollowStep
<1>1. CASE Network \/ Gen \/ UNCHANGED vars
  <2>1. UNCHANGED <<diskChain, current, fork, chains>>
    BY <1>1 DEF Network, AddBlock, Gen, GenStart, GenAddTail, GenDrop, GenNewSnippet, Compound,
                GenSplit, GenMerge, GenMerged, GenDone, vars, poolVars
  <2> QED
    BY <2>1, FollowStays
<1>2. CASE AppendChains \/ Fetch \/ Insert \/ LoopCheckFork
  BY <1>2, FollowAppend, FollowInsert, FollowFork
<1> QED
  BY <1>1, <1>2 DEF Next, Loop

\* The pool starts as FollowBranch does.
LEMMA FollowInit == Init => Follow!Init
<1> SUFFICES ASSUME Init PROVE Follow!Init
  OBVIOUS
<1>1. /\ diskChain.byHash = {Genesis} /\ current = Genesis
      /\ chains[Genesis] = NoChain /\ fork.pc = "idle"
  BY TreeAssumption DEF Init, NoFork
<1>2. chains[current].headHash = Genesis
  BY <1>1 DEF NoChain, NewChain
<1> QED
  BY <1>1, <1>2 DEF Follow!Init

\* The snapshot pool implements FollowBranch, for every tree with one fork point:
\* writeToChain stores only what continues the branch that is followed, each
\* removeChain of rollback takes off the highest block, which the other chain
\* lacks, and modifyToOther changes the branch only when no such block is left,
\* whatever loop() attaches between these steps.
THEOREM PoolFollows == OneForkPoint => (Spec => FollowsOneBranch)
<1>1. OneForkPoint => OneForkPoint'
  BY DEF OneForkPoint
<1>2. /\ TypeOK /\ Bookkeeping /\ SnippetsLinked /\ RefersReachDisk /\ TurnShape
      /\ (OneForkPoint => PoolShape) /\ OneForkPoint /\ [Next]_vars
      => [Follow!Next]_(Follow!vars)
  BY FollowNext DEF Ground, FollowStep
<1> QED
  BY <1>1, <1>2, FollowInit, ShapeKept, TypeCorrect, NamesApart, SnippetsCorrect, RefersCorrect,
     TurnCorrect, PTL DEF Spec, FollowsOneBranch, Follow!Spec
=============================================================================
