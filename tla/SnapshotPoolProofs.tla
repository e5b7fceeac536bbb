------------------------- MODULE SnapshotPoolProofs -------------------------
(***************************************************************************)
(* Proofs about SnapshotPool, for every tree of blocks, every fork margin  *)
(* and every schedule.                                                     *)
(***************************************************************************)
EXTENDS SnapshotPool, BCPoolLemmas

\* A slice copied from a map holds its keys and nothing else.
LEMMA OrdersType ==
    ASSUME NEW S \in SUBSET Block, NEW o \in Orders(S)
    PROVE  o \in Seq(Block) /\ Range(o) \subseteq S
<1>1. IsFiniteSet(S)
  BY TreeAssumption, FS_Subset
<1>2. Cardinality(S) \in Nat
  BY <1>1, FS_CardinalityType
<1>3. o \in [1..Cardinality(S) -> S]
  BY DEF Orders, SetToSeqs
<1> QED
  BY <1>2, <1>3 DEF Range

-----------------------------------------------------------------------------
(***************************************************************************)
(* Type correctness, one lemma per goroutine.                              *)
(***************************************************************************)
\* The locals of snapshotFork.
ForkLocals == [pc : {"idle", "captured", "rollback", "removed", "rolled", "failed",
                     "modify", "untailed", "refer", "turn"},
               longest : Block, point : -1..MaxHeight, block : HashOrNil, from : Block]

\* The initial state has the types.
LEMMA InitType == Init => TypeOK
<1> SUFFICES ASSUME Init PROVE TypeOK
  OBVIOUS
<1>1. Genesis \in Block /\ Announced \subseteq Block
  BY TreeAssumption, SnapshotPoolAssumption
<1>2. diskChain \in DiskChain
  <2>1. [NoBlocks EXCEPT ![0] = Genesis] \in [Height -> HashOrNil]
    BY <1>1, NoBlocksType DEF HashOrNil
  <2> QED
    BY <1>1, <2>1 DEF Init, DiskChain, HashOrNil
<1>3. chains \in [Block -> ForkedChain]
  BY <1>1, NewChainType DEF Init, NoChain
<1>4. snippetChains \in [Block -> Snippet]
  BY NoSnippetType DEF Init
<1>5. list \in Seq(Block) /\ tmpChains \in Seq(Block)
  BY DEF Init
<1>6. w \in HashOrNil
  BY DEF Init, HashOrNil
<1>7. /\ fork \in ForkLocals /\ fork.pc = "idle"
  BY <1>1, TreeAssumption DEF Init, NoFork, ForkLocals, HashOrNil
<1>8. crashed \in BOOLEAN
  BY DEF Init
<1> QED
  BY <1>1, <1>2, <1>3, <1>4, <1>5, <1>6, <1>7, <1>8 DEF Init, TypeOK, ForkLocals

\* AddBlock keeps the types.
LEMMA NetworkType == TypeOK /\ Network => TypeOK'
  BY DEF Network, AddBlock, TypeOK, genVars, appendVars

\* loopGenSnippetChains keeps the types.
LEMMA GenType == TypeOK /\ Gen => TypeOK'
<1> SUFFICES ASSUME TypeOK, Gen PROVE TypeOK'
  OBVIOUS
<1> USE DEF TypeOK
<1>1. CASE GenStart
  BY <1>1, OrdersType DEF GenStart, poolVars, appendVars
<1>2. ASSUME NEW b \in Block, GenAddTail(b) PROVE TypeOK'
  <2>1. snippetChains' \in [Block -> Snippet]
    BY <1>2, AddTailSnippet DEF GenAddTail
  <2> QED
    BY <1>2, <2>1 DEF GenAddTail, Compound, appendVars
<1>3. ASSUME NEW b \in Block, GenDrop(b) PROVE TypeOK'
  BY <1>3 DEF GenDrop, Compound, appendVars
<1>4. ASSUME NEW b \in Block, GenNewSnippet(b) PROVE TypeOK'
  <2>1. snippetChains' \in [Block -> Snippet]
    BY <1>4, NewSnippetType DEF GenNewSnippet
  <2>2. list' \in Seq(Block)
    BY <1>4 DEF GenNewSnippet
  <2> QED
    BY <1>4, <2>1, <2>2 DEF GenNewSnippet, Compound, appendVars
<1>5. CASE GenSplit
  <2>1. Range(list) \subseteq Block
    BY DEF Range
  <2> QED
    BY <1>5, <2>1 DEF GenSplit, poolVars, appendVars
<1>6. CASE GenMerge
  <2>1. list[next] \in Block /\ snippetChains[list[next]].tailHash \in Block
    BY <1>6 DEF GenMerge, BelowInMap
  <2>2. snippetChains' \in [Block -> Snippet]
    BY <1>6, <2>1, MergeType DEF GenMerge
  <2>3. headMap' \in SUBSET Block
    BY <1>6 DEF GenMerge
  <2> QED
    BY <1>6, <2>2, <2>3 DEF GenMerge, netVars, appendVars
<1>7. CASE GenMerged
  BY <1>7 DEF GenMerged, poolVars, appendVars
<1>8. CASE GenDone
  <2>1. snippetChains' \in [Block -> Snippet]
    BY <1>8, NoSnippetType DEF GenDone
  <2>2. list' \in Seq(Block)
    BY <1>8 DEF GenDone
  <2> QED
    BY <1>8, <2>1, <2>2 DEF GenDone, netVars, appendVars
<1> QED
  BY <1>1, <1>2, <1>3, <1>4, <1>5, <1>6, <1>7, <1>8 DEF Gen

\* loopAppendChains keeps the types.
LEMMA AppendType == TypeOK /\ AppendChains => TypeOK'
<1> SUFFICES ASSUME TypeOK, AppendChains PROVE TypeOK'
  OBVIOUS
<1> USE DEF TypeOK
<1>1. CASE AppendNone
  BY <1>1 DEF AppendNone, poolVars, genVars, appendVars
<1>2. CASE AppendStart
  BY <1>2, OrdersType DEF AppendStart, poolVars, genVars
<1>3. CASE AppendNext
  BY <1>3 DEF AppendNext, poolVars, genVars, HashOrNil
<1>4. CASE AppendDone
  <2>1. tmpChains' \in Seq(Block)
    BY <1>4 DEF AppendDone
  <2> QED
    BY <1>4, <2>1 DEF AppendDone, poolVars, genVars
<1>5. ASSUME Visiting
      PROVE  Visited \in Block /\ w \in Block
  BY <1>5 DEF Visiting, Visited, HashOrNil
<1>6. ASSUME NEW c \in Block, NEW sn \in Snippet, w \in Block,
             InsertSnippet(c, sn), AppendFrame
      PROVE  TypeOK'
  <2>1. chains' \in [Block -> ForkedChain]
    <3>1. Extended(c, w, sn) \in ForkedChain
      BY <1>6, ExtendedType
    <3> QED
      BY <1>6, <3>1 DEF InsertSnippet
  <2>2. snippetChains' \in [Block -> Snippet]
    BY <1>6, NoSnippetType DEF InsertSnippet, DeleteSnippet
  <2>3. snippetIds' \in SUBSET Block
    BY <1>6 DEF InsertSnippet, DeleteSnippet
  <2> QED
    BY <1>6, <2>1, <2>2, <2>3
    DEF InsertSnippet, AppendFrame, netVars, genVars, HashOrNil
<1>7. ASSUME NEW c \in Block, NEW sn \in Snippet, w \in Block,
             ForkChain(c, sn), AppendFrame
      PROVE  TypeOK'
  <2>1. chains' \in [Block -> ForkedChain]
    BY <1>7, ForkOfType DEF ForkChain
  <2>2. snippetChains' \in [Block -> Snippet]
    BY <1>7, NoSnippetType DEF ForkChain, DeleteSnippet
  <2>3. tmpChains' \in Seq(Block)
    BY <1>7 DEF ForkChain
  <2>4. snippetIds' \in SUBSET Block
    BY <1>7 DEF ForkChain, DeleteSnippet
  <2> QED
    BY <1>7, <2>1, <2>2, <2>3, <2>4
    DEF ForkChain, AppendFrame, netVars, genVars, HashOrNil
<1>8. ASSUME NEW sn \in Snippet, w \in Block, KeepSnippet(sn)
      PROVE  snippetIds' \in SUBSET Block /\ snippetChains' \in [Block -> Snippet]
  BY <1>8, NoSnippetType DEF KeepSnippet, DeleteSnippet
<1>9. CASE AppendInsert
  BY <1>5, <1>6, <1>9 DEF AppendInsert
<1>10. CASE AppendSkip
  BY <1>10 DEF AppendSkip, AppendFrame, netVars, genVars
<1>11. CASE AppendSame
  <2>1. chains[Visited].headHeight \in -1..MaxHeight
    BY <1>5, <1>11, TreeAssumption DEF AppendSame, ForkedChain, Height
  <2>2. snippetChains[w] \in Snippet
    BY <1>5, <1>11 DEF AppendSame
  <2>3. CutTo(snippetChains[w], chains[Visited].headHeight) \in Snippet
    BY <2>1, <2>2, CutToSnippet
  <2> QED
    BY <1>5, <1>6, <1>11, <2>3 DEF AppendSame
<1>12. CASE AppendFork
  BY <1>5, <1>7, <1>12, TrimmedType DEF AppendFork
<1>13. CASE AppendPass
  <2>1. w \in Block /\ Trimmed(w, Visited, FALSE) \in Snippet
    BY <1>5, <1>13, TrimmedType DEF AppendPass
  <2>2. snippetIds' \in SUBSET Block /\ snippetChains' \in [Block -> Snippet]
    BY <1>8, <1>13, <2>1 DEF AppendPass
  <2>3. w' \in HashOrNil /\ visit' \in Nat \ {0}
    <3>1. w' \in {Nil, w} /\ visit' \in {1, visit + 1}
      BY <1>13, Zenon DEF AppendPass
    <3> QED
      BY <3>1 DEF HashOrNil
  <2>4. UNCHANGED <<netVars, chainIds, chains, current, diskChain, crashed, pc,
                    genVars, todo, tmpChains, fork>>
    BY <1>13, Zenon DEF AppendPass, AppendFrame
  <2> QED
    BY <2>2, <2>3, <2>4 DEF netVars, genVars
<1>16. CASE AppendPanic
  BY <1>16, Zenon DEF AppendPanic, poolVars, genVars, appendVars
<1>14. CASE AppendDiskFork
  <2>1. w \in Block
    BY <1>14 DEF AppendDiskFork, DiskReached, HashOrNil
  <2> QED
    BY <1>7, <1>14, <2>1, TrimmedType DEF AppendDiskFork
<1>15. CASE AppendLeave
  <2>1. w \in Block
    BY <1>15 DEF AppendLeave, DiskReached, HashOrNil
  <2>2. snippetIds' \in SUBSET Block /\ snippetChains' \in [Block -> Snippet]
    <3>1. CASE BelowDiskHead
      BY <1>8, <1>15, <2>1, <3>1, TrimmedType DEF AppendLeave
    <3>2. CASE ~BelowDiskHead
      BY <1>8, <1>15, <2>1, <3>2 DEF AppendLeave
    <3> QED
      BY <3>1, <3>2
  <2> QED
    BY <1>15, <2>2 DEF AppendLeave, AppendFrame, netVars, genVars, HashOrNil
<1> QED
  BY <1>1, <1>2, <1>3, <1>4, <1>9, <1>10, <1>11, <1>12, <1>13, <1>14, <1>15, <1>16
  DEF AppendChains

\* loopFetchForSnippets keeps the types.
LEMMA FetchType == TypeOK /\ Fetch => TypeOK'
  BY DEF Fetch, FetchSet, TypeOK, poolVars, genVars, appendVars

\* loopCheckCurrentInsert keeps the types.
LEMMA InsertType == TypeOK /\ Insert => TypeOK'
<1> SUFFICES ASSUME TypeOK, Insert PROVE TypeOK'
  OBVIOUS
<1>1. CASE NothingToInsert
  BY <1>1 DEF NothingToInsert, TypeOK, poolVars, genVars, appendVars
<1>2. ASSUME NEW n \in -1..MaxHeight, NEW m \in -1..MaxHeight, TryInsert(n, m)
      PROVE  TypeOK'
  <2>1. chains[current] \in ForkedChain
    BY DEF TypeOK
  <2>2. chains[current].tailHeight + 1 \in Nat
    BY <2>1, TreeAssumption DEF ForkedChain
  <2>3. chains[current].heightBlocks \in [Height -> HashOrNil]
    BY <2>1 DEF ForkedChain
  <2>4. diskChain' \in DiskChain
    BY <1>2, <2>2, <2>3, StoredType DEF TryInsert, TypeOK
  <2>5. chains' \in [Block -> ForkedChain]
    BY <1>2, <2>1, CutToChain DEF TryInsert, TypeOK
  <2>6. crashed' \in BOOLEAN
    BY <1>2, Zenon DEF TryInsert
  <2> QED
    BY <1>2, <2>4, <2>5, <2>6 DEF TryInsert, TypeOK, netVars, genVars, appendVars
<1> QED
  BY <1>1, <1>2 DEF Insert

\* getForkPoint stops at a height of the current chain, or below genesis.
LEMMA StopHeightRange ==
    ASSUME TypeOK
    PROVE  StopHeight \in -1 .. chains[current].headHeight
<1> DEFINE S == {h \in -1 .. chains[current].headHeight :
                    \/ h = -1
                    \/ GetBlock(current, h) = Nil
                    \/ GetBlock(fork.longest, h) = Nil
                    \/ GetBlock(current, h) = GetBlock(fork.longest, h)}
<1>1. chains[current].headHeight \in Nat
  BY TreeAssumption DEF TypeOK, ForkedChain, Height
<1>2. -1 \in S
  BY <1>1
<1>3. StopHeight = Max(S)
  BY DEF StopHeight
<1>4. S \subseteq -1 .. chains[current].headHeight /\ S # {}
  BY <1>2
<1> HIDE DEF S
<1>5. Max(S) \in S
  <2>1. -1 \in Int /\ chains[current].headHeight \in Int
    BY <1>1
  <2> QED
    BY <1>4, <2>1, MaxOfInterval
<1> QED
  BY <1>3, <1>4, <1>5

\* snapshotFork's own steps keep the types when they keep those of what they
\* change.
LEMMA ForkStepType ==
    ASSUME TypeOK, chains' \in [Block -> ForkedChain], diskChain' \in DiskChain,
           crashed' \in BOOLEAN, fork' \in ForkLocals,
           fork'.pc \in {"removed", "untailed"} => fork'.block # Nil, ForkFrame
    PROVE  TypeOK'
  BY DEF ForkFrame, TypeOK, ForkLocals, netVars, genVars, appendVars

\* loopCheckFork keeps the types.
LEMMA ForkType == TypeOK /\ LoopCheckFork => TypeOK'
<1> SUFFICES ASSUME TypeOK, LoopCheckFork PROVE TypeOK'
  OBVIOUS
<1>0. /\ Genesis \in Block /\ fork \in ForkLocals
      /\ NoFork \in ForkLocals /\ NoFork.pc = "idle"
      /\ chains \in [Block -> ForkedChain] /\ diskChain \in DiskChain
      /\ crashed \in BOOLEAN /\ current \in Block /\ chains[current] \in ForkedChain
      /\ fork.pc \in {"removed", "untailed"} => fork.block # Nil
  BY TreeAssumption DEF TypeOK, ForkLocals, NoFork, HashOrNil
<1>1. ASSUME NEW l \in Block, CheckFork(l) PROVE TypeOK'
  <2>1. fork' \in ForkLocals /\ fork'.pc = "captured"
    BY <1>0, <1>1 DEF CheckFork, ForkLocals, NoFork
  <2> QED
    BY <1>1, <2>1 DEF CheckFork, ForkLocals, TypeOK, poolVars, genVars, appendVars
<1>2. ASSUME ForkReturn, current' \in Block, UNCHANGED <<chains, diskChain, crashed>>
      PROVE  TypeOK'
  BY <1>0, <1>2 DEF ForkReturn, ForkLocals, TypeOK, netVars, genVars, appendVars
<1>3. CASE ForkGiveUp
  BY <1>2, <1>3 DEF ForkGiveUp, TypeOK
<1>4. CASE ForkStart
  <2>1. StopHeight \in -1..MaxHeight
    <3>1. chains[current].headHeight \in -1..MaxHeight /\ MaxHeight \in Int
      BY TreeAssumption DEF TypeOK, ForkedChain, Height
    <3> QED
      BY <3>1, StopHeightRange
  <2>2. /\ \/ crashed' = TRUE /\ fork' = fork
           \/ crashed' = crashed /\ fork' = [fork EXCEPT !.pc = "rollback", !.point = StopHeight]
        /\ UNCHANGED <<chains, diskChain>> /\ ForkFrame
    BY <1>4 DEF ForkStart
  <2>3. /\ crashed' \in BOOLEAN /\ fork' \in ForkLocals
        /\ fork'.pc \in {"removed", "untailed"} => fork'.block # Nil
    BY <1>0, <2>1, <2>2 DEF ForkLocals
  <2> QED
    BY <1>0, <2>2, <2>3, ForkStepType
<1>5. CASE RollbackRemove
  <2>1. PICK b : b = DiskBlock(chains[current].tailHeight)
    OBVIOUS
  <2>2. b \in HashOrNil
    BY <1>0, <2>1, DiskBlockType
  <2>3. /\ \/ crashed' = TRUE /\ diskChain' = diskChain /\ fork' = fork
           \/ /\ b # Nil /\ crashed' = crashed /\ diskChain' = Removed(b)
              /\ fork' = [fork EXCEPT !.pc = "removed", !.block = b]
        /\ UNCHANGED chains /\ ForkFrame
    BY <1>5, <2>1 DEF RollbackRemove
  <2>4. /\ crashed' \in BOOLEAN /\ fork' \in ForkLocals
        /\ fork'.pc \in {"removed", "untailed"} => fork'.block # Nil
    BY <1>0, <2>2, <2>3 DEF ForkLocals
  <2>5. diskChain' \in DiskChain
    BY <1>0, <2>2, <2>3, RemovedType DEF HashOrNil
  <2> QED
    BY <1>0, <2>3, <2>4, <2>5, ForkStepType
<1>6. CASE RollbackAddTail
  <2>1. fork.block \in Block
    BY <1>0, <1>6 DEF RollbackAddTail, ForkLocals, HashOrNil
  <2>2. /\ chains' = [chains EXCEPT ![current] = AddTail(chains[current], fork.block)]
        /\ fork' = [fork EXCEPT !.pc = "rollback", !.block = Nil]
        /\ UNCHANGED <<diskChain, crashed>> /\ ForkFrame
    BY <1>6 DEF RollbackAddTail
  <2>3. AddTail(chains[current], fork.block) \in ForkedChain
    BY <1>0, <2>1, AddTailChain
  <2>4. chains' \in [Block -> ForkedChain]
    BY <1>0, <2>2, <2>3
  <2>5. fork' \in ForkLocals /\ fork'.pc = "rollback"
    BY <1>0, <2>2 DEF ForkLocals, HashOrNil
  <2> QED
    BY <1>0, <2>2, <2>4, <2>5, ForkStepType
<1>7. CASE RollbackCheck
  <2>1. PICK p \in {"rolled", "failed"} :
           /\ \/ crashed' = TRUE /\ fork' = fork
              \/ crashed' = crashed /\ fork' = [fork EXCEPT !.pc = p]
           /\ UNCHANGED <<chains, diskChain>> /\ ForkFrame
    BY <1>7 DEF RollbackCheck
  <2>2. /\ crashed' \in BOOLEAN /\ fork' \in ForkLocals
        /\ fork'.pc \in {"removed", "untailed"} => fork'.block # Nil
    BY <1>0, <2>1 DEF ForkLocals
  <2> QED
    BY <1>0, <2>1, <2>2, ForkStepType
<1>8. CASE ForkFailed
  BY <1>2, <1>8 DEF ForkFailed, TypeOK
<1>9. CASE CurrentModify
  <2>1. /\ fork' \in {NoFork, [fork EXCEPT !.pc = "modify"]}
        /\ UNCHANGED <<chains, diskChain, crashed>> /\ ForkFrame
    BY <1>9 DEF CurrentModify
  <2>2. fork' \in ForkLocals /\ fork'.pc \in {"idle", "modify"}
    BY <1>0, <2>1 DEF ForkLocals
  <2> QED
    BY <1>0, <2>1, <2>2, ForkStepType
<1>10. CASE ModifyRemoveTail
  <2>1. PICK from, b : /\ from = chains[fork.longest].referChain
                       /\ b = OwnBlock(from, chains[fork.longest].tailHeight)
    OBVIOUS
  <2>2. /\ from # Disk
        /\ \/ crashed' = TRUE /\ fork' = fork /\ chains' = chains
           \/ /\ b # Nil /\ crashed' = crashed
              /\ chains' = [chains EXCEPT ![from] = RemoveTail(chains[from], b)]
              /\ fork' = [fork EXCEPT !.pc = "untailed", !.block = b, !.from = from]
        /\ UNCHANGED diskChain /\ ForkFrame
    BY <1>10, <2>1 DEF ModifyRemoveTail
  <2>3. from \in Block
    BY <1>0, <2>1, <2>2 DEF ForkLocals, ForkedChain
  <2>4. b \in HashOrNil
    BY <1>0, <2>1, <2>3 DEF OwnBlock, ForkedChain, HashOrNil
  <2>5. /\ crashed' \in BOOLEAN /\ fork' \in ForkLocals
        /\ fork'.pc \in {"removed", "untailed"} => fork'.block # Nil
    BY <1>0, <2>2, <2>3, <2>4 DEF ForkLocals
  <2>6. b # Nil => RemoveTail(chains[from], b) \in ForkedChain
    BY <1>0, <2>3, <2>4, RemoveTailChain DEF HashOrNil
  <2>7. chains' \in [Block -> ForkedChain]
    BY <1>0, <2>2, <2>3, <2>6
  <2> QED
    BY <1>0, <2>2, <2>5, <2>7, ForkStepType
<1>11. CASE ModifyAddTail
  <2>1. fork.block \in Block /\ fork.longest \in Block
    BY <1>0, <1>11 DEF ModifyAddTail, ForkLocals, HashOrNil
  <2>2. /\ chains' = [chains EXCEPT ![fork.longest] = AddTail(chains[fork.longest], fork.block)]
        /\ fork' = [fork EXCEPT !.pc = "refer"]
        /\ UNCHANGED <<diskChain, crashed>> /\ ForkFrame
    BY <1>11 DEF ModifyAddTail
  <2>3. AddTail(chains[fork.longest], fork.block) \in ForkedChain
    BY <1>0, <2>1, AddTailChain
  <2>4. chains' \in [Block -> ForkedChain]
    BY <1>0, <2>2, <2>3
  <2>5. fork' \in ForkLocals /\ fork'.pc = "refer"
    BY <1>0, <2>2 DEF ForkLocals
  <2> QED
    BY <1>0, <2>2, <2>4, <2>5, ForkStepType
<1>12. CASE ModifyRefer
  <2>1. PICK from : /\ from = chains[fork.longest].referChain
                    /\ from # Disk
                    /\ fork' = [fork EXCEPT !.pc = "refer", !.from = from]
                    /\ UNCHANGED <<chains, diskChain, crashed>> /\ ForkFrame
    BY <1>12 DEF ModifyRefer
  <2>2. from \in Block
    BY <1>0, <2>1 DEF ForkLocals, ForkedChain
  <2>3. fork' \in ForkLocals /\ fork'.pc = "refer"
    BY <1>0, <2>1, <2>2 DEF ForkLocals
  <2> QED
    BY <1>0, <2>1, <2>3, ForkStepType
<1>13. CASE ModifyReferTo \/ ModifyReferFrom
  <2>1. PICK c \in Block, r \in Block \cup {Disk}, p \in {"turn", "modify"} :
           /\ chains' = [chains EXCEPT ![c].referChain = r]
           /\ \/ fork' = [fork EXCEPT !.pc = p]
              \/ fork' = [fork EXCEPT !.pc = p, !.block = Nil, !.from = Genesis]
           /\ UNCHANGED <<diskChain, crashed>> /\ ForkFrame
    <3>1. /\ fork.longest \in Block /\ fork.from \in Block
          /\ chains[fork.from].referChain \in Block \cup {Disk}
      BY <1>0 DEF ForkLocals, ForkedChain
    <3>2. CASE ModifyReferTo
      BY <3>1, <3>2 DEF ModifyReferTo, TurnedRefer
    <3>3. CASE ModifyReferFrom
      BY <3>1, <3>3 DEF ModifyReferFrom
    <3> QED
      BY <1>13, <3>2, <3>3
  <2>2. [chains[c] EXCEPT !.referChain = r] \in ForkedChain
    BY <1>0 DEF ForkedChain
  <2>3. chains' \in [Block -> ForkedChain]
    BY <1>0, <2>1, <2>2
  <2>4. fork' \in ForkLocals /\ fork'.pc \in {"turn", "modify"}
    BY <1>0, <2>1 DEF ForkLocals, HashOrNil
  <2> QED
    BY <1>0, <2>1, <2>3, <2>4, ForkStepType
<1>14. CASE ModifyCurrent
  BY <1>0, <1>2, <1>14 DEF ModifyCurrent, ForkLocals
<1> QED
  BY <1>1, <1>3, <1>4, <1>5, <1>6, <1>7, <1>8, <1>9, <1>10, <1>11, <1>12, <1>13, <1>14
  DEF LoopCheckFork, SnapshotFork

\* A step that leaves every variable alone keeps the types.
LEMMA StutterType == TypeOK /\ UNCHANGED vars => TypeOK'
  BY DEF TypeOK, vars, poolVars, genVars, appendVars

\* Every reachable state of the snapshot pool has its type, for every tree of
\* blocks: no step of loop(), loopCheckFork() or AddBlock computes a value that
\* is not a block, a height, a snippet or a chain.
THEOREM TypeCorrect == Spec => []TypeOK
<1>1. Init => TypeOK
  BY InitType
<1>2. TypeOK /\ [Next]_vars => TypeOK'
  BY NetworkType, GenType, AppendType, FetchType, InsertType, ForkType, StutterType
  DEF Next, Loop
<1> QED
  BY <1>1, <1>2, PTL DEF Spec

-----------------------------------------------------------------------------
(***************************************************************************)
(* Names.  A forked chain takes the name of the snippet it is made from.   *)
(* That name is fresh because a block is compounded once and is then the   *)
(* head of at most one snippet, which is gone when the chain exists.  The  *)
(* genesis block, which a peer may send as well, can become a snippet but  *)
(* never a forked chain, for nothing is found below it.                    *)
(***************************************************************************)
Bookkeeping ==
    /\ Genesis \in chainIds /\ current \in chainIds /\ fork.longest \in chainIds
    /\ Range(tmpChains) \subseteq chainIds
    /\ pending \subseteq freeBlocks /\ freeBlocks \cap compoundBlocks = {}
    /\ chainIds \subseteq compoundBlocks \cup {Genesis}
    /\ snippetIds \subseteq compoundBlocks
    /\ Range(list) \subseteq compoundBlocks
    /\ headMap \subseteq Range(list)
    /\ todo \subseteq snippetIds
    /\ w # Nil => w \in snippetIds /\ w \notin todo
    /\ pc \notin {"compound", "merge"} => list = <<>>
    /\ pc # "merge" => headMap = {}
    /\ pc # "forky" => todo = {} /\ w = Nil
    /\ snippetIds \cap chainIds \subseteq {Genesis}
    /\ Range(list) \cap chainIds \subseteq {Genesis}
    /\ snippetChains[Genesis].tailHash = Nil

\* Appending adds one member to the range of a sequence.
LEMMA RangeAppend ==
    ASSUME NEW T, NEW q \in Seq(T), NEW e \in T
    PROVE  /\ Range(Append(q, e)) \subseteq Range(q) \cup {e}
           /\ Range(q) \subseteq Range(Append(q, e))
  BY DEF Range

\* The empty slice holds nothing.
LEMMA RangeEmpty == Range(<<>>) = {}
  BY DEF Range

\* At the start the only name is genesis.
LEMMA BookkeepingInit == Init => Bookkeeping
<1> SUFFICES ASSUME Init PROVE Bookkeeping
  OBVIOUS
<1>1. snippetChains[Genesis].tailHash = Nil
  BY TreeAssumption DEF Init, NoSnippet
<1>2. Range(list) = {} /\ Range(tmpChains) = {}
  BY RangeEmpty DEF Init
<1>3. fork.longest = Genesis
  BY DEF Init, NoFork
<1> QED
  BY <1>1, <1>2, <1>3 DEF Init, Bookkeeping

\* loopGenSnippetChains: a new snippet is named by a block that is being
\* compounded, which no snippet or chain is named by.
LEMMA BookkeepingGen == TypeOK /\ Bookkeeping /\ Gen => Bookkeeping'
<1> SUFFICES ASSUME TypeOK, Bookkeeping, Gen PROVE Bookkeeping'
  OBVIOUS
<1> USE TreeAssumption DEF TypeOK, Bookkeeping
<1>1. CASE GenStart
  BY <1>1, OrdersType DEF GenStart, poolVars, appendVars
<1>2. ASSUME NEW b \in Block, GenAddTail(b) PROVE Bookkeeping'
  <2>1. snippetChains'[Genesis].tailHash = Nil
    <3>1. FirstHit(b) # Genesis
      BY <1>2 DEF GenAddTail, Extends
    <3> QED
      BY <1>2, <3>1 DEF GenAddTail
  <2> QED
    BY <1>2, <2>1 DEF GenAddTail, Compound, appendVars
<1>3. ASSUME NEW b \in Block, GenDrop(b) PROVE Bookkeeping'
  BY <1>3 DEF GenDrop, Compound, appendVars
<1>4. ASSUME NEW b \in Block, GenNewSnippet(b) PROVE Bookkeeping'
  <2>1. snippetChains'[Genesis].tailHash = Nil
    BY <1>4 DEF GenNewSnippet, NewSnippet
  <2>2. Range(list') \subseteq Range(list) \cup {b} /\ Range(list) \subseteq Range(list')
    BY <1>4, RangeAppend DEF GenNewSnippet
  <2> QED
    BY <1>4, <2>1, <2>2 DEF GenNewSnippet, Compound, appendVars
<1>5. CASE GenSplit
  BY <1>5 DEF GenSplit, poolVars, appendVars
<1>6. CASE GenMerge
  <2>1. snippetChains'[Genesis].tailHash = Nil
    <3>1. list[next] # Genesis
      BY <1>6 DEF GenMerge, BelowInMap
    <3> QED
      BY <1>6, <3>1 DEF GenMerge
  <2> QED
    BY <1>6, <2>1 DEF GenMerge, netVars, appendVars
<1>7. CASE GenMerged
  BY <1>7 DEF GenMerged, poolVars, appendVars
<1>8. CASE GenDone
  <2>1. snippetChains'[Genesis].tailHash = Nil
    BY <1>8 DEF GenDone, NoSnippet
  <2> QED
    BY <1>8, <2>1, RangeEmpty DEF GenDone, netVars, appendVars
<1> QED
  BY <1>1, <1>2, <1>3, <1>4, <1>5, <1>6, <1>7, <1>8 DEF Gen

\* A snippet with nothing below its tail is not trimmed and has no fork point.
LEMMA TrimmedBottom ==
    ASSUME snippetChains \in [Block -> Snippet], NEW s \in Block,
           snippetChains[s].tailHash = Nil, NEW c, NEW refer
    PROVE  /\ Trimmed(s, c, refer) = snippetChains[s]
           /\ ~HasForkPoint(s, c, refer)
<1>1. ~TailFound(s, c, refer)
  BY DEF TailFound
<1>2. SharedHeight(s, c, refer) = snippetChains[s].tailHeight
  BY <1>1 DEF SharedHeight
<1>3. snippetChains[s].tailHeight \in Int
  BY TreeAssumption DEF Snippet
<1> QED
  BY <1>1, <1>2, <1>3 DEF Trimmed, CutTo, HasForkPoint

\* The genesis snippet is never trimmed.
LEMMA TrimmedGenesis ==
    ASSUME TypeOK, Bookkeeping, NEW c, NEW refer
    PROVE  Trimmed(Genesis, c, refer).tailHash = Nil
<1>1. Genesis \in Block /\ snippetChains[Genesis].tailHash = Nil
  BY TreeAssumption DEF Bookkeeping
<1> QED
  BY <1>1, TrimmedBottom DEF TypeOK

\* forkChain gives its chain a new name.
LEMMA FreshName ==
    ASSUME TypeOK, Bookkeeping, w # Nil, NEW c, NEW refer, HasForkPoint(w, c, refer)
    PROVE  w \in Block \ chainIds
<1>1. w \in Block
  BY DEF TypeOK, HashOrNil
<1>2. w # Genesis
  BY <1>1, TrimmedBottom DEF TypeOK, Bookkeeping
<1> QED
  BY <1>1, <1>2 DEF Bookkeeping

\* loopAppendChains: a snippet's name goes to the chain made from it.
LEMMA BookkeepingAppend == TypeOK /\ Bookkeeping /\ AppendChains => Bookkeeping'
<1> SUFFICES ASSUME TypeOK, Bookkeeping, AppendChains PROVE Bookkeeping'
  OBVIOUS
<1> USE TreeAssumption DEF TypeOK, Bookkeeping
<1>1. CASE AppendNone
  BY <1>1 DEF AppendNone, poolVars, genVars, appendVars
<1>2. CASE AppendStart
  <2>1. Range(tmpChains') \subseteq chainIds
    BY <1>2, OrdersType DEF AppendStart
  <2>2. list = <<>> => Range(list) = {}
    BY RangeEmpty
  <2> QED
    BY <1>2, <2>1, <2>2 DEF AppendStart, poolVars, genVars
<1>3. CASE AppendNext
  BY <1>3 DEF AppendNext, poolVars, genVars
<1>4. CASE AppendDone
  BY <1>4, RangeEmpty DEF AppendDone, poolVars, genVars
<1>5. ASSUME Visiting
      PROVE  Visited \in Block /\ w \in Block /\ Visited \in Range(tmpChains)
  BY <1>5 DEF Visiting, Visited, HashOrNil, Range
<1>6. ASSUME NEW c \in Block, NEW sn \in Snippet, w \in Block,
             w = Genesis => sn.tailHash = Nil,
             InsertSnippet(c, sn), AppendFrame
      PROVE  Bookkeeping'
  <2>1. snippetChains'[Genesis].tailHash = Nil
    BY <1>6 DEF InsertSnippet, DeleteSnippet, NoSnippet
  <2>2. snippetIds' \in {snippetIds, snippetIds \ {w}} /\ w' = Nil
    BY <1>6 DEF InsertSnippet, DeleteSnippet
  <2> QED
    BY <1>6, <2>1, <2>2 DEF InsertSnippet, AppendFrame, netVars, genVars
<1>7. ASSUME NEW c \in Block, NEW sn \in Snippet, w \in Block \ chainIds,
             pc = "forky", ForkChain(c, sn), AppendFrame
      PROVE  Bookkeeping'
  <2>1. snippetChains'[Genesis].tailHash = Nil
    BY <1>7 DEF ForkChain, DeleteSnippet, NoSnippet
  <2>2. Range(tmpChains') \subseteq Range(tmpChains) \cup {w}
    BY <1>7, RangeAppend DEF ForkChain
  <2>3. Range(list) = {} /\ list' = list
    BY <1>7, RangeEmpty DEF AppendFrame, genVars
  <2> QED
    BY <1>7, <2>1, <2>2, <2>3 DEF ForkChain, DeleteSnippet, AppendFrame, netVars, genVars
<1>8. ASSUME NEW sn \in Snippet, w \in Block, KeepSnippet(sn),
             w = Genesis => sn.tailHash = Nil
      PROVE  /\ snippetIds' \in {snippetIds, snippetIds \ {w}}
             /\ ~Used(sn) => snippetIds' = snippetIds
             /\ snippetChains'[Genesis].tailHash = Nil
  BY <1>8 DEF KeepSnippet, DeleteSnippet, NoSnippet
<1>9. CASE AppendInsert
  BY <1>5, <1>6, <1>9 DEF AppendInsert
<1>10. CASE AppendSkip
  BY <1>10 DEF AppendSkip, AppendFrame, netVars, genVars
<1>11. CASE AppendSame
  <2> DEFINE n == chains[Visited].headHeight
             sn == CutTo(snippetChains[w], n)
  <2>1. n \in -1..MaxHeight /\ n >= 0
    BY <1>5, <1>11 DEF AppendSame, ForkedChain, Height
  <2>2. snippetChains[w] \in Snippet
    BY <1>5, <1>11 DEF AppendSame
  <2>3. sn \in Snippet
    BY <2>1, <2>2, CutToSnippet
  <2>4. w # Genesis
    BY <1>11, <2>1 DEF AppendSame, OutOfReach
  <2> QED
    BY <1>5, <1>6, <1>11, <2>3, <2>4 DEF AppendSame
<1>12. CASE AppendFork
  <2>1. w \in Block \ chainIds /\ pc = "forky"
    BY <1>12, FreshName DEF AppendFork, Visiting
  <2> QED
    BY <1>5, <1>7, <1>12, <2>1, TrimmedType DEF AppendFork
<1>13. CASE AppendPass
  <2> DEFINE sn == Trimmed(w, Visited, FALSE)
  <2>1. w \in Block /\ sn \in Snippet
    BY <1>5, <1>13, TrimmedType DEF AppendPass
  <2>2. w = Genesis => sn.tailHash = Nil
    BY TrimmedGenesis
  <2>3. /\ KeepSnippet(sn)
        /\ w' = IF Used(sn) THEN Nil ELSE w
    BY <1>13, Zenon DEF AppendPass
  <2>4. UNCHANGED <<netVars, chainIds, chains, current, diskChain, pc, genVars,
                    todo, tmpChains, fork>>
    BY <1>13, Zenon DEF AppendPass, AppendFrame
  <2>5. pc = "forky"
    BY <1>13 DEF AppendPass, Visiting
  <2> HIDE DEF sn
  <2>6. /\ snippetIds' \in {snippetIds, snippetIds \ {w}}
        /\ ~Used(sn) => snippetIds' = snippetIds
        /\ snippetChains'[Genesis].tailHash = Nil
    BY <1>8, <2>1, <2>2, <2>3
  <2> QED
    BY <2>1, <2>3, <2>4, <2>5, <2>6 DEF netVars, genVars
<1>16. CASE AppendPanic
  BY <1>16 DEF AppendPanic, poolVars, genVars, appendVars
<1>14. CASE AppendDiskFork
  <2>1. w \in Block \ chainIds /\ pc = "forky"
    BY <1>14, FreshName DEF AppendDiskFork, DiskReached
  <2> QED
    BY <1>7, <1>14, <2>1, TrimmedType DEF AppendDiskFork
<1>15. CASE AppendLeave
  <2>1. w \in Block
    BY <1>15 DEF AppendLeave, DiskReached, HashOrNil
  <2>2. /\ snippetIds' \in {snippetIds, snippetIds \ {w}}
        /\ snippetChains'[Genesis].tailHash = Nil
    <3>1. CASE BelowDiskHead
      <4> DEFINE sn == Trimmed(w, current, TRUE)
      <4>1. KeepSnippet(sn)
        BY <1>15, <3>1 DEF AppendLeave
      <4>2. sn \in Snippet /\ (w = Genesis => sn.tailHash = Nil)
        BY <2>1, TrimmedType, TrimmedGenesis
      <4> HIDE DEF sn
      <4> QED
        BY <1>8, <2>1, <4>1, <4>2
    <3>2. CASE ~BelowDiskHead
      BY <1>8, <1>15, <2>1, <3>2 DEF AppendLeave
    <3> QED
      BY <3>1, <3>2
  <2> QED
    BY <1>15, <2>2 DEF AppendLeave, DiskReached, AppendFrame, netVars, genVars
<1> QED
  BY <1>1, <1>2, <1>3, <1>4, <1>9, <1>10, <1>11, <1>12, <1>13, <1>14, <1>15, <1>16
  DEF AppendChains

\* AddBlock, loopFetchForSnippets and the insertion name nothing.
LEMMA BookkeepingRest ==
    TypeOK /\ Bookkeeping /\ (Network \/ Fetch \/ Insert) => Bookkeeping'
<1> SUFFICES ASSUME TypeOK, Bookkeeping, Network \/ Fetch \/ Insert
             PROVE  Bookkeeping'
  OBVIOUS
<1> USE DEF Bookkeeping
<1>1. CASE Network
  BY <1>1 DEF Network, AddBlock, genVars, appendVars
<1>2. CASE Fetch
  BY <1>2 DEF Fetch, poolVars, genVars, appendVars
<1>3. CASE NothingToInsert
  BY <1>3 DEF NothingToInsert, poolVars, genVars, appendVars
<1>4. ASSUME NEW n, NEW m, TryInsert(n, m) PROVE Bookkeeping'
  BY <1>4 DEF TryInsert, netVars, genVars, appendVars
<1> QED
  BY <1>1, <1>2, <1>3, <1>4 DEF Insert

\* snapshotFork leaves to loop() what is loop()'s, and goes only to the chain
\* that checkFork found.
LEMMA SnapshotForkFrame ==
    ASSUME TypeOK, SnapshotFork
    PROVE  /\ UNCHANGED <<netVars, snippetIds, snippetChains, chainIds, pc, genVars,
                          appendVars>>
           /\ fork'.longest \in {fork.longest, Genesis}
           /\ current' \in {current, fork.longest}
<1>1. fork \in ForkLocals /\ NoFork.longest = Genesis
  BY DEF TypeOK, ForkLocals, NoFork
<1>2. CASE ForkGiveUp \/ ForkFailed \/ ModifyCurrent
  BY <1>1, <1>2 DEF ForkGiveUp, ForkFailed, ModifyCurrent, ForkReturn
<1>3. ASSUME ForkFrame,
             \/ fork' \in {fork, NoFork}
             \/ \E p, h : fork' = [fork EXCEPT !.pc = p, !.point = h]
             \/ \E p : fork' = [fork EXCEPT !.pc = p]
             \/ \E p, b : fork' = [fork EXCEPT !.pc = p, !.block = b]
             \/ \E p, c : fork' = [fork EXCEPT !.pc = p, !.from = c]
             \/ \E p, b, c : fork' = [fork EXCEPT !.pc = p, !.block = b, !.from = c]
      PROVE  /\ UNCHANGED <<netVars, snippetIds, snippetChains, chainIds, pc, genVars,
                            appendVars>>
             /\ fork'.longest \in {fork.longest, Genesis}
             /\ current' \in {current, fork.longest}
  <2>1. fork'.longest \in {fork.longest, Genesis}
    BY <1>1, <1>3 DEF ForkLocals
  <2> QED
    BY <1>3, <2>1 DEF ForkFrame
<1>4. CASE ForkStart
  BY <1>3, <1>4 DEF ForkStart
<1>5. CASE RollbackRemove
  BY <1>3, <1>5 DEF RollbackRemove
<1>6. CASE RollbackAddTail
  BY <1>3, <1>6 DEF RollbackAddTail
<1>7. CASE RollbackCheck
  BY <1>3, <1>7 DEF RollbackCheck
<1>8. CASE CurrentModify
  BY <1>3, <1>8 DEF CurrentModify
<1>9. CASE ModifyRemoveTail
  <2>1. /\ ForkFrame
        /\ \/ fork' = fork
           \/ \E b, c : fork' = [fork EXCEPT !.pc = "untailed", !.block = b, !.from = c]
    BY <1>9, Zenon DEF ModifyRemoveTail
  <2> QED
    BY <1>3, <2>1
<1>10. CASE ModifyAddTail
  BY <1>3, <1>10 DEF ModifyAddTail
<1>11. CASE ModifyRefer
  BY <1>3, <1>11 DEF ModifyRefer
<1>12. CASE ModifyReferTo
  BY <1>3, <1>12 DEF ModifyReferTo
<1>13. CASE ModifyReferFrom
  BY <1>3, <1>13 DEF ModifyReferFrom
<1> QED
  BY <1>2, <1>4, <1>5, <1>6, <1>7, <1>8, <1>9, <1>10, <1>11, <1>12, <1>13
  DEF SnapshotFork

\* snapshotFork goes to a chain that has a name already.
LEMMA BookkeepingFork == TypeOK /\ Bookkeeping /\ LoopCheckFork => Bookkeeping'
<1> SUFFICES ASSUME TypeOK, Bookkeeping, LoopCheckFork PROVE Bookkeeping'
  OBVIOUS
<1> USE DEF Bookkeeping, netVars, poolVars, genVars, appendVars
<1>1. ASSUME NEW l \in Block, CheckFork(l) PROVE Bookkeeping'
  BY <1>1 DEF CheckFork, Longest, NoFork
<1>2. CASE SnapshotFork
  BY <1>2, SnapshotForkFrame
<1> QED
  BY <1>1, <1>2 DEF LoopCheckFork

\* A step that changes nothing changes no name.
LEMMA BookkeepingStutter == Bookkeeping /\ UNCHANGED vars => Bookkeeping'
  BY DEF Bookkeeping, vars, poolVars, genVars, appendVars

\* The names of snippets and chains stay apart: a snippet that is still to be
\* attached never has the name of an existing chain, so that forkChain never
\* overwrites one.
THEOREM NamesApart == Spec => []Bookkeeping
<1>1. Init => Bookkeeping
  BY BookkeepingInit
<1>2. TypeOK /\ Bookkeeping /\ [Next]_vars => Bookkeeping'
  BY BookkeepingGen, BookkeepingAppend, BookkeepingRest, BookkeepingFork,
     BookkeepingStutter
  DEF Next, Loop
<1> QED
  BY <1>1, <1>2, TypeCorrect, PTL DEF Spec

-----------------------------------------------------------------------------
(***************************************************************************)
(* References.  Three kinds of step can change where chains refer to.      *)
(***************************************************************************)
\* Steps that keep the chains and their references.
LEMMA RefersKept ==
    ASSUME RefersReachDisk, chainIds' = chainIds,
           \A c \in chainIds : chains'[c].referChain = chains[c].referChain
    PROVE  RefersReachDisk'
  BY DEF RefersReachDisk

\* forkChain: no chain refers to the new one, and it refers to an old one.
LEMMA RefersForked ==
    ASSUME RefersReachDisk, NEW n, n \notin chainIds, n # Disk,
           chainIds' = chainIds \cup {n},
           chains'[n].referChain \in chainIds,
           \A c \in chainIds : chains'[c].referChain = chains[c].referChain
    PROVE  RefersReachDisk'
<1>1. \A c \in chainIds' : chains'[c].referChain \in chainIds' \cup {Disk}
  BY DEF RefersReachDisk
<1>2. ASSUME NEW S \in SUBSET chainIds', S # {}
      PROVE  \E c \in S : chains'[c].referChain \notin S
  <2>1. CASE S \ {n} = {}
    BY <1>2, <2>1
  <2>2. CASE S \ {n} # {}
    <3>1. PICK c \in S \ {n} : chains[c].referChain \notin S \ {n}
      BY <2>2 DEF RefersReachDisk
    <3>2. chains[c].referChain # n
      BY <3>1 DEF RefersReachDisk
    <3> QED
      BY <3>1, <3>2
  <2> QED
    BY <2>1, <2>2
<1> QED
  BY <1>1, <1>2 DEF RefersReachDisk

\* modifyRefer lets a chain refer to what the chain below it refers to: a set
\* that is closed afterwards was, with the chain passed over, closed before.
LEMMA RefersTurnedTo ==
    ASSUME RefersReachDisk, NEW to \in chainIds, NEW from \in chainIds,
           chains[to].referChain = from, chainIds' = chainIds,
           chains'[to].referChain = chains[from].referChain,
           \A c \in chainIds \ {to} : chains'[c].referChain = chains[c].referChain
    PROVE  RefersReachDisk'
<1>1. \A c \in chainIds' : chains'[c].referChain \in chainIds' \cup {Disk}
  BY DEF RefersReachDisk
<1>2. ASSUME NEW S \in SUBSET chainIds', S # {},
             \A c \in S : chains'[c].referChain \in S
      PROVE  FALSE
  <2> DEFINE T == IF to \in S THEN S \cup {from} ELSE S
  <2>1. T \in SUBSET chainIds /\ T # {}
    BY <1>2
  <2>2. PICK c \in T : chains[c].referChain \notin T
    BY <2>1 DEF RefersReachDisk
  <2>3. CASE c = to
    BY <1>2, <2>2, <2>3
  <2>4. CASE c # to
    BY <1>2, <2>2, <2>4
  <2> QED
    BY <2>3, <2>4
<1> QED
  BY <1>1, <1>2 DEF RefersReachDisk

\* It then lets the chain passed over refer to the chain above.
LEMMA RefersTurnedFrom ==
    ASSUME RefersReachDisk, NEW to \in chainIds, NEW from \in chainIds, from # to,
           chains[to].referChain = chains[from].referChain, chainIds' = chainIds,
           chains'[from].referChain = to,
           \A c \in chainIds \ {from} : chains'[c].referChain = chains[c].referChain
    PROVE  RefersReachDisk'
<1>1. \A c \in chainIds' : chains'[c].referChain \in chainIds' \cup {Disk}
  BY DEF RefersReachDisk
<1>2. ASSUME NEW S \in SUBSET chainIds', S # {},
             \A c \in S : chains'[c].referChain \in S
      PROVE  FALSE
  <2>1. PICK c \in S : chains[c].referChain \notin S
    BY <1>2 DEF RefersReachDisk
  <2> QED
    BY <1>2, <2>1
<1> QED
  BY <1>1, <1>2 DEF RefersReachDisk

\* Between the two writes of modifyRefer: the chain that it passes over is
\* another one, and the reference written first is the one to be copied.
TurnShape ==
    /\ fork.from \in chainIds
    /\ fork.pc \in {"untailed", "refer", "turn"} => fork.from # fork.longest
    /\ fork.pc \in {"untailed", "refer"} => chains[fork.longest].referChain = fork.from
    /\ fork.pc = "turn" => chains[fork.longest].referChain = chains[fork.from].referChain

\* The references stay, whatever chains are added.
RefersStay ==
    /\ fork' = fork
    /\ chainIds \subseteq chainIds'
    /\ \A c \in chainIds : chains'[c].referChain = chains[c].referChain

\* loop() between the two writes.
LEMMA TurnKept ==
    ASSUME Bookkeeping, TurnShape, RefersStay
    PROVE  TurnShape'
  BY DEF Bookkeeping, TurnShape, RefersStay

\* At the start the only chain refers to the disk.
LEMMA RefersInit == Init => RefersReachDisk /\ TurnShape
<1> SUFFICES ASSUME Init PROVE RefersReachDisk /\ TurnShape
  OBVIOUS
<1>1. chainIds = {Genesis} /\ chains[Genesis].referChain = Disk
  BY TreeAssumption DEF Init, NoChain, NewChain
<1>2. Genesis # Disk
  BY TreeAssumption
<1>3. fork.pc = "idle" /\ fork.from = Genesis
  BY DEF Init, NoFork
<1> QED
  BY <1>1, <1>2, <1>3 DEF RefersReachDisk, TurnShape

\* loopAppendChains: a new chain refers to one that was there before.
LEMMA RefersAppend ==
    ASSUME TypeOK, Bookkeeping, RefersReachDisk, AppendChains
    PROVE  RefersReachDisk' /\ RefersStay
<1>0. fork' = fork
  BY Zenon
  DEF AppendChains, AppendNone, AppendStart, AppendNext, AppendDone, AppendInsert,
      AppendSkip, AppendSame, AppendFork, AppendPass, AppendPanic, AppendDiskFork,
      AppendLeave, AppendFrame
<1>1. ASSUME UNCHANGED <<chainIds, chains>> PROVE RefersReachDisk' /\ RefersStay
  BY <1>0, <1>1, RefersKept DEF RefersStay
<1>2. ASSUME Visiting
      PROVE  Visited \in Block /\ w \in Block /\ Visited \in chainIds
  BY <1>2 DEF Visiting, Visited, HashOrNil, Range, TypeOK, Bookkeeping
<1>3. ASSUME NEW c \in Block, NEW sn \in Snippet, w \in Block, InsertSnippet(c, sn)
      PROVE  RefersReachDisk' /\ RefersStay
  <2>1. Extended(c, w, sn).referChain = chains[c].referChain
    BY <1>3, ExtendedType DEF TypeOK
  <2>2. \A d \in chainIds : chains'[d].referChain = chains[d].referChain
    BY <1>3, <2>1 DEF InsertSnippet, TypeOK
  <2> QED
    BY <1>0, <1>3, <2>2, RefersKept DEF InsertSnippet, RefersStay
<1>4. ASSUME NEW c \in chainIds, NEW sn, w \in Block \ chainIds, ForkChain(c, sn)
      PROVE  RefersReachDisk' /\ RefersStay
  <2>1. chains'[w].referChain = c
    BY <1>4 DEF ForkChain, ForkOf, TypeOK
  <2>2. \A d \in chainIds : chains'[d].referChain = chains[d].referChain
    BY <1>4 DEF ForkChain, TypeOK
  <2>3. chainIds' = chainIds \cup {w} /\ w # Disk
    BY <1>4, TreeAssumption DEF ForkChain
  <2> QED
    BY <1>0, <1>4, <2>1, <2>2, <2>3, RefersForked DEF RefersStay
<1>5. CASE \/ AppendNone \/ AppendStart \/ AppendNext \/ AppendDone \/ AppendSkip
          \/ AppendPanic
  BY <1>1, <1>5
  DEF AppendNone, AppendStart, AppendNext, AppendDone, AppendSkip, AppendPanic, poolVars
<1>6. CASE AppendPass
  BY <1>1, <1>6, Zenon DEF AppendPass
<1>7. CASE AppendLeave
  BY <1>1, <1>7 DEF AppendLeave
<1>8. CASE AppendInsert
  BY <1>2, <1>3, <1>8 DEF AppendInsert, TypeOK
<1>9. CASE AppendSame
  <2>1. chains[Visited].headHeight \in -1..MaxHeight
    BY <1>2, <1>9, TreeAssumption DEF AppendSame, TypeOK, ForkedChain, Height
  <2>2. snippetChains[w] \in Snippet
    BY <1>2, <1>9 DEF AppendSame, TypeOK
  <2> QED
    BY <1>2, <1>3, <1>9, <2>1, <2>2, CutToSnippet DEF AppendSame
<1>10. CASE AppendFork
  <2>1. w \in Block \ chainIds
    BY <1>10, FreshName DEF AppendFork, Visiting
  <2> QED
    BY <1>2, <1>4, <1>10, <2>1 DEF AppendFork
<1>11. CASE AppendDiskFork
  <2>1. w \in Block \ chainIds
    BY <1>11, FreshName DEF AppendDiskFork, DiskReached
  <2> QED
    BY <1>4, <1>11, <2>1 DEF AppendDiskFork, Bookkeeping
<1> QED
  BY <1>5, <1>6, <1>7, <1>8, <1>9, <1>10, <1>11 DEF AppendChains

\* snapshotFork writes one reference at a time.
LEMMA RefersFork ==
    ASSUME TypeOK, Bookkeeping, RefersReachDisk, TurnShape, LoopCheckFork
    PROVE  RefersReachDisk' /\ TurnShape'
<1>0. /\ fork \in ForkLocals /\ NoFork.pc = "idle" /\ NoFork.from = Genesis
      /\ chains \in [Block -> ForkedChain] /\ chainIds \subseteq Block
      /\ Genesis \in chainIds /\ current \in chainIds
      /\ fork.longest \in chainIds /\ fork.from \in chainIds
  BY DEF TypeOK, ForkLocals, NoFork, Bookkeeping, TurnShape
<1>1. ASSUME chainIds' = chainIds, fork'.from \in chainIds,
             fork'.pc \notin {"untailed", "refer", "turn"},
             \A c \in chainIds : chains'[c].referChain = chains[c].referChain
      PROVE  RefersReachDisk' /\ TurnShape'
  BY <1>1, RefersKept DEF TurnShape
<1>2. ASSUME fork' = fork, chains' = chains, chainIds' = chainIds
      PROVE  RefersReachDisk' /\ TurnShape'
  BY <1>2, RefersKept DEF TurnShape
<1>3. ASSUME NEW l \in Block, CheckFork(l) PROVE RefersReachDisk' /\ TurnShape'
  <2>1. /\ fork'.pc = "captured" /\ fork'.from = Genesis
        /\ UNCHANGED <<chainIds, chains>>
    BY <1>3 DEF CheckFork, NoFork, poolVars
  <2> QED
    BY <1>0, <1>1, <2>1
<1>4. CASE ForkGiveUp \/ ForkFailed \/ ModifyCurrent
  <2>1. fork' = NoFork /\ UNCHANGED <<chainIds, chains>>
    BY <1>4 DEF ForkGiveUp, ForkFailed, ModifyCurrent, ForkReturn
  <2> QED
    BY <1>0, <1>1, <2>1
<1>5. CASE ForkStart \/ RollbackRemove \/ RollbackCheck
  <2>1. UNCHANGED <<chainIds, chains>>
    BY <1>5 DEF ForkStart, RollbackRemove, RollbackCheck, ForkFrame
  <2>2. CASE fork' = fork
    BY <1>2, <2>1, <2>2
  <2>3. CASE fork' # fork
    <3>1. fork'.from = fork.from /\ fork'.pc \in {"rollback", "removed", "rolled", "failed"}
      BY <1>0, <1>5, <2>3 DEF ForkStart, RollbackRemove, RollbackCheck, ForkLocals
    <3> QED
      BY <1>0, <1>1, <2>1, <3>1
  <2> QED
    BY <2>2, <2>3
<1>6. CASE RollbackAddTail
  <2>1. /\ fork' = [fork EXCEPT !.pc = "rollback", !.block = Nil]
        /\ chains' = [chains EXCEPT ![current] = AddTail(chains[current], fork.block)]
        /\ chainIds' = chainIds
    BY <1>6 DEF RollbackAddTail, ForkFrame
  <2>2. AddTail(chains[current], fork.block).referChain = chains[current].referChain
    BY <1>0 DEF AddTail, ForkedChain
  <2>3. \A c \in chainIds : chains'[c].referChain = chains[c].referChain
    BY <1>0, <2>1, <2>2
  <2>4. fork'.pc = "rollback" /\ fork'.from = fork.from
    BY <1>0, <2>1 DEF ForkLocals
  <2> QED
    BY <1>0, <1>1, <2>1, <2>3, <2>4
<1>7. CASE CurrentModify
  <2>1. /\ fork' \in {NoFork, [fork EXCEPT !.pc = "modify"]}
        /\ UNCHANGED <<chainIds, chains>>
    BY <1>7 DEF CurrentModify, ForkFrame
  <2>2. fork'.pc \in {"idle", "modify"} /\ fork'.from \in {fork.from, Genesis}
    BY <1>0, <2>1 DEF ForkLocals
  <2> QED
    BY <1>0, <1>1, <2>1, <2>2
<1>8. chains[fork.longest].referChain # fork.longest
  <2>1. {fork.longest} \in SUBSET chainIds /\ {fork.longest} # {}
    BY <1>0
  <2>2. \E c \in {fork.longest} : chains[c].referChain \notin {fork.longest}
    BY <2>1 DEF RefersReachDisk
  <2> QED
    BY <2>2
<1>9. ASSUME NEW from \in chainIds, from = chains[fork.longest].referChain,
             fork'.longest = fork.longest, fork'.from = from,
             fork'.pc \in {"untailed", "refer"}, chainIds' = chainIds,
             \A c \in chainIds : chains'[c].referChain = chains[c].referChain
      PROVE  RefersReachDisk' /\ TurnShape'
  BY <1>0, <1>8, <1>9, RefersKept DEF TurnShape
<1>10. CASE ModifyRemoveTail
  <2>1. PICK from, b : /\ from = chains[fork.longest].referChain
                       /\ b = OwnBlock(from, chains[fork.longest].tailHeight)
    OBVIOUS
  <2>2. /\ from # Disk /\ chainIds' = chainIds
        /\ \/ chains' = chains /\ fork' = fork
           \/ /\ b # Nil
              /\ chains' = [chains EXCEPT ![from] = RemoveTail(chains[from], b)]
              /\ fork' = [fork EXCEPT !.pc = "untailed", !.block = b, !.from = from]
    BY <1>10, <2>1 DEF ModifyRemoveTail, ForkFrame
  <2>3. from \in chainIds
    BY <1>0, <2>1, <2>2 DEF RefersReachDisk
  <2>4. CASE chains' = chains /\ fork' = fork
    BY <1>2, <2>2, <2>4
  <2>5. CASE ~(chains' = chains /\ fork' = fork)
    <3>1. RemoveTail(chains[from], b).referChain = chains[from].referChain
      BY <1>0, <2>3 DEF RemoveTail, ForkedChain
    <3>2. \A c \in chainIds : chains'[c].referChain = chains[c].referChain
      BY <1>0, <2>2, <2>3, <2>5, <3>1
    <3>3. fork'.pc = "untailed" /\ fork'.from = from /\ fork'.longest = fork.longest
      BY <1>0, <2>2, <2>5 DEF ForkLocals
    <3> QED
      BY <1>9, <2>1, <2>2, <2>3, <3>2, <3>3
  <2> QED
    BY <2>4, <2>5
<1>11. CASE ModifyAddTail
  <2>1. /\ fork' = [fork EXCEPT !.pc = "refer"] /\ fork.pc = "untailed"
        /\ chains' = [chains EXCEPT ![fork.longest] =
                         AddTail(chains[fork.longest], fork.block)]
        /\ chainIds' = chainIds
    BY <1>11 DEF ModifyAddTail, ForkFrame
  <2>2. AddTail(chains[fork.longest], fork.block).referChain
           = chains[fork.longest].referChain
    BY <1>0 DEF AddTail, ForkedChain
  <2>3. \A c \in chainIds : chains'[c].referChain = chains[c].referChain
    BY <1>0, <2>1, <2>2
  <2>4. /\ fork'.pc = "refer" /\ fork'.from = fork.from
        /\ fork'.longest = fork.longest
    BY <1>0, <2>1 DEF ForkLocals
  <2>5. fork.from = chains[fork.longest].referChain
    BY <2>1 DEF TurnShape
  <2> QED
    BY <1>0, <1>9, <2>1, <2>3, <2>4, <2>5
<1>12. CASE ModifyRefer
  <2>1. PICK from : /\ from = chains[fork.longest].referChain
                    /\ from # Disk
                    /\ fork' = [fork EXCEPT !.pc = "refer", !.from = from]
                    /\ UNCHANGED <<chainIds, chains>>
    BY <1>12 DEF ModifyRefer, ForkFrame
  <2>2. from \in chainIds
    BY <1>0, <2>1 DEF RefersReachDisk
  <2>3. fork'.pc = "refer" /\ fork'.from = from /\ fork'.longest = fork.longest
    BY <1>0, <2>1 DEF ForkLocals
  <2> QED
    BY <1>9, <2>1, <2>2, <2>3
<1>13. CASE ModifyReferTo
  <2>1. PICK to, from : to = fork.longest /\ from = fork.from
    OBVIOUS
  <2>2. /\ fork.pc = "refer" /\ chainIds' = chainIds
        /\ chains' = [chains EXCEPT ![to].referChain = chains[from].referChain]
        /\ fork' = [fork EXCEPT !.pc = "turn"]
    BY <1>13, <2>1 DEF ModifyReferTo, TurnedRefer, ForkFrame
  <2>3. to \in chainIds /\ from \in chainIds /\ from # to /\ chains[to].referChain = from
    BY <1>0, <2>1, <2>2 DEF TurnShape
  <2>4. /\ chains'[to].referChain = chains[from].referChain
        /\ \A c \in chainIds \ {to} : chains'[c].referChain = chains[c].referChain
    BY <1>0, <2>2, <2>3 DEF ForkedChain
  <2>5. fork'.pc = "turn" /\ fork'.longest = to /\ fork'.from = from
    BY <1>0, <2>1, <2>2 DEF ForkLocals
  <2>6. TurnShape'
    BY <2>2, <2>3, <2>4, <2>5 DEF TurnShape
  <2> QED
    BY <2>2, <2>3, <2>4, <2>6, RefersTurnedTo
<1>14. CASE ModifyReferFrom
  <2>1. PICK to, from : to = fork.longest /\ from = fork.from
    OBVIOUS
  <2>2. /\ fork.pc = "turn" /\ chainIds' = chainIds
        /\ chains' = [chains EXCEPT ![from].referChain = to]
        /\ fork' = [fork EXCEPT !.pc = "modify", !.block = Nil, !.from = Genesis]
    BY <1>14, <2>1 DEF ModifyReferFrom, ForkFrame
  <2>3. /\ to \in chainIds /\ from \in chainIds /\ from # to
        /\ chains[to].referChain = chains[from].referChain
    BY <1>0, <2>1, <2>2 DEF TurnShape
  <2>4. /\ chains'[from].referChain = to
        /\ \A c \in chainIds \ {from} : chains'[c].referChain = chains[c].referChain
    BY <1>0, <2>2, <2>3 DEF ForkedChain
  <2>5. fork'.pc = "modify" /\ fork'.from = Genesis
    BY <1>0, <2>2 DEF ForkLocals
  <2>6. TurnShape'
    BY <1>0, <2>2, <2>5 DEF TurnShape
  <2> QED
    BY <2>2, <2>3, <2>4, <2>6, RefersTurnedFrom
<1> QED
  BY <1>3, <1>4, <1>5, <1>6, <1>7, <1>10, <1>11, <1>12, <1>13, <1>14
  DEF LoopCheckFork, SnapshotFork

\* The other steps of loop() and AddBlock leave the references alone.
LEMMA RefersRest ==
    ASSUME TypeOK, RefersReachDisk, Network \/ Gen \/ Fetch \/ Insert
    PROVE  RefersReachDisk' /\ RefersStay
<1>1. ASSUME UNCHANGED <<chainIds, chains, fork>> PROVE RefersReachDisk' /\ RefersStay
  BY <1>1, RefersKept DEF RefersStay
<1>2. CASE Network \/ Fetch \/ NothingToInsert
  BY <1>1, <1>2 DEF Network, AddBlock, Fetch, NothingToInsert, poolVars
<1>3. CASE Gen
  BY <1>1, <1>3 DEF Gen, GenStart, GenAddTail, GenDrop, GenNewSnippet, Compound,
                    GenSplit, GenMerge, GenMerged, GenDone, poolVars
<1>4. ASSUME NEW n \in -1..MaxHeight, NEW m, TryInsert(n, m)
      PROVE  RefersReachDisk' /\ RefersStay
  <2>1. CutTo(chains[current], n).referChain = chains[current].referChain
    BY <1>4, CutToChain DEF TypeOK
  <2>2. /\ chains' = [chains EXCEPT ![current] = CutTo(@, n)]
        /\ chainIds' = chainIds /\ fork' = fork
    BY <1>4 DEF TryInsert
  <2>3. \A c \in chainIds : chains'[c].referChain = chains[c].referChain
    BY <2>1, <2>2 DEF TypeOK
  <2> QED
    BY <2>2, <2>3, RefersKept DEF RefersStay
<1> QED
  BY <1>2, <1>3, <1>4 DEF Insert

\* A step that changes nothing keeps the references.
LEMMA RefersStutter ==
    ASSUME RefersReachDisk, UNCHANGED vars
    PROVE  RefersReachDisk' /\ RefersStay
  BY RefersKept DEF vars, poolVars, RefersStay

\* One step of anybody.
LEMMA RefersStep ==
    ASSUME TypeOK, Bookkeeping, RefersReachDisk, TurnShape, [Next]_vars
    PROVE  RefersReachDisk' /\ TurnShape'
<1>1. CASE LoopCheckFork
  BY <1>1, RefersFork
<1>2. CASE ~LoopCheckFork
  <2>1. RefersReachDisk' /\ RefersStay
    BY <1>2, RefersAppend, RefersRest, RefersStutter DEF Next, Loop
  <2> QED
    BY <2>1, TurnKept
<1> QED
  BY <1>1, <1>2

\* Whatever forks are made and however modifyRefer turns references around,
\* the chains never refer to one another in a circle, not even between its two
\* writes: the lookup of a block through references, forkedChain.getBlock(height,
\* true), and the loop of currentModifyToChain both reach the disk chain.
THEOREM RefersCorrect == Spec => []RefersReachDisk
<1>1. Init => RefersReachDisk /\ TurnShape
  BY RefersInit
<1>2. /\ TypeOK /\ Bookkeeping /\ RefersReachDisk /\ TurnShape /\ [Next]_vars
      => RefersReachDisk' /\ TurnShape'
  BY RefersStep
<1> QED
  BY <1>1, <1>2, TypeCorrect, NamesApart, PTL DEF Spec

\* The same for what modifyRefer remembers between its writes.
LEMMA TurnCorrect == Spec => []TurnShape
<1>1. Init => RefersReachDisk /\ TurnShape
  BY RefersInit
<1>2. /\ TypeOK /\ Bookkeeping /\ RefersReachDisk /\ TurnShape /\ [Next]_vars
      => RefersReachDisk' /\ TurnShape'
  BY RefersStep
<1> QED
  BY <1>1, <1>2, TypeCorrect, NamesApart, PTL DEF Spec

-----------------------------------------------------------------------------
(***************************************************************************)
(* Snippets.  What each operation does to a linked snippet.                *)
(***************************************************************************)
\* The first block of a linked snippet sits just above its tail.
LEMMA LowestBlock ==
    ASSUME NEW s \in Block, NEW sn \in Snippet, LinkedSnippet(s, sn)
    PROVE  /\ sn.tailHeight + 1 \in Height
           /\ sn.heightBlocks[sn.tailHeight + 1] \in Block
           /\ BlockHeight[sn.heightBlocks[sn.tailHeight + 1]] = sn.tailHeight + 1
           /\ PreHash[sn.heightBlocks[sn.tailHeight + 1]] = sn.tailHash
<1>1. /\ sn.tailHeight \in Int /\ -1 <= sn.tailHeight
      /\ BlockHeight[s] \in Int /\ BlockHeight[s] <= MaxHeight /\ MaxHeight \in Nat
  BY BlockFacts DEF Snippet
<1>2. sn.tailHeight + 1 \in sn.tailHeight + 1 .. BlockHeight[s]
  BY <1>1 DEF LinkedSnippet
<1> QED
  BY <1>1, <1>2 DEF LinkedSnippet, Run, Height

\* A tail that is a block sits at the tail's height.
LEMMA TailBlock ==
    ASSUME NEW s \in Block, NEW sn \in Snippet, LinkedSnippet(s, sn),
           sn.tailHash \in Block
    PROVE  BlockHeight[sn.tailHash] = sn.tailHeight /\ sn.tailHeight \in Height
<1>1. BlockHeight[sn.tailHash] + 1 = sn.tailHeight + 1
  BY LowestBlock, PredecessorBelow
<1>2. BlockHeight[sn.tailHash] \in Int /\ sn.tailHeight \in Int
  BY BlockFacts, TreeAssumption DEF Snippet
<1>3. BlockHeight[sn.tailHash] = sn.tailHeight
  BY <1>1, <1>2
<1> QED
  BY <1>3, BlockFacts DEF Height

\* snippetChain.init makes a linked snippet.
LEMMA NewLinked ==
    ASSUME NEW b \in Block
    PROVE  LinkedSnippet(b, NewSnippet(b))
<1> DEFINE m == [NoBlocks EXCEPT ![BlockHeight[b]] = b]
<1>1. BlockHeight[b] \in Height /\ BlockHeight[b] \in Int
  BY BlockFacts DEF Height
<1>2. m[BlockHeight[b]] = b
  BY <1>1 DEF NoBlocks
<1>3. \A h \in Height : h # BlockHeight[b] => m[h] = Nil
  BY DEF NoBlocks
<1>4. /\ NewSnippet(b).tailHeight = BlockHeight[b] - 1
      /\ NewSnippet(b).tailHash = PreHash[b]
      /\ NewSnippet(b).heightBlocks = m
  BY DEF NewSnippet
<1> HIDE DEF m
<1>5. Run(m, BlockHeight[b] - 1 + 1, BlockHeight[b], PreHash[b])
  BY <1>1, <1>2 DEF Run
<1>6. \A h \in Height : h <= BlockHeight[b] - 1 \/ h > BlockHeight[b] => m[h] = Nil
  BY <1>1, <1>3 DEF Height
<1>7. BlockHeight[b] - 1 < BlockHeight[b]
  BY <1>1
<1> QED
  BY <1>2, <1>4, <1>5, <1>6, <1>7 DEF LinkedSnippet

\* addTail with the block the tail names keeps a snippet linked.
LEMMA AddTailLinked ==
    ASSUME NEW s \in Block, NEW sn \in Snippet, LinkedSnippet(s, sn),
           NEW b \in Block, sn.tailHash = b
    PROVE  LinkedSnippet(s, AddTail(sn, b))
<1> DEFINE t == sn.tailHeight
           m == sn.heightBlocks
           n == [m EXCEPT ![t] = b]
<1>1. BlockHeight[b] = t /\ t \in Height
  BY TailBlock
<1>2. /\ AddTail(sn, b).tailHeight = t - 1
      /\ AddTail(sn, b).tailHash = PreHash[b]
      /\ AddTail(sn, b).heightBlocks = n
  BY <1>1 DEF AddTail, Snippet
<1>3. /\ t \in Int /\ 0 <= t /\ BlockHeight[s] \in Int /\ t < BlockHeight[s]
      /\ BlockHeight[s] <= MaxHeight /\ MaxHeight \in Nat
  BY <1>1, BlockFacts DEF LinkedSnippet, Height
<1>4. /\ n[t] = b
      /\ \A h \in Height : h # t => n[h] = m[h]
  BY <1>1 DEF Snippet
<1>5. /\ m[BlockHeight[s]] = s
      /\ Run(m, t + 1, BlockHeight[s], b)
      /\ \A h \in Height : h <= t \/ h > BlockHeight[s] => m[h] = Nil
  BY DEF LinkedSnippet
<1> HIDE DEF t, m, n
<1>6. Run(n, t - 1 + 1, BlockHeight[s], PreHash[b])
  <2> SUFFICES ASSUME NEW h \in t .. BlockHeight[s]
               PROVE  /\ n[h] \in Block
                      /\ BlockHeight[n[h]] = h
                      /\ PreHash[n[h]] = IF h = t THEN PreHash[b] ELSE n[h - 1]
    BY <1>3 DEF Run
  <2>1. CASE h = t
    BY <1>1, <1>4, <2>1
  <2>2. CASE h # t
    <3>1. h \in t + 1 .. BlockHeight[s] /\ h \in Height
      BY <1>3, <2>2 DEF Height
    <3>2. CASE h = t + 1
      BY <1>3, <1>4, <1>5, <2>2, <3>1, <3>2 DEF Run
    <3>3. CASE h # t + 1
      <4>1. h - 1 \in Height /\ h - 1 # t
        BY <1>3, <3>1, <3>3 DEF Height
      <4> QED
        BY <1>4, <1>5, <2>2, <3>1, <3>3, <4>1 DEF Run
    <3> QED
      BY <3>2, <3>3
  <2> QED
    BY <2>1, <2>2
<1>7. \A h \in Height : h <= t - 1 \/ h > BlockHeight[s] => n[h] = Nil
  BY <1>3, <1>4, <1>5 DEF Height
<1>8. t - 1 < BlockHeight[s] /\ n[BlockHeight[s]] = s
  <2>1. BlockHeight[s] \in Height /\ BlockHeight[s] # t
    BY <1>3, BlockFacts DEF Height
  <2> QED
    BY <1>3, <1>4, <1>5, <2>1
<1> QED
  BY <1>2, <1>6, <1>7, <1>8 DEF LinkedSnippet

\* merge with the snippet whose head is the tail keeps a snippet linked.
LEMMA MergeLinked ==
    ASSUME NEW s \in Block, NEW sn \in Snippet, LinkedSnippet(s, sn),
           NEW o \in Block, NEW below \in Snippet, LinkedSnippet(o, below),
           sn.tailHash = o
    PROVE  LinkedSnippet(s, Merge(sn, below))
<1> DEFINE t == sn.tailHeight
           m == sn.heightBlocks
           u == below.tailHeight
           k == below.heightBlocks
           n == [h \in Height |-> IF k[h] # Nil THEN k[h] ELSE m[h]]
           top == BlockHeight[s]
<1>1. BlockHeight[o] = t /\ t \in Height
  BY TailBlock
<1>2. /\ Merge(sn, below).tailHeight = u
      /\ Merge(sn, below).tailHash = below.tailHash
      /\ Merge(sn, below).heightBlocks = n
  BY DEF Merge
<1>3. /\ t \in Int /\ u \in Int /\ top \in Int /\ MaxHeight \in Nat
      /\ -1 <= u /\ u < t /\ t < top /\ top <= MaxHeight
  BY <1>1, BlockFacts DEF LinkedSnippet, Snippet, Height
<1>4. /\ m[top] = s
      /\ Run(m, t + 1, top, o)
      /\ \A h \in Height : h <= t \/ h > top => m[h] = Nil
  BY DEF LinkedSnippet
<1>5. /\ k[t] = o
      /\ Run(k, u + 1, t, below.tailHash)
      /\ \A h \in Height : h <= u \/ h > t => k[h] = Nil
  BY <1>1 DEF LinkedSnippet
<1>6. \A h \in Height : n[h] = IF k[h] # Nil THEN k[h] ELSE m[h]
  OBVIOUS
<1> HIDE DEF t, m, u, k, n, top
<1>7. \A h \in Height : h > t => n[h] = m[h]
  BY <1>5, <1>6
<1>8. \A h \in u + 1 .. t : h \in Height /\ n[h] = k[h]
  <2> SUFFICES ASSUME NEW h \in u + 1 .. t PROVE h \in Height /\ n[h] = k[h]
    OBVIOUS
  <2>1. h \in Height
    BY <1>3 DEF Height
  <2>2. k[h] \in Block
    BY <1>5 DEF Run
  <2> QED
    BY <1>6, <2>1, <2>2, TreeAssumption
<1>9. Run(n, u + 1, top, below.tailHash)
  <2> SUFFICES ASSUME NEW h \in u + 1 .. top
               PROVE  /\ n[h] \in Block
                      /\ BlockHeight[n[h]] = h
                      /\ PreHash[n[h]] = IF h = u + 1 THEN below.tailHash ELSE n[h - 1]
    BY DEF Run
  <2>1. CASE h <= t
    <3>1. h \in u + 1 .. t
      BY <1>3, <2>1
    <3>2. CASE h = u + 1
      BY <1>5, <1>8, <3>1, <3>2 DEF Run
    <3>3. CASE h # u + 1
      <4>1. h - 1 \in u + 1 .. t
        BY <1>3, <3>1, <3>3
      <4> QED
        BY <1>5, <1>8, <3>1, <3>3, <4>1 DEF Run
    <3> QED
      BY <3>2, <3>3
  <2>2. CASE h > t
    <3>1. h \in t + 1 .. top /\ h \in Height /\ h # u + 1
      BY <1>3, <2>2 DEF Height
    <3>2. CASE h = t + 1
      <4>1. t \in u + 1 .. t /\ h - 1 = t
        BY <1>3, <3>2
      <4>2. n[h - 1] = o
        BY <1>5, <1>8, <4>1
      <4> QED
        BY <1>4, <1>7, <2>2, <3>1, <3>2, <4>2 DEF Run
    <3>3. CASE h # t + 1
      <4>1. h - 1 \in Height /\ h - 1 > t
        BY <1>3, <3>1, <3>3 DEF Height
      <4> QED
        BY <1>4, <1>7, <2>2, <3>1, <3>3, <4>1 DEF Run
    <3> QED
      BY <3>2, <3>3
  <2> QED
    BY <1>3, <2>1, <2>2
<1>10. \A h \in Height : h <= u \/ h > top => n[h] = Nil
  BY <1>3, <1>4, <1>5, <1>6 DEF Height
<1>11. u < top /\ n[top] = s
  <2>1. top \in Height /\ top > t
    BY <1>3 DEF Height
  <2> QED
    BY <1>3, <1>4, <1>7, <2>1
<1> QED
  BY <1>2, <1>9, <1>10, <1>11 DEF LinkedSnippet, top

\* Deleting tails below the head keeps a snippet linked.
LEMMA CutLinked ==
    ASSUME NEW s \in Block, NEW sn \in Snippet, LinkedSnippet(s, sn),
           NEW n \in -1..MaxHeight, n < BlockHeight[s]
    PROVE  LinkedSnippet(s, CutTo(sn, n))
<1>1. CASE n <= sn.tailHeight
  BY <1>1 DEF CutTo
<1>2. CASE ~(n <= sn.tailHeight)
  <2> DEFINE t == sn.tailHeight
             m == sn.heightBlocks
             k == [h \in Height |-> IF h > t /\ h <= n THEN Nil ELSE m[h]]
             top == BlockHeight[s]
  <2>1. /\ CutTo(sn, n).tailHeight = n
        /\ CutTo(sn, n).tailHash = m[n]
        /\ CutTo(sn, n).heightBlocks = k
    BY <1>2 DEF CutTo, Snippet
  <2>2. /\ t \in Int /\ n \in Int /\ top \in Int /\ MaxHeight \in Nat
        /\ -1 <= t /\ t < n /\ n < top /\ top <= MaxHeight
    BY <1>2, BlockFacts DEF Snippet
  <2>3. /\ m[top] = s
        /\ Run(m, t + 1, top, sn.tailHash)
        /\ \A h \in Height : h <= t \/ h > top => m[h] = Nil
    BY DEF LinkedSnippet
  <2>4. \A h \in Height : k[h] = IF h > t /\ h <= n THEN Nil ELSE m[h]
    OBVIOUS
  <2> HIDE DEF t, m, k, top
  <2>5. Run(k, n + 1, top, m[n])
    <3> SUFFICES ASSUME NEW h \in n + 1 .. top
                 PROVE  /\ k[h] \in Block
                        /\ BlockHeight[k[h]] = h
                        /\ PreHash[k[h]] = IF h = n + 1 THEN m[n] ELSE k[h - 1]
      BY DEF Run
    <3>1. h \in Height /\ h > n /\ h \in t + 1 .. top /\ h # t + 1
      BY <2>2 DEF Height
    <3>2. k[h] = m[h] /\ PreHash[m[h]] = m[h - 1]
      BY <2>2, <2>3, <2>4, <3>1 DEF Run
    <3>3. CASE h = n + 1
      <4>1. h - 1 = n
        BY <2>2, <3>3
      <4> QED
        BY <2>3, <3>1, <3>2, <3>3, <4>1 DEF Run
    <3>4. CASE h # n + 1
      <4>1. h - 1 \in Height /\ h - 1 > n
        BY <2>2, <3>1, <3>4 DEF Height
      <4>2. k[h - 1] = m[h - 1]
        BY <2>2, <2>4, <4>1
      <4> QED
        BY <2>3, <3>1, <3>2, <3>4, <4>2 DEF Run
    <3> QED
      BY <3>3, <3>4
  <2>6. \A h \in Height : h <= n \/ h > top => k[h] = Nil
    BY <2>2, <2>3, <2>4 DEF Height
  <2>7. top \in Height /\ top > n
    BY <2>2 DEF Height
  <2>8. k[top] = s
    BY <2>2, <2>3, <2>4, <2>7
  <2> QED
    BY <2>1, <2>2, <2>5, <2>6, <2>8 DEF LinkedSnippet, top
<1> QED
  BY <1>1, <1>2

\* tryInsert stops at a snippet of the slice.
LEMMA FirstHitInList ==
    ASSUME TypeOK, NEW b, Hits(b) # {}
    PROVE  FirstHit(b) \in Range(list)
<1>1. Hits(b) \subseteq 1..Len(list) /\ Len(list) \in Int /\ 1 \in Int
  BY DEF Hits, TypeOK
<1>2. Min(Hits(b)) \in Hits(b)
  BY <1>1, MinOfInterval
<1> QED
  BY <1>2 DEF FirstHit, Hits, Range

\* Snippets that were there and did not change, or are linked anew.
LEMMA LinkedStep ==
    ASSUME SnippetsLinked,
           \A s \in Snippets' : \/ LinkedSnippet(s, snippetChains'[s])
                                \/ s \in Snippets /\ snippetChains'[s] = snippetChains[s]
    PROVE  SnippetsLinked'
  BY DEF SnippetsLinked, LinkedSnippet, Run

\* One snippet is new or changed, and is linked.
LEMMA LinkedExcept ==
    ASSUME TypeOK, SnippetsLinked, NEW x \in Block, NEW v, LinkedSnippet(x, v),
           snippetChains' = [snippetChains EXCEPT ![x] = v],
           Snippets' \subseteq Snippets \cup {x}, Snippets \subseteq Block
    PROVE  SnippetsLinked'
<1>1. snippetChains'[x] = v
  BY DEF TypeOK
<1>2. \A s \in Block \ {x} : snippetChains'[s] = snippetChains[s]
  BY DEF TypeOK
<1>3. ASSUME NEW s \in Snippets'
      PROVE  \/ LinkedSnippet(s, snippetChains'[s])
             \/ s \in Snippets /\ snippetChains'[s] = snippetChains[s]
  <2>1. CASE s = x
    BY <1>1, <2>1
  <2>2. CASE s # x
    BY <1>2, <1>3, <2>2
  <2> QED
    BY <2>1, <2>2
<1>4. ASSUME NEW s \in Snippets'
      PROVE  LinkedSnippet(s, snippetChains'[s])
  <2>1. CASE LinkedSnippet(s, snippetChains'[s])
    BY <2>1
  <2>2. CASE s \in Snippets /\ snippetChains'[s] = snippetChains[s]
    BY <2>2 DEF SnippetsLinked
  <2> QED
    BY <1>3, <2>1, <2>2
<1> QED
  BY <1>4 DEF SnippetsLinked, LinkedSnippet, Run

\* loopGenSnippetChains makes, extends and merges linked snippets.
LEMMA LinkedGen ==
    TypeOK /\ Bookkeeping /\ SnippetsLinked /\ Gen => SnippetsLinked'
<1> SUFFICES ASSUME TypeOK, Bookkeeping, SnippetsLinked, Gen
             PROVE  SnippetsLinked'
  OBVIOUS
<1>1. CASE GenStart
  <2>1. Snippets = snippetIds /\ Snippets' = Range(list')
    BY <1>1 DEF GenStart, Snippets
  <2>2. Range(list') \subseteq snippetIds /\ snippetChains' = snippetChains
    BY <1>1, OrdersType DEF GenStart, TypeOK, poolVars
  <2> QED
    BY <2>1, <2>2, LinkedStep
<1>2. ASSUME pc \in {"compound", "merge"} /\ pc' \in {"compound", "merge"}
      PROVE  Snippets = Range(list) /\ Snippets' = Range(list')
  BY <1>2 DEF Snippets
<1>3. Range(list) \subseteq Block
  BY DEF Range, TypeOK
<1>4. ASSUME NEW b \in Block, GenAddTail(b) PROVE SnippetsLinked'
  <2>1. Snippets = Range(list) /\ Snippets' = Range(list)
    BY <1>2, <1>4 DEF GenAddTail, Compound
  <2> DEFINE f == FirstHit(b)
  <2>2. f \in Range(list) /\ f \in Block /\ snippetChains[f].tailHash = b
    BY <1>3, <1>4, FirstHitInList DEF GenAddTail, Extends
  <2>3. snippetChains' = [snippetChains EXCEPT ![f] = AddTail(@, b)]
    BY <1>4 DEF GenAddTail
  <2>4. LinkedSnippet(f, AddTail(snippetChains[f], b))
    BY <2>1, <2>2, AddTailLinked DEF SnippetsLinked, TypeOK
  <2> HIDE DEF f
  <2> QED
    BY <1>3, <2>1, <2>2, <2>3, <2>4, LinkedExcept
<1>5. ASSUME NEW b \in Block, GenDrop(b) PROVE SnippetsLinked'
  <2>1. Snippets = Range(list) /\ Snippets' = Range(list)
    BY <1>2, <1>5 DEF GenDrop, Compound
  <2> QED
    BY <1>5, <2>1, LinkedStep DEF GenDrop
<1>6. ASSUME NEW b \in Block, GenNewSnippet(b) PROVE SnippetsLinked'
  <2>1. Snippets = Range(list) /\ Snippets' = Range(list')
    BY <1>2, <1>6 DEF GenNewSnippet, Compound
  <2>2. Range(list') \subseteq Range(list) \cup {b}
    BY <1>6, RangeAppend DEF GenNewSnippet, TypeOK
  <2>3. snippetChains' = [snippetChains EXCEPT ![b] = NewSnippet(b)]
    BY <1>6 DEF GenNewSnippet
  <2> QED
    BY <1>3, <2>1, <2>2, <2>3, NewLinked, LinkedExcept
<1>7. CASE GenSplit \/ GenMerged
  <2>1. Snippets = Range(list) /\ Snippets' = Range(list)
    BY <1>2, <1>7 DEF GenSplit, GenMerged
  <2> QED
    BY <1>7, <2>1, LinkedStep DEF GenSplit, GenMerged, poolVars
<1>8. CASE GenMerge
  <2> DEFINE s == list[next]
             o == snippetChains[s].tailHash
  <2>1. Snippets = Range(list) /\ Snippets' = Range(list)
    BY <1>2, <1>8 DEF GenMerge
  <2>2. s \in Range(list)
    BY <1>8 DEF GenMerge, Range, TypeOK
  <2>3. o \in Range(list)
    BY <1>8 DEF GenMerge, BelowInMap, Bookkeeping
  <2>4. snippetChains' = [snippetChains EXCEPT ![s] = Merge(@, snippetChains[o])]
    BY <1>8 DEF GenMerge
  <2>5. LinkedSnippet(s, Merge(snippetChains[s], snippetChains[o]))
    <3>1. /\ s \in Block /\ o \in Block
          /\ snippetChains[s] \in Snippet /\ snippetChains[o] \in Snippet
      BY <1>3, <2>2, <2>3 DEF TypeOK
    <3>2. LinkedSnippet(s, snippetChains[s]) /\ LinkedSnippet(o, snippetChains[o])
      BY <2>1, <2>2, <2>3 DEF SnippetsLinked
    <3> QED
      BY <3>1, <3>2, MergeLinked
  <2> HIDE DEF s, o
  <2> QED
    BY <1>3, <2>1, <2>2, <2>4, <2>5, LinkedExcept
<1>9. CASE GenDone
  <2>1. Snippets = Range(list) /\ Snippets' = headMap
    BY <1>9 DEF GenDone, Snippets
  <2>2. headMap \subseteq Range(list)
    BY DEF Bookkeeping
  <2>3. \A s \in headMap : snippetChains'[s] = snippetChains[s]
    BY <1>9 DEF GenDone, TypeOK
  <2> QED
    BY <2>1, <2>2, <2>3, LinkedStep
<1> QED
  BY <1>1, <1>4, <1>5, <1>6, <1>7, <1>8, <1>9 DEF Gen

\* Trimming leaves a linked snippet, or nothing of it.
LEMMA TrimmedLinked ==
    ASSUME TypeOK, w \in Block, LinkedSnippet(w, snippetChains[w]), NEW c, NEW refer
    PROVE  \/ Used(Trimmed(w, c, refer))
           \/ LinkedSnippet(w, Trimmed(w, c, refer))
<1> DEFINE n == SharedHeight(w, c, refer)
           sn == snippetChains[w]
<1>1. sn \in Snippet /\ sn.tailHeight < BlockHeight[w]
  BY DEF TypeOK, LinkedSnippet
<1>2. n \in -1..MaxHeight /\ sn.tailHeight <= n /\ n <= BlockHeight[w]
  BY <1>1, SharedHeightRange DEF TypeOK
<1>3. Trimmed(w, c, refer) = CutTo(sn, n)
  BY DEF Trimmed
<1>4. sn.tailHeight \in Int /\ BlockHeight[w] \in Int /\ n \in Int
  BY <1>1, <1>2, BlockFacts, TreeAssumption DEF Snippet
<1> HIDE DEF n, sn
<1>5. CASE n = BlockHeight[w]
  <2>1. ~(n <= sn.tailHeight)
    BY <1>1, <1>4, <1>5
  <2>2. CutTo(sn, n).tailHeight = n
    BY <1>1, <2>1 DEF CutTo, Snippet
  <2> QED
    BY <1>3, <1>5, <2>2 DEF Used
<1>6. CASE n # BlockHeight[w]
  <2>1. n < BlockHeight[w]
    BY <1>2, <1>4, <1>6
  <2> QED
    BY <1>1, <1>2, <1>3, <2>1, CutLinked DEF sn
<1> QED
  BY <1>5, <1>6

\* loopAppendChains only trims the snippets it keeps.
LEMMA LinkedAppend ==
    TypeOK /\ Bookkeeping /\ SnippetsLinked /\ AppendChains => SnippetsLinked'
<1> SUFFICES ASSUME TypeOK, Bookkeeping, SnippetsLinked, AppendChains
             PROVE  SnippetsLinked'
  OBVIOUS
<1>1. Snippets = snippetIds /\ Snippets' = snippetIds'
  <2>1. pc \in {"append", "forky"} /\ pc' \in {"append", "forky", "insert", "fetch"}
    BY DEF AppendChains, AppendNone, AppendStart, AppendNext, AppendDone, AppendInsert,
           AppendSkip, AppendSame, AppendFork, AppendPass, AppendPanic, AppendDiskFork,
           AppendLeave, Visiting, DiskReached, AppendFrame
  <2> QED
    BY <2>1 DEF Snippets
<1>2. ASSUME UNCHANGED <<snippetIds, snippetChains>> PROVE SnippetsLinked'
  BY <1>1, <1>2, LinkedStep
<1>3. ASSUME w # Nil
      PROVE  w \in Block /\ w \in snippetIds /\ LinkedSnippet(w, snippetChains[w])
  BY <1>1, <1>3 DEF TypeOK, Bookkeeping, HashOrNil, SnippetsLinked
<1>4. ASSUME DeleteSnippet(w) PROVE SnippetsLinked'
  BY <1>1, <1>4, LinkedStep DEF DeleteSnippet, TypeOK
<1>5. ASSUME NEW sn, w \in Block, LinkedSnippet(w, sn), snippetIds' = snippetIds,
             snippetChains' = [snippetChains EXCEPT ![w] = sn]
      PROVE  SnippetsLinked'
  BY <1>1, <1>5, LinkedExcept DEF TypeOK
<1>6. ASSUME NEW sn, w \in Block, Used(sn) \/ LinkedSnippet(w, sn), KeepSnippet(sn)
      PROVE  SnippetsLinked'
  BY <1>4, <1>5, <1>6 DEF KeepSnippet
<1>7. ASSUME NEW c, NEW sn, w \in Block, LinkedSnippet(w, sn), InsertSnippet(c, sn)
      PROVE  SnippetsLinked'
  BY <1>4, <1>5, <1>7 DEF InsertSnippet
<1>8. CASE \/ AppendNone \/ AppendStart \/ AppendNext \/ AppendDone \/ AppendSkip
          \/ AppendPanic
  BY <1>2, <1>8
  DEF AppendNone, AppendStart, AppendNext, AppendDone, AppendSkip, AppendPanic, poolVars
<1>9. CASE AppendInsert
  BY <1>3, <1>7, <1>9 DEF AppendInsert, Visiting
<1>10. CASE AppendSame
  <2> DEFINE n == chains[Visited].headHeight
  <2>1. Visited \in Block /\ w # Nil
    BY <1>10 DEF AppendSame, Visiting, Visited, TypeOK
  <2>2. n \in -1..MaxHeight /\ n < BlockHeight[w]
    BY <1>3, <1>10, <2>1, BlockFacts
    DEF AppendSame, OutOfReach, TypeOK, ForkedChain, Height
  <2>3. LinkedSnippet(w, CutTo(snippetChains[w], n))
    BY <1>3, <2>1, <2>2, CutLinked DEF TypeOK
  <2> QED
    BY <1>3, <1>7, <1>10, <2>1, <2>3 DEF AppendSame
<1>11. CASE AppendFork \/ AppendDiskFork
  BY <1>4, <1>11 DEF AppendFork, AppendDiskFork, ForkChain
<1>12. CASE AppendPass
  <2>1. w # Nil /\ KeepSnippet(Trimmed(w, Visited, FALSE))
    BY <1>12, Zenon DEF AppendPass, Visiting
  <2> QED
    BY <1>3, <1>6, <2>1, TrimmedLinked
<1>13. CASE AppendLeave
  <2>1. w # Nil
    BY <1>13 DEF AppendLeave, DiskReached
  <2>2. CASE BelowDiskHead
    BY <1>3, <1>6, <1>13, <2>1, <2>2, TrimmedLinked DEF AppendLeave
  <2>3. CASE ~BelowDiskHead
    BY <1>3, <1>6, <1>13, <2>1, <2>3 DEF AppendLeave
  <2> QED
    BY <2>2, <2>3
<1> QED
  BY <1>8, <1>9, <1>10, <1>11, <1>12, <1>13 DEF AppendChains

\* The other steps leave the snippets alone.
LEMMA LinkedRest ==
    ASSUME TypeOK, SnippetsLinked,
           \/ Network \/ Fetch \/ Insert \/ LoopCheckFork \/ UNCHANGED vars
    PROVE  SnippetsLinked'
<1> USE DEF netVars, poolVars, genVars
<1>1. ASSUME UNCHANGED <<snippetIds, snippetChains, list>>, Snippets' = Snippets
      PROVE  SnippetsLinked'
  BY <1>1, LinkedStep
<1>2. ASSUME UNCHANGED <<snippetIds, snippetChains, list, pc>> PROVE SnippetsLinked'
  BY <1>1, <1>2 DEF Snippets
<1>3. CASE Network
  BY <1>2, <1>3 DEF Network, AddBlock
<1>4. CASE Fetch \/ NothingToInsert
  <2>1. pc \notin {"compound", "merge"} /\ pc' \notin {"compound", "merge"}
    BY <1>4 DEF Fetch, NothingToInsert
  <2> QED
    BY <1>1, <1>4, <2>1 DEF Fetch, NothingToInsert, Snippets
<1>5. ASSUME NEW n, NEW m, TryInsert(n, m) PROVE SnippetsLinked'
  <2>1. pc \notin {"compound", "merge"} /\ pc' \notin {"compound", "merge"}
    BY <1>5 DEF TryInsert
  <2> QED
    BY <1>1, <1>5, <2>1 DEF TryInsert, Snippets
<1>6. CASE LoopCheckFork
  <2>1. UNCHANGED <<snippetIds, snippetChains, list, pc>>
    BY <1>6, SnapshotForkFrame DEF LoopCheckFork, CheckFork
  <2> QED
    BY <1>2, <2>1
<1>7. CASE UNCHANGED vars
  BY <1>2, <1>7 DEF vars
<1> QED
  BY <1>3, <1>4, <1>5, <1>6, <1>7 DEF Insert

\* Every snippet is an unbroken, hash-linked run of blocks up to its head and
\* holds nothing else, in whatever order blocks arrive and the random order of
\* Go's maps presents them to tryInsert, merge and forky.
THEOREM SnippetsCorrect == Spec => []SnippetsLinked
<1>1. Init => SnippetsLinked
  BY DEF Init, SnippetsLinked, Snippets
<1>2. TypeOK /\ Bookkeeping /\ SnippetsLinked /\ [Next]_vars => SnippetsLinked'
  BY LinkedGen, LinkedAppend, LinkedRest DEF Next, Loop
<1> QED
  BY <1>1, <1>2, TypeCorrect, NamesApart, PTL DEF Spec
=============================================================================
