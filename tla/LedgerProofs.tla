---------------------------- MODULE LedgerProofs ----------------------------
(***************************************************************************)
(* Proofs about Ledger, for any accounts, blocks, callers, snapshot        *)
(* branches and bounds: the shape of the state (TypeInv), then what each   *)
(* step does to the account chains and the goroutines (Effect), and from   *)
(* that, part by part, an inductive invariant: the chains on disk          *)
(* (DiskInv), the snapshot points, the receipts (ReceiptInv), the requests *)
(* (ReqInv), the pools' chains (PoolInv) and the panics.                   *)
(***************************************************************************)
EXTENDS Ledger, TLAPS, WellFoundedInduction

\* A nonempty set of integers in an interval has a least member, and Min is it.
LEMMA MinOfInterval ==
    ASSUME NEW lo \in Int, NEW hi \in Int,
           NEW S, S \subseteq lo..hi, S # {}
    PROVE  /\ Min(S) \in S
           /\ \A y \in S : Min(S) <= y
<1> DEFINE T == {x - lo : x \in S}
<1>1. T \subseteq Nat /\ T # {}
  OBVIOUS
<1>2. PICK t \in T : \A y \in T : ~(<<y, t>> \in OpToRel(<, Nat))
  BY <1>1, WFMin, NatLessThanWellFounded
<1>3. \A y \in T : ~(y < t)
  BY <1>1, <1>2 DEF OpToRel
<1>4. PICK x \in S : t = x - lo
  OBVIOUS
<1>5. ASSUME NEW y \in S
      PROVE  x <= y
  <2>1. y - lo \in T
    OBVIOUS
  <2>2. ~(y - lo < t)
    BY <1>3, <2>1
  <2>3. x \in Int /\ y \in Int
    OBVIOUS
  <2> HIDE DEF T
  <2> QED
    BY <1>4, <2>2, <2>3
<1> QED
  BY <1>5 DEF Min

\* Likewise for the greatest member and Max.
LEMMA MaxOfInterval ==
    ASSUME NEW lo \in Int, NEW hi \in Int,
           NEW S, S \subseteq lo..hi, S # {}
    PROVE  /\ Max(S) \in S
           /\ \A y \in S : Max(S) >= y
<1> DEFINE T == {hi - x : x \in S}
<1>1. T \subseteq Nat /\ T # {}
  OBVIOUS
<1>2. PICK t \in T : \A y \in T : ~(<<y, t>> \in OpToRel(<, Nat))
  BY <1>1, WFMin, NatLessThanWellFounded
<1>3. \A y \in T : ~(y < t)
  BY <1>1, <1>2 DEF OpToRel
<1>4. PICK x \in S : t = hi - x
  OBVIOUS
<1>5. ASSUME NEW y \in S
      PROVE  x >= y
  <2>1. hi - y \in T
    OBVIOUS
  <2>2. ~(hi - y < t)
    BY <1>3, <2>1
  <2>3. x \in Int /\ y \in Int
    OBVIOUS
  <2> HIDE DEF T
  <2> QED
    BY <1>4, <2>2, <2>3
<1> QED
  BY <1>5 DEF Max

-----------------------------------------------------------------------------
(***************************************************************************)
(* What the constants say about one block.                                 *)
(***************************************************************************)
\* A block has a height in range, and the hash below it is a block or empty.
LEMMA BlockFacts ==
    ASSUME NEW b \in ABlock
    PROVE  /\ b # Nil
           /\ BlockHeight[b] \in Height /\ BlockHeight[b] \in Int
           /\ 0 <= BlockHeight[b] /\ BlockHeight[b] <= MaxHeight
           /\ PreHash[b] \in BlockOrNil
           /\ Body[b].signer \in Account /\ Body[b].to \in Account
           /\ Body[b].blockType \in BlockType
           /\ Body[b].modified \in Int /\ Body[b].amount \in Int
           /\ Body[b].snapshot \in SBlock /\ Body[b].source \in BlockOrNil
BY BodyAssumption DEF BlockHeight, PreHash, Height, BlockOrNil

LEMMA LinkFacts ==
    ASSUME NEW b \in ABlock, PreHash[b] # Nil
    PROVE  /\ PreHash[b] \in ABlock
           /\ BlockHeight[b] = BlockHeight[PreHash[b]] + 1
           /\ Body[PreHash[b]].signer = Body[b].signer
           /\ BlockHeight[b] >= 1
<1>1. PreHash[b] \in ABlock
  BY BlockFacts DEF BlockOrNil
<1>2. BlockHeight[PreHash[b]] >= 0 /\ BlockHeight[PreHash[b]] \in Int
  BY <1>1, BlockFacts
<1> QED
  BY <1>1, <1>2, MadeAssumption

LEMMA ReceiptFacts ==
    ASSUME NEW b \in ABlock, Body[b].blockType = "RECEIVED"
    PROVE  /\ Body[b].to = Body[b].signer
           /\ Body[b].source \in ABlock
           /\ Body[Body[b].source].blockType = "SEND"
           /\ Body[Body[b].source].to = Body[b].signer
BY MadeAssumption

LEMMA GenesisFacts ==
    ASSUME NEW a \in Account
    PROVE  /\ GenesisOf[a] \in BlockOrNil
           /\ GenesisOf[a] # Nil => /\ GenesisOf[a] \in ABlock
                                    /\ Body[GenesisOf[a]].signer = a
                                    /\ BlockHeight[GenesisOf[a]] = 0
                                    /\ Body[GenesisOf[a]].blockType = "GENESIS"
BY BodyAssumption, MadeAssumption DEF BlockOrNil

LEMMA HeadFacts ==
    ASSUME head \in [Account -> BlockOrNil], NEW a \in Account
    PROVE  /\ head[a] \in BlockOrNil
           /\ HeadHeight(a) \in -1..MaxHeight /\ HeadHeight(a) \in Int
           /\ HeadHeight(a) = -1 <=> head[a] = Nil
<1>1. CASE head[a] = Nil
  BY <1>1, BodyAssumption DEF HeadHeight, BlockOrNil
<1>2. CASE head[a] # Nil
  <2>1. head[a] \in ABlock
    BY <1>2 DEF BlockOrNil
  <2> QED
    BY <1>2, <2>1, BlockFacts DEF HeadHeight, BlockOrNil
<1> QED
  BY <1>1, <1>2

LEMMA AtHeightFacts ==
    ASSUME byHeight \in [Account -> [Height -> BlockOrNil]], NEW a \in Account, NEW h
    PROVE  /\ AtHeight(a, h) \in BlockOrNil
           /\ h \in Height => AtHeight(a, h) = byHeight[a][h]
BY DEF AtHeight, BlockOrNil

-----------------------------------------------------------------------------
\* The inserter and the callers, under one name each.
Slot == {<<"inserter", Nil>>} \cup ({"caller"} \X Caller)
ProcAt(s) == IF s[1] = "inserter" THEN inserter ELSE caller[s[2]]

IsOf(b, a, h) == b \in ABlock /\ Body[b].signer = a /\ BlockHeight[b] = h

\* What the disk and the chains have at a height is a block of the account
\* and of that height; an account with a genesis block always has a head,
\* and no chain of its pool starts below it.
DiskShape ==
    \A a \in Account :
        /\ GenesisOf[a] # Nil => head[a] # Nil
        /\ \A h \in Height : byHeight[a][h] # Nil =>
              IsOf(byHeight[a][h], a, h) /\ byHeight[a][h] \in byHash

Shaped(a, k) ==
    /\ k.headHeight = -1 => GenesisOf[a] = Nil
    /\ \A h \in Height : k.heightBlocks[h] # Nil =>
          /\ IsOf(k.heightBlocks[h], a, h)
          /\ h = 0 => GenesisOf[a] = Nil

ChainShape == \A a \in Account : \A c \in 1..Len(chains[a]) : Shaped(a, chains[a][c])

ProcShape(p) == p.pc # "idle" => Body[p.block].blockType # "GENESIS"

TypeInv ==
    /\ LedgerTypeOK /\ DiskShape /\ ChainShape
    /\ ProcShape(inserter) /\ \A g \in Caller : ProcShape(caller[g])

-----------------------------------------------------------------------------
(***************************************************************************)
(* The operations on chains make chains of the account they are given.     *)
(***************************************************************************)
LEMMA ChainAtGood ==
    ASSUME NEW a \in Account, NEW b \in BlockOrNil, b = Nil => GenesisOf[a] = Nil
    PROVE  /\ ChainAt(b) \in ChainRec
           /\ Shaped(a, ChainAt(b))
           /\ ChainAt(b).referChain = 0
<1>1. [h \in Height |-> Nil] \in [Height -> BlockOrNil]
  BY DEF BlockOrNil
<1>2. CASE b = Nil
  <2>1. -1 \in -1..MaxHeight
    BY BodyAssumption
  <2> QED
    BY <1>1, <1>2, <2>1 DEF ChainAt, ChainRec, Shaped, Disk, BlockOrNil
<1>3. CASE b # Nil
  <2>1. b \in ABlock /\ BlockHeight[b] \in -1..MaxHeight /\ BlockHeight[b] # -1
    BY <1>3, BlockFacts DEF BlockOrNil
  <2> QED
    BY <1>1, <1>3, <2>1 DEF ChainAt, ChainRec, Shaped, Disk, BlockOrNil
<1> QED
  BY <1>2, <1>3

LEMMA ForkOfGood ==
    ASSUME NEW a \in Account, NEW b \in ABlock, Body[b].signer = a, PreHash[b] # Nil,
           NEW n \in Nat
    PROVE  /\ ForkOf(b, n) \in ChainRec
           /\ Shaped(a, ForkOf(b, n))
           /\ ForkOf(b, n).referChain = n
<1>1. BlockHeight[b] >= 1 /\ BlockHeight[b] \in Int /\ BlockHeight[b] <= MaxHeight
  BY BlockFacts, LinkFacts
<1>2. BlockHeight[b] - 1 \in -1..MaxHeight /\ BlockHeight[b] \in -1..MaxHeight
      /\ BlockHeight[b] # -1 /\ BlockHeight[b] # 0
  BY <1>1, BodyAssumption
<1>3. [h \in Height |-> IF h = BlockHeight[b] THEN b ELSE Nil] \in [Height -> BlockOrNil]
  BY DEF BlockOrNil
<1>4. ForkOf(b, n) \in ChainRec
  BY <1>2, <1>3 DEF ForkOf, ChainRec, BlockOrNil
<1>5. Shaped(a, ForkOf(b, n))
  BY <1>2, BlockFacts DEF ForkOf, Shaped, IsOf
<1> QED
  BY <1>4, <1>5 DEF ForkOf

LEMMA AddHeadGood ==
    ASSUME NEW a \in Account, NEW b \in ABlock, Body[b].signer = a,
           NEW k \in ChainRec, Shaped(a, k), BlockHeight[b] = 0 => k.headHeight = -1
    PROVE  /\ AddHead(k, b) \in ChainRec
           /\ Shaped(a, AddHead(k, b))
           /\ AddHead(k, b).referChain = k.referChain
<1>1. BlockHeight[b] \in -1..MaxHeight /\ BlockHeight[b] # -1 /\ BlockHeight[b] \in Height
  BY BlockFacts
<1>2. k.heightBlocks \in [Height -> BlockOrNil] /\ b \in BlockOrNil
  BY DEF ChainRec, BlockOrNil
<1>3. [k.heightBlocks EXCEPT ![BlockHeight[b]] = b] \in [Height -> BlockOrNil]
  BY <1>1, <1>2
<1>4. /\ AddHead(k, b).tailHeight = k.tailHeight
      /\ AddHead(k, b).tailHash = k.tailHash
      /\ AddHead(k, b).headHeight = BlockHeight[b]
      /\ AddHead(k, b).headHash = b
      /\ AddHead(k, b).heightBlocks = [k.heightBlocks EXCEPT ![BlockHeight[b]] = b]
      /\ AddHead(k, b).referChain = k.referChain
  BY DEF AddHead, ChainRec
<1>5. AddHead(k, b) \in ChainRec
  BY <1>1, <1>2, <1>3 DEF ChainRec, AddHead
<1>6. Shaped(a, AddHead(k, b))
  BY <1>1, <1>2, <1>4 DEF Shaped, IsOf
<1> QED
  BY <1>4, <1>5, <1>6

LEMMA AddHeadFields ==
    ASSUME NEW b \in ABlock, NEW k \in ChainRec
    PROVE  /\ AddHead(k, b).tailHeight = k.tailHeight
           /\ AddHead(k, b).tailHash = k.tailHash
           /\ AddHead(k, b).headHeight = BlockHeight[b]
           /\ AddHead(k, b).heightBlocks = [k.heightBlocks EXCEPT ![BlockHeight[b]] = b]
BY BlockFacts DEF AddHead, ChainRec

LEMMA AddTailGood ==
    ASSUME NEW a \in Account, NEW b \in ABlock, Body[b].signer = a,
           BlockHeight[b] = 0 => GenesisOf[a] = Nil, NEW k \in ChainRec, Shaped(a, k)
    PROVE  /\ AddTail(k, b) \in ChainRec
           /\ Shaped(a, AddTail(k, b))
           /\ AddTail(k, b).referChain = k.referChain
<1>1. BlockHeight[b] - 1 \in -1..MaxHeight /\ BlockHeight[b] \in Height
  BY BlockFacts, BodyAssumption
<1>2. k.heightBlocks \in [Height -> BlockOrNil] /\ b \in BlockOrNil /\ PreHash[b] \in BlockOrNil
  BY BlockFacts DEF ChainRec, BlockOrNil
<1>3. [k.heightBlocks EXCEPT ![BlockHeight[b]] = b] \in [Height -> BlockOrNil]
  BY <1>1, <1>2
<1>4. /\ AddTail(k, b).tailHeight = BlockHeight[b] - 1
      /\ AddTail(k, b).tailHash = PreHash[b]
      /\ AddTail(k, b).headHeight = k.headHeight
      /\ AddTail(k, b).headHash = k.headHash
      /\ AddTail(k, b).heightBlocks = [k.heightBlocks EXCEPT ![BlockHeight[b]] = b]
      /\ AddTail(k, b).referChain = k.referChain
  BY DEF AddTail, ChainRec
<1>5. AddTail(k, b) \in ChainRec
  BY <1>1, <1>2, <1>3 DEF ChainRec, AddTail
<1>6. Shaped(a, AddTail(k, b))
  BY <1>1, <1>2, <1>4 DEF Shaped, IsOf
<1> QED
  BY <1>4, <1>5, <1>6

LEMMA AddTailFields ==
    ASSUME NEW b \in ABlock, NEW k \in ChainRec
    PROVE  /\ AddTail(k, b).tailHeight = BlockHeight[b] - 1
           /\ AddTail(k, b).headHeight = k.headHeight
           /\ AddTail(k, b).heightBlocks = [k.heightBlocks EXCEPT ![BlockHeight[b]] = b]
BY BlockFacts DEF AddTail, ChainRec

LEMMA RemoveTailGood ==
    ASSUME NEW a \in Account, NEW b \in ABlock, NEW k \in ChainRec, Shaped(a, k)
    PROVE  /\ RemoveTail(k, b) \in ChainRec
           /\ Shaped(a, RemoveTail(k, b))
           /\ RemoveTail(k, b).referChain = k.referChain
<1>1. BlockHeight[b] \in -1..MaxHeight /\ BlockHeight[b] \in Height
  BY BlockFacts, BodyAssumption
<1>2. k.heightBlocks \in [Height -> BlockOrNil] /\ b \in BlockOrNil /\ Nil \in BlockOrNil
  BY DEF ChainRec, BlockOrNil
<1>3. [k.heightBlocks EXCEPT ![BlockHeight[b]] = Nil] \in [Height -> BlockOrNil]
  BY <1>1, <1>2
<1>4. /\ RemoveTail(k, b).tailHeight = BlockHeight[b]
      /\ RemoveTail(k, b).tailHash = b
      /\ RemoveTail(k, b).headHeight = k.headHeight
      /\ RemoveTail(k, b).headHash = k.headHash
      /\ RemoveTail(k, b).heightBlocks = [k.heightBlocks EXCEPT ![BlockHeight[b]] = Nil]
      /\ RemoveTail(k, b).referChain = k.referChain
  BY DEF RemoveTail, ChainRec
<1>5. RemoveTail(k, b) \in ChainRec
  BY <1>1, <1>2, <1>3 DEF ChainRec, RemoveTail
<1>6. Shaped(a, RemoveTail(k, b))
  BY <1>1, <1>2, <1>4 DEF Shaped, IsOf
<1> QED
  BY <1>4, <1>5, <1>6

LEMMA RemoveTailFields ==
    ASSUME NEW b \in ABlock, NEW k \in ChainRec
    PROVE  /\ RemoveTail(k, b).tailHeight = BlockHeight[b]
           /\ RemoveTail(k, b).tailHash = b
           /\ RemoveTail(k, b).headHeight = k.headHeight
           /\ RemoveTail(k, b).heightBlocks = [k.heightBlocks EXCEPT ![BlockHeight[b]] = Nil]
BY BlockFacts DEF RemoveTail, ChainRec

LEMMA ReferGood ==
    ASSUME NEW a \in Account, NEW k \in ChainRec, Shaped(a, k), NEW n \in Nat
    PROVE  LET m == [k EXCEPT !.referChain = n]
           IN  /\ m \in ChainRec /\ Shaped(a, m)
               /\ m.referChain = n
               /\ m.tailHeight = k.tailHeight /\ m.headHeight = k.headHeight
               /\ m.heightBlocks = k.heightBlocks
BY DEF ChainRec, Shaped

LEMMA FunIsSeq ==
    ASSUME NEW S, NEW n \in Nat, NEW f \in [1..n -> S]
    PROVE  f \in Seq(S) /\ Len(f) = n
OBVIOUS

-----------------------------------------------------------------------------
(***************************************************************************)
(* A pool whose chain c was replaced, or that got one more chain.          *)
(***************************************************************************)
PoolOK == PoolTypeOK /\ ChainShape

\* Chains are never dropped, and a pool stays.
Grown == \A a \in Account : /\ Len(chains[a]) \in Nat /\ Len(chains[a])' \in Nat
                            /\ Len(chains[a]) <= Len(chains[a])'
                            /\ HasPool(a) => HasPool(a)'

LEMMA SetChain ==
    ASSUME PoolOK, NEW a \in Account, NEW c \in 1..Len(chains[a]), NEW k \in ChainRec,
           Shaped(a, k), k.referChain = chains[a][c].referChain,
           chains' = [chains EXCEPT ![a] = [@ EXCEPT ![c] = k]], current' = current
    PROVE  PoolOK' /\ Grown
<1>1. chains[a] \in Seq(ChainRec) /\ chains \in [Account -> Seq(ChainRec)]
      /\ current \in [Account -> Nat]
  BY DEF PoolOK, PoolTypeOK
<1>2. [chains[a] EXCEPT ![c] = k] \in Seq(ChainRec)
      /\ Len([chains[a] EXCEPT ![c] = k]) = Len(chains[a])
  BY <1>1
<1>3. chains' \in [Account -> Seq(ChainRec)]
  BY <1>1, <1>2
<1>4. \A x \in Account : Len(chains'[x]) = Len(chains[x])
  BY <1>1, <1>2
<1>5. \A x \in Account : \A d \in 1..Len(chains[x]) :
          chains'[x][d] = IF x = a /\ d = c THEN k ELSE chains[x][d]
  BY <1>1
<1>6. ChainShape'
  BY <1>4, <1>5 DEF PoolOK, ChainShape, Shaped
<1>7. PoolTypeOK'
  <2>1. ASSUME NEW x \in Account
        PROVE  /\ current[x] \in 0..Len(chains'[x])
               /\ current[x] = 0 => chains'[x] = <<>>
               /\ \A d \in 1..Len(chains'[x]) : chains'[x][d].referChain \in 0..Len(chains'[x])
    <3>1. current[x] \in 0..Len(chains[x]) /\ (current[x] = 0 => chains[x] = <<>>)
          /\ \A d \in 1..Len(chains[x]) : chains[x][d].referChain \in 0..Len(chains[x])
      BY DEF PoolOK, PoolTypeOK
    <3>2. x = a => chains[x] # <<>>
      BY <1>1
    <3> QED
      BY <1>1, <1>4, <1>5, <3>1, <3>2
  <2> QED
    BY <1>1, <1>3, <2>1 DEF PoolTypeOK
<1>8. Grown
  BY <1>1, <1>3, <1>4 DEF Grown, HasPool
<1> QED
  BY <1>6, <1>7, <1>8 DEF PoolOK

LEMMA AddChain ==
    ASSUME PoolOK, NEW a \in Account, NEW k \in ChainRec,
           Shaped(a, k), k.referChain \in 0..Len(chains[a]),
           chains' = [chains EXCEPT ![a] = Append(@, k)],
           \/ current' = current /\ current[a] # 0
           \/ current' = [current EXCEPT ![a] = Len(chains[a]) + 1]
    PROVE  PoolOK' /\ Grown
<1>1. chains[a] \in Seq(ChainRec) /\ chains \in [Account -> Seq(ChainRec)]
      /\ current \in [Account -> Nat]
  BY DEF PoolOK, PoolTypeOK
<1>2. Append(chains[a], k) \in Seq(ChainRec)
      /\ Len(Append(chains[a], k)) = Len(chains[a]) + 1
      /\ Append(chains[a], k)[Len(chains[a]) + 1] = k
      /\ \A d \in 1..Len(chains[a]) : Append(chains[a], k)[d] = chains[a][d]
      /\ Len(chains[a]) \in Nat
  BY <1>1
<1>3. chains' \in [Account -> Seq(ChainRec)]
  BY <1>1, <1>2
<1>4. \A x \in Account : chains'[x] = IF x = a THEN Append(chains[a], k) ELSE chains[x]
  BY <1>1
<1>5. \A x \in Account : current'[x] = current[x] \/ (x = a /\ current'[x] = Len(chains[a]) + 1)
  BY <1>1
<1>6. \A x \in Account : \A d \in 1..Len(chains'[x]) :
          \/ x = a /\ chains'[x][d] = k
          \/ d \in 1..Len(chains[x]) /\ chains'[x][d] = chains[x][d]
  BY <1>1, <1>2, <1>4
<1>7. ChainShape'
  BY <1>6 DEF PoolOK, ChainShape, Shaped
<1>8. PoolTypeOK'
  <2>1. ASSUME NEW x \in Account
        PROVE  /\ current'[x] \in 0..Len(chains'[x])
               /\ current'[x] = 0 => chains'[x] = <<>>
               /\ \A d \in 1..Len(chains'[x]) : chains'[x][d].referChain \in 0..Len(chains'[x])
    <3>1. current[x] \in 0..Len(chains[x]) /\ (current[x] = 0 => chains[x] = <<>>)
          /\ \A d \in 1..Len(chains[x]) : chains[x][d].referChain \in 0..Len(chains[x])
      BY DEF PoolOK, PoolTypeOK
    <3>2. CASE x = a
      BY <1>1, <1>2, <1>4, <1>5, <1>6, <3>1, <3>2
    <3>3. CASE x # a
      BY <1>1, <1>4, <1>5, <3>1, <3>3
    <3> QED
      BY <3>2, <3>3
  <2>2. current' \in [Account -> Nat]
    BY <1>1, <1>2
  <2> QED
    BY <1>3, <2>1, <2>2 DEF PoolTypeOK
<1>9. Grown
  <2>1. ASSUME NEW x \in Account
        PROVE  /\ Len(chains[x]) \in Nat /\ Len(chains'[x]) \in Nat
               /\ Len(chains[x]) <= Len(chains'[x])
               /\ current[x] # 0 => current'[x] # 0
    BY <1>1, <1>2, <1>4, <1>5
  <2> QED
    BY <2>1 DEF Grown, HasPool
<1> QED
  BY <1>7, <1>8, <1>9 DEF PoolOK

LEMMA KeptPool ==
    ASSUME PoolOK, UNCHANGED <<chains, current>>
    PROVE  PoolOK' /\ Grown
<1>1. PoolOK'
  BY DEF PoolOK, PoolTypeOK, ChainShape, Shaped
<1>2. \A a \in Account : Len(chains[a]) \in Nat
  BY DEF PoolOK, PoolTypeOK
<1> QED
  BY <1>1, <1>2 DEF Grown, HasPool

\* currentModify and init: an empty chain at the head.
LEMMA NewCurrentPool ==
    ASSUME DiskTypeOK, DiskShape, PoolOK, NEW a \in Account, NewCurrent(a)
    PROVE  PoolOK' /\ Grown
<1>1. head[a] \in BlockOrNil /\ (head[a] = Nil => GenesisOf[a] = Nil)
  BY DEF DiskTypeOK, DiskShape
<1>2. ChainAt(head[a]) \in ChainRec /\ Shaped(a, ChainAt(head[a]))
      /\ ChainAt(head[a]).referChain = 0
  BY <1>1, ChainAtGood
<1>3. 0 \in 0..Len(chains[a])
  BY DEF PoolOK, PoolTypeOK
<1> QED
  BY <1>2, <1>3, AddChain DEF NewCurrent

LEMMA InsertNotifyPool ==
    ASSUME DiskTypeOK, DiskShape, PoolOK, NEW a \in Account, HasPool(a), InsertNotify(a)
    PROVE  PoolOK' /\ Grown
<1>1. CASE ~Follows(a)
  BY <1>1, NewCurrentPool DEF InsertNotify
<1>2. CASE Follows(a)
  <2> DEFINE k == Current(a)
             m == [k EXCEPT !.tailHeight = HeadHeight(a), !.tailHash = head[a],
                            !.headHeight = HeadHeight(a), !.headHash = head[a]]
  <2>1. current[a] \in 1..Len(chains[a]) /\ chains[a] \in Seq(ChainRec)
    BY DEF PoolOK, PoolTypeOK, HasPool
  <2>2. k \in ChainRec /\ Shaped(a, k)
    BY <2>1 DEF PoolOK, ChainShape, Current
  <2>3. head[a] \in BlockOrNil /\ HeadHeight(a) \in -1..MaxHeight
        /\ (HeadHeight(a) = -1 => GenesisOf[a] = Nil)
    BY HeadFacts DEF DiskTypeOK, DiskShape
  <2>4. m \in ChainRec
    BY <2>2, <2>3 DEF ChainRec
  <2>5. m.referChain = k.referChain /\ m.headHeight = HeadHeight(a)
        /\ m.heightBlocks = k.heightBlocks
    BY <2>2 DEF ChainRec
  <2>6. Shaped(a, m)
    BY <2>2, <2>3, <2>5 DEF Shaped
  <2>7. chains' = [chains EXCEPT ![a] = [@ EXCEPT ![current[a]] = m]] /\ current' = current
    BY <1>2 DEF InsertNotify, Current, PoolOK, PoolTypeOK
  <2>8. m.referChain = chains[a][current[a]].referChain
    BY <2>5 DEF Current
  <2> HIDE DEF m, k
  <2> QED
    BY <2>1, <2>4, <2>6, <2>7, <2>8, SetChain
<1> QED
  BY <1>1, <1>2

LEMMA OwnBlockFacts ==
    ASSUME PoolOK, NEW a \in Account, NEW c \in 1..Len(chains[a]), NEW h,
           OwnBlock(a, c, h) # Nil
    PROVE  /\ h \in Height
           /\ OwnBlock(a, c, h) = chains[a][c].heightBlocks[h]
           /\ IsOf(OwnBlock(a, c, h), a, h)
           /\ h = 0 => GenesisOf[a] = Nil
BY DEF PoolOK, ChainShape, Shaped, OwnBlock

\* modifyRefer: both chains stay chains of the account, and refer to one.
LEMMA TurnedPool ==
    ASSUME PoolOK, NEW a \in Account, NEW to \in 1..Len(chains[a]),
           chains[a][to].referChain # Disk,
           chains' = [chains EXCEPT ![a] = Turned(a, to)], current' = current
    PROVE  PoolOK' /\ Grown
<1> DEFINE from == chains[a][to].referChain
           b == HandedOver(a, to)
           upper == IF b = Nil THEN chains[a][to] ELSE AddTail(chains[a][to], b)
           lower == IF b = Nil THEN chains[a][from] ELSE RemoveTail(chains[a][from], b)
           m == [lower EXCEPT !.referChain = to]
           k == [upper EXCEPT !.referChain = chains[a][from].referChain]
           n == Len(chains[a])
<1>1. chains[a] \in Seq(ChainRec) /\ n \in Nat /\ from \in 1..n
      /\ chains[a][from].referChain \in 0..n /\ current[a] \in 0..n
      /\ chains \in [Account -> Seq(ChainRec)] /\ current \in [Account -> Nat]
      /\ (current[a] = 0 => chains[a] = <<>>)
  <2>1. chains[a] \in Seq(ChainRec) /\ n \in Nat /\ from \in 0..n /\ from # 0
    BY DEF PoolOK, PoolTypeOK, Disk
  <2>2. from \in 1..n
    BY <2>1
  <2> QED
    BY <2>1, <2>2 DEF PoolOK, PoolTypeOK
<1>2. /\ chains[a][to] \in ChainRec /\ Shaped(a, chains[a][to])
      /\ chains[a][from] \in ChainRec /\ Shaped(a, chains[a][from])
  BY <1>1 DEF PoolOK, ChainShape
<1>3. b # Nil => /\ b \in ABlock /\ Body[b].signer = a
                 /\ BlockHeight[b] = 0 => GenesisOf[a] = Nil
  BY <1>1, OwnBlockFacts DEF HandedOver, IsOf
<1>4. upper \in ChainRec /\ Shaped(a, upper)
  BY <1>2, <1>3, AddTailGood
<1>5. lower \in ChainRec /\ Shaped(a, lower)
  BY <1>2, <1>3, RemoveTailGood
<1>6. m \in ChainRec /\ Shaped(a, m) /\ m.referChain = to
  <2> HIDE DEF lower
  <2> QED
    BY <1>5, ReferGood
<1>7. k \in ChainRec /\ Shaped(a, k) /\ k.referChain = chains[a][from].referChain
  <2> HIDE DEF upper
  <2>1. chains[a][from].referChain \in Nat
    BY <1>1
  <2> QED
    BY <1>4, <2>1, ReferGood
<1>8. chains'[a] = [c \in 1..n |-> IF c = from THEN m ELSE IF c = to THEN k ELSE chains[a][c]]
  BY <1>1 DEF Turned
<1>9. \A x \in Account : x # a => chains'[x] = chains[x]
  BY <1>1
<1> HIDE DEF from, b, upper, lower, m, k
<1>10. chains'[a] \in Seq(ChainRec) /\ Len(chains'[a]) = n
  <2>1. ASSUME NEW c \in 1..n
        PROVE  chains'[a][c] \in ChainRec
    <3>1. chains'[a][c] = IF c = from THEN m ELSE IF c = to THEN k ELSE chains[a][c]
      BY <1>8
    <3>2. chains[a][c] \in ChainRec
      BY <1>1
    <3> QED
      BY <1>6, <1>7, <3>1, <3>2
  <2>2. chains'[a] \in [1..n -> ChainRec]
    BY <1>8, <2>1
  <2> QED
    BY <1>1, <2>2, FunIsSeq
<1>11. chains' \in [Account -> Seq(ChainRec)]
  BY <1>1, <1>9, <1>10
<1>12. ChainShape'
  BY <1>6, <1>7, <1>8, <1>9, <1>10 DEF PoolOK, ChainShape, Shaped
<1>13. \A c \in 1..n : chains'[a][c].referChain \in 0..n
  <2>1. \A c \in 1..n : chains[a][c].referChain \in 0..n
    BY DEF PoolOK, PoolTypeOK
  <2>2. ASSUME NEW c \in 1..n
        PROVE  chains'[a][c].referChain \in 0..n
    <3>1. chains'[a][c] = IF c = from THEN m ELSE IF c = to THEN k ELSE chains[a][c]
      BY <1>8
    <3>2. CASE c = from
      <4>1. to \in 0..n
        BY <1>1
      <4> QED
        BY <1>6, <3>1, <3>2, <4>1
    <3>3. CASE c # from /\ c = to
      BY <1>1, <1>7, <3>1, <3>3
    <3>4. CASE c # from /\ c # to
      BY <2>1, <3>1, <3>4
    <3> QED
      BY <3>2, <3>3, <3>4
  <2> QED
    BY <2>2
<1>14. PoolTypeOK'
  <2>1. ASSUME NEW x \in Account
        PROVE  /\ current[x] \in 0..Len(chains'[x])
               /\ current[x] = 0 => chains'[x] = <<>>
               /\ \A d \in 1..Len(chains'[x]) : chains'[x][d].referChain \in 0..Len(chains'[x])
    <3>1. CASE x = a
      BY <1>1, <1>10, <1>13, <3>1
    <3>2. CASE x # a
      BY <1>9, <3>2 DEF PoolOK, PoolTypeOK
    <3> QED
      BY <3>1, <3>2
  <2> QED
    BY <1>1, <1>11, <2>1 DEF PoolTypeOK
<1>15. Grown
  <2>1. ASSUME NEW x \in Account
        PROVE  /\ Len(chains[x]) \in Nat /\ Len(chains'[x]) \in Nat
               /\ Len(chains[x]) <= Len(chains'[x])
    <3>1. chains[x] \in Seq(ChainRec)
      BY <1>1
    <3> QED
      BY <1>1, <1>9, <1>10, <3>1
  <2> QED
    BY <2>1 DEF Grown, HasPool
<1> QED
  BY <1>12, <1>14, <1>15 DEF PoolOK

-----------------------------------------------------------------------------
(***************************************************************************)
(* The disk keeps its type and shape.                                      *)
(***************************************************************************)
DiskOK == DiskTypeOK /\ DiskShape

LEMMA KeptDisk ==
    ASSUME DiskOK, UNCHANGED <<diskVars, sdisk>>
    PROVE  DiskOK'
BY DEF DiskOK, DiskTypeOK, DiskShape, diskVars

LEMMA PutDisk ==
    ASSUME DiskOK, NEW b \in ABlock, Put(b), UNCHANGED <<points, inMap, sourceHash, reqs, sdisk>>
    PROVE  DiskOK'
<1>1. Body[b].signer \in Account /\ BlockHeight[b] \in Height /\ b \in BlockOrNil /\ b # Nil
  BY BlockFacts DEF BlockOrNil
<1>2. DiskTypeOK'
  BY <1>1 DEF DiskOK, DiskTypeOK, Put
<1>3. DiskShape'
  BY <1>1 DEF DiskOK, DiskTypeOK, DiskShape, Put, IsOf
<1> QED
  BY <1>2, <1>3 DEF DiskOK

LEMMA NotifyDisk ==
    ASSUME DiskOK, NEW b \in ABlock, Notify(b),
           UNCHANGED <<head, byHeight, points, inMap, byHash, sdisk>>
    PROVE  DiskOK'
<1>1. BlockInsert(b) \in [ABlock -> -1..2]
  BY ReceiptFacts DEF BlockInsert, DiskOK, DiskTypeOK
<1>2. SourceHash(b, b) \in [ABlock -> BlockOrNil]
  BY ReceiptFacts DEF SourceHash, DiskOK, DiskTypeOK, BlockOrNil
<1> QED
  BY <1>1, <1>2 DEF DiskOK, DiskTypeOK, DiskShape, Notify

LEMMA PointType ==
    ASSUME NEW sb \in SBlock, NEW i \in DOMAIN SBody[sb].accounts
    PROVE  /\ SBody[sb].accounts[i].addr \in Account
           /\ SBody[sb].accounts[i].block \in ABlock
           /\ Point(sb, SBody[sb].accounts[i]) \in PointRec
<1>1. SBody[sb].accounts \in Seq([addr : Account, block : ABlock]) /\ SBody[sb].height \in Nat
  BY BodyAssumption
<1>2. SBody[sb].accounts[i] \in [addr : Account, block : ABlock]
  <2> DEFINE R == [addr : Account, block : ABlock]
  <2>1. SBody[sb].accounts \in Seq(R)
    BY <1>1
  <2> HIDE DEF R
  <2>2. SBody[sb].accounts[i] \in R
    BY <2>1
  <2> QED
    BY <2>2 DEF R
<1> QED
  BY <1>1, <1>2, BlockFacts DEF Point, PointRec, SHeight

\* The next snapshot block of the current branch.
LEMMA NextSnapshotFacts ==
    ASSUME LedgerTypeOK, stail < Len(Branch[branch])
    PROVE  NextSnapshot \in SBlock /\ SHeight(NextSnapshot) = stail + 1
<1>1. branch \in DOMAIN Branch /\ stail \in 0..Len(Branch[branch])
  BY DEF LedgerTypeOK
<1>2. Branch[branch] \in Seq(SBlock)
  BY <1>1, LedgerAssumption
<1>3. stail + 1 \in DOMAIN Branch[branch]
  BY <1>1, <1>2
<1> QED
  BY <1>1, <1>2, <1>3, LedgerAssumption DEF NextSnapshot

LEMMA SnapshotInsertDisk ==
    ASSUME LedgerTypeOK, DiskShape, SnapshotInsert
    PROVE  DiskOK'
<1>1. stail < Len(Branch[branch]) /\ InsertSnapshotBlock(NextSnapshot)
      /\ UNCHANGED <<head, byHeight, inMap, byHash, sourceHash, reqs>>
  BY DEF SnapshotInsert, CanSnapshot
<1>2. PICK sb \in SBlock : sb = NextSnapshot /\ SHeight(sb) = stail + 1
  BY <1>1, NextSnapshotFacts
<1>3. sdisk \in Seq(SBlock) /\ stail \in Nat /\ stail <= Len(sdisk)
      /\ points \in [Account -> Seq(PointRec)] /\ DiskTypeOK
  BY DEF LedgerTypeOK, DiskTypeOK
<1>4. sdisk' \in Seq(SBlock)
  <2>1. sdisk' = Append(SubSeq(sdisk, 1, stail), sb)
    BY <1>1, <1>2, <1>3 DEF InsertSnapshotBlock
  <2>2. SubSeq(sdisk, 1, stail) \in Seq(SBlock)
    BY <1>3
  <2> QED
    BY <2>1, <2>2
<1>5. points' \in [Account -> Seq(PointRec)]
  <2>1. ASSUME NEW a \in Account
        PROVE  points'[a] \in Seq(PointRec)
    <3>1. CASE Pushed(sb, a) = {}
      BY <1>1, <1>2, <1>3, <3>1 DEF InsertSnapshotBlock
    <3>2. CASE Pushed(sb, a) # {}
      <4>1. PICK i \in Pushed(sb, a) : i = CHOOSE j \in Pushed(sb, a) : TRUE
        BY <3>2
      <4>2. i \in DOMAIN SBody[sb].accounts
        BY DEF Pushed
      <4>3. points'[a] = Append(points[a], Point(sb, SBody[sb].accounts[i]))
        BY <1>1, <1>2, <3>2, <4>1 DEF InsertSnapshotBlock
      <4>4. points[a] \in Seq(PointRec)
        BY <1>3
      <4> QED
        BY <4>2, <4>3, <4>4, PointType
    <3> QED
      BY <3>1, <3>2
  <2>2. points' = [a \in Account |-> points'[a]]
    BY <1>1 DEF InsertSnapshotBlock
  <2> QED
    BY <2>1, <2>2
<1> QED
  BY <1>1, <1>3, <1>4, <1>5 DEF DiskOK, DiskTypeOK, DiskShape

LEMMA UnLockDisk ==
    ASSUME DiskOK, NEW a \in Account, UnLockAccount(a)
    PROVE  DiskOK'
<1>1. points[a] \in Seq(PointRec) /\ points \in [Account -> Seq(PointRec)]
  BY DEF DiskOK, DiskTypeOK
<1>2. points' = points \/ \E k \in 0..Len(points[a]) :
                              points' = [points EXCEPT ![a] = SubSeq(points[a], 1, k)]
  BY DEF UnLockAccount
<1>3. \A k \in 0..Len(points[a]) : SubSeq(points[a], 1, k) \in Seq(PointRec)
  BY <1>1
<1>4. points' \in [Account -> Seq(PointRec)]
  BY <1>1, <1>2, <1>3
<1> QED
  BY <1>4 DEF UnLockAccount, DiskOK, DiskTypeOK, DiskShape

\* The block that a round of rollback removes.
LEMMA VictimFacts ==
    ASSUME DiskOK, ForkTypeOK, Removable
    PROVE  /\ snap.acc \in Account /\ HasPool(snap.acc)
           /\ IsOf(Victim, snap.acc, snap.height)
           /\ Victim \in byHash
           /\ snap.height \in Height /\ snap.height >= 1
           /\ byHeight[snap.acc][snap.height] = Victim
<1>1. snap.acc \in Account /\ HasPool(snap.acc) /\ snap.height \in -1..MaxHeight
      /\ snap.wait[snap.acc] \in ABlock
  BY DEF ForkTypeOK, Fork, Removable, More, BlockOrNil
<1>2. snap.height > BlockHeight[snap.wait[snap.acc]] /\ Victim # Nil
  BY DEF Removable, More
<1>3. snap.height >= 1 /\ snap.height \in Height
  <2>1. PICK h \in Int : h = BlockHeight[snap.wait[snap.acc]] /\ 0 <= h
    BY <1>1, BlockFacts
  <2>2. MaxHeight \in Nat
    BY BodyAssumption
  <2> QED
    BY <1>1, <1>2, <2>1, <2>2 DEF Height
<1>4. byHeight[snap.acc][snap.height] = Victim
  BY <1>1, <1>3 DEF Victim, AtHeight
<1> QED
  BY <1>1, <1>2, <1>3, <1>4 DEF DiskOK, DiskShape

LEMMA RollbackDisk ==
    ASSUME DiskOK, ForkTypeOK, RollbackBlock
    PROVE  DiskOK'
<1>1. PICK a \in Account : a = snap.acc
  BY VictimFacts DEF RollbackBlock
<1>2. PICK b \in ABlock : b = Victim
  BY VictimFacts DEF RollbackBlock, IsOf
<1>3. Body[b].signer = a /\ b \in byHash /\ BlockHeight[b] \in Height
      /\ byHeight[a][BlockHeight[b]] = b
  BY <1>1, <1>2, VictimFacts DEF RollbackBlock, IsOf
<1>4. /\ Delete(a, b)
      /\ \/ UNCHANGED <<head, sourceHash, reqs>>
         \/ /\ reqs' = BlockRollback(b) /\ head' = [head EXCEPT ![a] = b]
            /\ sourceHash' = SourceHash(b, Nil)
      /\ UNCHANGED <<points, inMap, sdisk>>
  BY <1>1, <1>2, <1>3 DEF RollbackBlock, RemoveChain
<1>5. DiskTypeOK
  BY DEF DiskOK
<1>6. BlockRollback(b) \in [ABlock -> -1..2]
  BY <1>5, ReceiptFacts DEF BlockRollback, DiskTypeOK
<1>7. SourceHash(b, Nil) \in [ABlock -> BlockOrNil]
  BY <1>5, ReceiptFacts DEF SourceHash, DiskTypeOK, BlockOrNil
<1>8. DiskTypeOK'
  BY <1>3, <1>4, <1>5, <1>6, <1>7 DEF DiskTypeOK, Delete, BlockOrNil
<1>9. ASSUME NEW x \in Account
      PROVE  /\ GenesisOf[x] # Nil => head'[x] # Nil
             /\ \A h \in Height : byHeight'[x][h] # Nil =>
                   IsOf(byHeight'[x][h], x, h) /\ byHeight'[x][h] \in byHash'
  <2>1. /\ GenesisOf[x] # Nil => head[x] # Nil
        /\ \A h \in Height : byHeight[x][h] # Nil =>
              IsOf(byHeight[x][h], x, h) /\ byHeight[x][h] \in byHash
    BY DEF DiskOK, DiskShape
  <2>2. GenesisOf[x] # Nil => head'[x] # Nil
    BY <1>4, <1>5, <2>1, BlockFacts DEF DiskTypeOK
  <2>3. ASSUME NEW h \in Height, byHeight'[x][h] # Nil
        PROVE  IsOf(byHeight'[x][h], x, h) /\ byHeight'[x][h] \in byHash'
    <3>1. byHeight'[x][h] = byHeight[x][h] /\ ~(x = a /\ h = BlockHeight[b])
      BY <1>3, <1>4, <1>5, <2>3 DEF Delete, DiskTypeOK
    <3> QED
      BY <1>3, <1>4, <2>1, <2>3, <3>1 DEF Delete, IsOf
  <2> QED
    BY <2>2, <2>3
<1> QED
  BY <1>8, <1>9 DEF DiskOK, DiskShape

LEMMA SelfAcStoreDisk ==
    ASSUME DiskOK, NEW a \in Account, SelfAcStore(a)
    PROVE  DiskOK'
<1>1. GenesisOf[a] \in BlockOrNil
  BY GenesisFacts
<1>2. points' = [points EXCEPT ![a] = <<>>] /\ head' = [head EXCEPT ![a] = GenesisOf[a]]
      /\ inMap' = inMap \cup {a} /\ UNCHANGED <<byHeight, byHash, sourceHash, reqs, sdisk>>
  BY DEF SelfAcStore
<1>3. DiskTypeOK'
  BY <1>1, <1>2 DEF DiskOK, DiskTypeOK
<1>4. DiskShape'
  BY <1>1, <1>2 DEF DiskOK, DiskTypeOK, DiskShape
<1> QED
  BY <1>3, <1>4 DEF DiskOK

\* No action leaves the disk's shape.
LEMMA DiskStep ==
    ASSUME LedgerTypeOK, DiskOK, Next
    PROVE  DiskOK'
<1>1. CASE \E a \in Account : SelfPendingAc(a)
  BY <1>1 DEF SelfPendingAc, DiskOK, DiskTypeOK, DiskShape
<1>2. CASE \E a \in Account : SelfAcMiss(a)
  BY <1>2, KeptDisk DEF SelfAcMiss, dataVars, diskVars
<1>3. CASE \E a \in Account : SelfAcStore(a)
  BY <1>3, SelfAcStoreDisk
<1>4. CASE \E b \in ABlock : CompactExtend(b)
  BY <1>4, KeptDisk DEF CompactExtend, dataVars, diskVars
<1>5. CASE \E b \in ABlock : CompactFork(b)
  BY <1>5, KeptDisk DEF CompactFork, dataVars, diskVars
<1>6. CASE \E g \in Caller : \E b \in Local : MakeBlock(g, b)
  BY <1>6, KeptDisk DEF MakeBlock, dataVars, diskVars
<1>7. CASE \E g \in Caller : AddDirectVerify(g)
  BY <1>7, KeptDisk DEF AddDirectVerify, dataVars, diskVars
<1>8. CASE \E g \in Caller : AddDirectInsert(g)
  <2>1. PICK g \in Caller : AddDirectInsert(g)
    BY <1>8
  <2>2. caller[g].block \in ABlock
    BY <2>1 DEF AddDirectInsert, LedgerTypeOK, ProcTypeOK
  <2> QED
    BY <2>1, <2>2, PutDisk DEF AddDirectInsert
<1>9. CASE \E g \in Caller : AddDirectRefuse(g)
  BY <1>9, KeptDisk DEF AddDirectRefuse, dataVars, diskVars
<1>10. CASE \E g \in Caller : AddDirectNotify(g)
  <2>1. PICK g \in Caller : AddDirectNotify(g)
    BY <1>10
  <2>2. caller[g].block \in ABlock
    BY <2>1 DEF AddDirectNotify, LedgerTypeOK, ProcTypeOK
  <2> QED
    BY <2>1, <2>2, NotifyDisk DEF AddDirectNotify
<1>11. CASE \E a \in Account : TryInsertPanics(a)
  BY <1>11, KeptDisk DEF TryInsertPanics, dataVars, diskVars
<1>12. CASE \E a \in Account : TryInsertVerify(a)
  BY <1>12, KeptDisk DEF TryInsertVerify, dataVars, diskVars
<1>13. CASE \E a \in Account : TryInsertPending(a)
  BY <1>13, KeptDisk DEF TryInsertPending, dataVars, diskVars
<1>14. CASE TryInsertWrite
  <2>1. inserter.block \in ABlock
    BY <1>14 DEF TryInsertWrite, LedgerTypeOK, ProcTypeOK
  <2> QED
    BY <1>14, <2>1, PutDisk DEF TryInsertWrite
<1>15. CASE TryInsertRefuse
  BY <1>15, KeptDisk DEF TryInsertRefuse, dataVars, diskVars
<1>16. CASE TryInsertNotify
  <2>1. inserter.block \in ABlock
    BY <1>16 DEF TryInsertNotify, LedgerTypeOK, ProcTypeOK
  <2> QED
    BY <1>16, <2>1, NotifyDisk DEF TryInsertNotify
<1>17. CASE SnapshotInsert
  BY <1>17, SnapshotInsertDisk DEF DiskOK
<1>18. CASE SnapshotPending
  BY <1>18, KeptDisk DEF SnapshotPending, dataVars, diskVars
<1>19. CASE SnapshotFail
  BY <1>19, KeptDisk DEF SnapshotFail, dataVars, diskVars
<1>20. CASE \E br \in DOMAIN Branch : SnapshotFork(br)
  BY <1>20, KeptDisk DEF SnapshotFork, dataVars, diskVars
<1>21. CASE \E a \in Account : UnLockAccount(a)
  BY <1>21, UnLockDisk
<1>22. CASE \E a \in Account : Rollback(a)
  BY <1>22, KeptDisk DEF Rollback, dataVars, diskVars
<1>23. CASE ForkAccounts
  BY <1>23, KeptDisk DEF ForkAccounts, dataVars, diskVars
<1>24. CASE WaitRollback
  BY <1>24, KeptDisk DEF WaitRollback, dataVars, diskVars
<1>25. CASE RollbackBlock
  BY <1>25, RollbackDisk DEF LedgerTypeOK
<1>26. CASE RollbackEnd
  BY <1>26, KeptDisk DEF RollbackEnd, dataVars, diskVars
<1>27. CASE ForkKeys
  BY <1>27, KeptDisk DEF ForkKeys, dataVars, diskVars
<1>28. CASE ForkAccountTo
  BY <1>28, KeptDisk DEF ForkAccountTo, dataVars, diskVars
<1>29. CASE ModifyCheck
  BY <1>29, KeptDisk DEF ModifyCheck, dataVars, diskVars
<1>30. CASE ModifyRefer
  BY <1>30, KeptDisk DEF ModifyRefer, dataVars, diskVars
<1>31. CASE ModifyCurrent
  BY <1>31, KeptDisk DEF ModifyCurrent, dataVars, diskVars
<1>32. CASE FailEnd
  BY <1>32, KeptDisk DEF FailEnd, dataVars, diskVars
<1>33. CASE ForkEnd
  <2>1. sdisk \in Seq(SBlock) /\ snap.n \in Nat
    BY DEF DiskOK, DiskTypeOK, LedgerTypeOK, ForkTypeOK, Fork
  <2>2. snap.n < Len(sdisk) => SubSeq(sdisk, 1, snap.n) \in Seq(SBlock)
    BY <2>1
  <2>3. sdisk' \in Seq(SBlock)
    BY <1>33, <2>1, <2>2 DEF ForkEnd
  <2> QED
    BY <1>33, <2>3 DEF ForkEnd, DiskOK, DiskTypeOK, DiskShape, diskVars
<1>34. CASE \E p \in Procs : NotifyPanics(p)
  BY <1>34, KeptDisk DEF NotifyPanics, dataVars, diskVars
<1>35. CASE \E a \in Account : TryInsertEnd(a)
  BY <1>35, KeptDisk DEF TryInsertEnd, dataVars, diskVars
<1> QED
  BY <1>1, <1>2, <1>3, <1>4, <1>5, <1>6, <1>7, <1>8, <1>9, <1>10, <1>11, <1>12,
     <1>13, <1>14, <1>15, <1>16, <1>17, <1>18, <1>19, <1>20, <1>21, <1>22, <1>23,
     <1>24, <1>25, <1>26, <1>27, <1>28, <1>29, <1>30, <1>31, <1>32, <1>33, <1>34,
     <1>35
  DEF Next, Pools, Callers, Inserter, Snapshots, Forks

-----------------------------------------------------------------------------
(***************************************************************************)
(* The chains of the pools keep their type and shape.                      *)
(***************************************************************************)
\* The account that is being forked.
LEMMA KeyFacts ==
    ASSUME LedgerTypeOK, snap.keys # <<>>
    PROVE  /\ Key.addr \in Account /\ Key.block \in ABlock
           /\ Tail(snap.keys) \in Keys
<1>1. snap.keys \in Seq(KeyRec)
  BY DEF LedgerTypeOK, ForkTypeOK, Fork, Keys
<1>2. Head(snap.keys) \in KeyRec /\ Tail(snap.keys) \in Seq(KeyRec)
  BY <1>1
<1> QED
  BY <1>2 DEF Key, Keys, KeyRec

\* No action leaves the shape of the chains, and none drops a chain.
LEMMA PoolStep ==
    ASSUME LedgerTypeOK, DiskOK, PoolOK, Next
    PROVE  PoolOK' /\ Grown
<1>1. CASE \E a \in Account : SelfPendingAc(a)
  BY <1>1, NewCurrentPool DEF SelfPendingAc, DiskOK
<1>2. CASE \E a \in Account : SelfAcMiss(a)
  BY <1>2, KeptPool DEF SelfAcMiss, dataVars, poolVars
<1>3. CASE \E a \in Account : SelfAcStore(a)
  BY <1>3, KeptPool DEF SelfAcStore, dataVars, poolVars
<1>4. CASE \E b \in ABlock : CompactExtend(b)
  <2>1. PICK b \in ABlock : CompactExtend(b)
    BY <1>4
  <2>2. PICK a \in Account : a = Body[b].signer
    BY BlockFacts
  <2>3. PICK c \in Ends(b) :
            chains' = [chains EXCEPT ![a] = [@ EXCEPT ![c] = AddHead(chains[a][c], b)]]
    BY <2>1, <2>2 DEF CompactExtend
  <2>4. c \in 1..Len(chains[a]) /\ chains[a][c].headHeight = BlockHeight[b] - 1
        /\ chains[a] \in Seq(ChainRec) /\ chains \in [Account -> Seq(ChainRec)]
    BY <2>2 DEF Ends, PoolOK, PoolTypeOK
  <2>5. chains[a][c] \in ChainRec /\ Shaped(a, chains[a][c])
    BY <2>4 DEF PoolOK, ChainShape
  <2>6. BlockHeight[b] = 0 => chains[a][c].headHeight = -1
    BY <2>4
  <2>7. PICK k \in ChainRec : k = AddHead(chains[a][c], b) /\ Shaped(a, k)
                              /\ k.referChain = chains[a][c].referChain
    <3>1. /\ AddHead(chains[a][c], b) \in ChainRec
          /\ Shaped(a, AddHead(chains[a][c], b))
          /\ AddHead(chains[a][c], b).referChain = chains[a][c].referChain
      BY <2>2, <2>5, <2>6, AddHeadGood
    <3> QED
      BY <3>1
  <2>8. chains' = [chains EXCEPT ![a] = [@ EXCEPT ![c] = k]]
    BY <2>3, <2>4, <2>7
  <2> QED
    BY <2>1, <2>4, <2>7, <2>8, SetChain DEF CompactExtend
<1>5. CASE \E b \in ABlock : CompactFork(b)
  <2>1. PICK b \in ABlock : CompactFork(b)
    BY <1>5
  <2>2. PICK a \in Account : a = Body[b].signer
    BY BlockFacts
  <2>3. PreHash[b] # Nil /\ HasPool(a) /\ current' = current
        /\ chains' = [chains EXCEPT ![a] = Append(@, ForkOf(b, current[a]))]
    BY <2>1, <2>2 DEF CompactFork, HasForkPoint, Arrived
  <2>4. current[a] \in 0..Len(chains[a]) /\ current[a] \in Nat
    BY DEF PoolOK, PoolTypeOK
  <2>5. PICK k \in ChainRec : k = ForkOf(b, current[a]) /\ Shaped(a, k)
                              /\ k.referChain = current[a]
    BY <2>2, <2>3, <2>4, ForkOfGood
  <2> QED
    BY <2>3, <2>4, <2>5, AddChain DEF HasPool
<1>6. CASE \E g \in Caller : \E b \in Local : MakeBlock(g, b)
  BY <1>6, KeptPool DEF MakeBlock, dataVars, poolVars
<1>7. CASE \E g \in Caller : AddDirectVerify(g)
  BY <1>7, KeptPool DEF AddDirectVerify, dataVars, poolVars
<1>8. CASE \E g \in Caller : AddDirectInsert(g)
  BY <1>8, KeptPool DEF AddDirectInsert, dataVars, poolVars
<1>9. CASE \E g \in Caller : AddDirectRefuse(g)
  BY <1>9, KeptPool DEF AddDirectRefuse, dataVars, poolVars
<1>10. CASE \E g \in Caller : AddDirectNotify(g)
  <2>1. PICK g \in Caller : AddDirectNotify(g)
    BY <1>10
  <2>2. /\ caller[g].block \in ABlock /\ HasPool(Body[caller[g].block].signer)
        /\ InsertNotify(Body[caller[g].block].signer)
    BY <2>1 DEF AddDirectNotify, LedgerTypeOK, ProcTypeOK
  <2> QED
    BY <2>2, BlockFacts, InsertNotifyPool DEF DiskOK
<1>11. CASE \E a \in Account : TryInsertPanics(a)
  BY <1>11, KeptPool DEF TryInsertPanics, dataVars, poolVars
<1>12. CASE \E a \in Account : TryInsertVerify(a)
  BY <1>12, KeptPool DEF TryInsertVerify, dataVars, poolVars
<1>13. CASE \E a \in Account : TryInsertPending(a)
  BY <1>13, KeptPool DEF TryInsertPending, dataVars, poolVars
<1>14. CASE TryInsertWrite
  BY <1>14, KeptPool DEF TryInsertWrite, dataVars, poolVars
<1>15. CASE TryInsertRefuse
  BY <1>15, KeptPool DEF TryInsertRefuse, dataVars, poolVars
<1>16. CASE TryInsertNotify
  <2>1. PICK b \in ABlock : b = inserter.block
    BY <1>16 DEF TryInsertNotify, LedgerTypeOK, ProcTypeOK
  <2>2. PICK a \in Account : a = Body[b].signer
    BY BlockFacts
  <2>3. PICK c \in 1..Len(chains[a]) : c = inserter.chain
    BY <1>16, <2>1, <2>2 DEF TryInsertNotify, LedgerTypeOK
  <2>4. chains' = [chains EXCEPT ![a] = [@ EXCEPT ![c] = RemoveTail(chains[a][c], b)]] /\ current' = current
    BY <1>16, <2>1, <2>2, <2>3 DEF TryInsertNotify
  <2>5. chains[a][c] \in ChainRec /\ Shaped(a, chains[a][c])
        /\ chains \in [Account -> Seq(ChainRec)]
    BY DEF PoolOK, PoolTypeOK, ChainShape
  <2>6. PICK k \in ChainRec : k = RemoveTail(chains[a][c], b) /\ Shaped(a, k)
                              /\ k.referChain = chains[a][c].referChain
    <3>1. /\ RemoveTail(chains[a][c], b) \in ChainRec
          /\ Shaped(a, RemoveTail(chains[a][c], b))
          /\ RemoveTail(chains[a][c], b).referChain = chains[a][c].referChain
      BY <2>5, RemoveTailGood
    <3> QED
      BY <3>1
  <2>7. chains' = [chains EXCEPT ![a] = [@ EXCEPT ![c] = k]]
    BY <2>4, <2>5, <2>6
  <2> QED
    BY <2>4, <2>6, <2>7, SetChain
<1>17. CASE SnapshotInsert
  BY <1>17, KeptPool DEF SnapshotInsert, dataVars, poolVars
<1>18. CASE SnapshotPending
  BY <1>18, KeptPool DEF SnapshotPending, dataVars, poolVars
<1>19. CASE SnapshotFail
  BY <1>19, KeptPool DEF SnapshotFail, dataVars, poolVars
<1>20. CASE \E br \in DOMAIN Branch : SnapshotFork(br)
  BY <1>20, KeptPool DEF SnapshotFork, dataVars, poolVars
<1>21. CASE \E a \in Account : UnLockAccount(a)
  BY <1>21, KeptPool DEF UnLockAccount, dataVars, poolVars
<1>22. CASE \E a \in Account : Rollback(a)
  BY <1>22, KeptPool DEF Rollback, dataVars, poolVars
<1>23. CASE ForkAccounts
  BY <1>23, KeptPool DEF ForkAccounts, dataVars, poolVars
<1>24. CASE WaitRollback
  BY <1>24, KeptPool DEF WaitRollback, dataVars, poolVars
<1>25. CASE RollbackBlock
  <2>1. /\ snap.acc \in Account /\ HasPool(snap.acc)
        /\ IsOf(Victim, snap.acc, snap.height) /\ snap.height >= 1
    BY <1>25, VictimFacts DEF RollbackBlock, LedgerTypeOK
  <2>2. PICK a \in Account : a = snap.acc
    BY <2>1
  <2>3. PICK b \in ABlock : b = Victim
    BY <2>1 DEF IsOf
  <2>4. PICK c \in 1..Len(chains[a]) : c = current[a]
    BY <2>1, <2>2 DEF PoolOK, PoolTypeOK, HasPool
  <2>5. Body[b].signer = a /\ BlockHeight[b] # 0
    BY <2>1, <2>2, <2>3 DEF IsOf
  <2>6. chains[a][c] \in ChainRec /\ Shaped(a, chains[a][c])
        /\ chains \in [Account -> Seq(ChainRec)]
    BY DEF PoolOK, PoolTypeOK, ChainShape
  <2>7. PICK k \in ChainRec : k = AddTail(chains[a][c], b) /\ Shaped(a, k)
                              /\ k.referChain = chains[a][c].referChain
    <3>1. /\ AddTail(chains[a][c], b) \in ChainRec
          /\ Shaped(a, AddTail(chains[a][c], b))
          /\ AddTail(chains[a][c], b).referChain = chains[a][c].referChain
      BY <2>5, <2>6, AddTailGood
    <3> QED
      BY <3>1
  <2>8. current' = current /\ (\/ chains' = chains
                               \/ chains' = [chains EXCEPT ![a] = [@ EXCEPT ![c] = AddTail(chains[a][c], b)]])
    BY <1>25, <2>2, <2>3, <2>4 DEF RollbackBlock, Current
  <2>9. chains' = chains \/ chains' = [chains EXCEPT ![a] = [@ EXCEPT ![c] = k]]
    BY <2>6, <2>7, <2>8
  <2> QED
    BY <2>7, <2>8, <2>9, KeptPool, SetChain
<1>26. CASE RollbackEnd
  BY <1>26, KeptPool DEF RollbackEnd, dataVars, poolVars
<1>27. CASE ForkKeys
  BY <1>27, KeptPool DEF ForkKeys, dataVars, poolVars
<1>28. CASE ForkAccountTo
  BY <1>28, KeptPool DEF ForkAccountTo, dataVars, poolVars
<1>29. CASE ModifyCheck
  BY <1>29, KeptPool DEF ModifyCheck, dataVars, poolVars
<1>30. CASE ModifyRefer
  <2>1. snap.chain \in 1..Len(chains[Key.addr]) /\ Key.addr \in Account
    BY <1>30, KeyFacts DEF ModifyRefer, LedgerTypeOK, ForkTypeOK
  <2>2. PICK a \in Account : a = Key.addr
    BY <2>1
  <2>3. PICK c \in 1..Len(chains[a]) : c = snap.chain
    BY <2>1, <2>2
  <2>4. /\ chains[a][c].referChain # Disk /\ current' = current
        /\ \/ chains' = chains
           \/ chains' = [chains EXCEPT ![a] = Turned(a, c)]
    BY <1>30, <2>2, <2>3 DEF ModifyRefer
  <2> QED
    BY <2>4, KeptPool, TurnedPool
<1>31. CASE ModifyCurrent
  <2>1. snap.chain \in 1..Len(chains[Key.addr]) /\ Key.addr \in Account
    BY <1>31, KeyFacts DEF ModifyCurrent, LedgerTypeOK, ForkTypeOK
  <2>2. PICK a \in Account : a = Key.addr
    BY <2>1
  <2>3. PICK c \in 1..Len(chains[a]) : c = snap.chain
    BY <2>1, <2>2
  <2>4. current' = [current EXCEPT ![a] = c] /\ chains' = chains
    BY <1>31, <2>2, <2>3 DEF ModifyCurrent
  <2>5. current \in [Account -> Nat] /\ chains \in [Account -> Seq(ChainRec)]
    BY DEF PoolOK, PoolTypeOK
  <2>6. \A x \in Account : current'[x] = IF x = a THEN c ELSE current[x]
    BY <2>4, <2>5
  <2>7. c \in Nat /\ c # 0 /\ c \in 0..Len(chains[a])
    BY <2>5
  <2>8. PoolTypeOK'
    BY <2>4, <2>5, <2>6, <2>7 DEF PoolOK, PoolTypeOK
  <2>9. ChainShape'
    BY <2>4 DEF PoolOK, ChainShape, Shaped
  <2>10. \A x \in Account : Len(chains[x]) \in Nat
    BY <2>5
  <2> QED
    BY <2>4, <2>6, <2>7, <2>8, <2>9, <2>10 DEF PoolOK, Grown, HasPool
<1>32. CASE FailEnd
  BY <1>32, KeptPool DEF FailEnd, dataVars, poolVars
<1>33. CASE ForkEnd
  BY <1>33, KeptPool DEF ForkEnd, dataVars, poolVars
<1>34. CASE \E p \in Procs : NotifyPanics(p)
  BY <1>34, KeptPool DEF NotifyPanics, dataVars, poolVars
<1>35. CASE \E a \in Account : TryInsertEnd(a)
  BY <1>35, KeptPool DEF TryInsertEnd, dataVars, poolVars
<1> QED
  BY <1>1, <1>2, <1>3, <1>4, <1>5, <1>6, <1>7, <1>8, <1>9, <1>10, <1>11, <1>12,
     <1>13, <1>14, <1>15, <1>16, <1>17, <1>18, <1>19, <1>20, <1>21, <1>22, <1>23,
     <1>24, <1>25, <1>26, <1>27, <1>28, <1>29, <1>30, <1>31, <1>32, <1>33, <1>34,
     <1>35
  DEF Next, Pools, Callers, Inserter, Snapshots, Forks

-----------------------------------------------------------------------------
(***************************************************************************)
(* The callers and the inserter: who is in the middle of an insertion has  *)
(* a block, of an account with a pool, that is not a genesis block.        *)
(***************************************************************************)
GoodProc(p) == ProcTypeOK(p) /\ ProcShape(p)

ProcsOK ==
    /\ caller \in [Caller -> Proc] /\ \A g \in Caller : GoodProc(caller[g])
    /\ inserter \in Proc /\ GoodProc(inserter)
    /\ inserter.pc \in {"verified", "put", "next"} =>
          inserter.chain \in 1..Len(chains[Body[inserter.block].signer])

LEMMA IdleGood == Idle \in Proc /\ GoodProc(Idle)'
BY LedgerAssumption DEF Idle, Proc, GoodProc, ProcTypeOK, ProcShape, BlockOrNil

LEMMA KeptProc ==
    ASSUME NEW p, GoodProc(p), Grown
    PROVE  GoodProc(p)'
BY BlockFacts DEF GoodProc, ProcTypeOK, ProcShape, Grown

LEMMA KeptChain ==
    ASSUME ProcsOK, Grown, inserter' = inserter
    PROVE  inserter'.pc \in {"verified", "put", "next"} =>
               inserter'.chain \in 1..Len(chains'[Body[inserter'.block].signer])
<1>1. SUFFICES ASSUME inserter.pc \in {"verified", "put", "next"}
               PROVE  inserter.chain \in 1..Len(chains'[Body[inserter.block].signer])
  OBVIOUS
<1>2. inserter.block \in ABlock /\ inserter.chain \in 1..Len(chains[Body[inserter.block].signer])
  BY <1>1 DEF ProcsOK, GoodProc, ProcTypeOK
<1>3. PICK a \in Account : a = Body[inserter.block].signer
  BY <1>2, BlockFacts
<1>4. Len(chains[a]) \in Nat /\ Len(chains'[a]) \in Nat /\ Len(chains[a]) <= Len(chains'[a])
  BY DEF Grown
<1> QED
  BY <1>2, <1>3, <1>4

LEMMA KeptProcs ==
    ASSUME ProcsOK, Grown, UNCHANGED <<caller, inserter>>
    PROVE  ProcsOK'
<1>1. \A g \in Caller : GoodProc(caller[g])'
  BY KeptProc DEF ProcsOK
<1>2. GoodProc(inserter)'
  BY KeptProc DEF ProcsOK
<1> QED
  BY <1>1, <1>2, KeptChain DEF ProcsOK

LEMMA SetCaller ==
    ASSUME ProcsOK, Grown, NEW g \in Caller, NEW p \in Proc, GoodProc(p)',
           caller' = [caller EXCEPT ![g] = p], inserter' = inserter
    PROVE  ProcsOK'
<1>1. \A k \in Caller : GoodProc(caller[k])'
  <2>1. TAKE k \in Caller
  <2>2. caller'[k] = IF k = g THEN p ELSE caller[k]
    BY DEF ProcsOK
  <2>3. GoodProc(caller[k]) /\ (k # g => GoodProc(caller[k])')
    <3>1. GoodProc(caller[k])
      BY DEF ProcsOK
    <3>2. CASE k # g
      <4>1. caller'[k] = caller[k]
        BY <2>2, <3>2
      <4> QED
        BY <3>1, <4>1, BlockFacts DEF GoodProc, ProcTypeOK, ProcShape, Grown
    <3> QED
      BY <3>1, <3>2
  <2>4. CASE k = g
    <3>1. caller'[k] = p
      BY <2>2, <2>4
    <3> QED
      BY <3>1 DEF GoodProc, ProcTypeOK, ProcShape
  <2> QED
    BY <2>3, <2>4
<1>2. caller' \in [Caller -> Proc]
  BY DEF ProcsOK
<1>3. GoodProc(inserter)' /\ inserter' \in Proc
  BY KeptProc DEF ProcsOK
<1> QED
  BY <1>1, <1>2, <1>3, KeptChain DEF ProcsOK

LEMMA SetInserter ==
    ASSUME ProcsOK, Grown, inserter' \in Proc, GoodProc(inserter)',
           inserter'.pc \in {"verified", "put", "next"} =>
               inserter'.chain \in 1..Len(chains'[Body[inserter'.block].signer]),
           caller' = caller
    PROVE  ProcsOK'
<1>1. \A g \in Caller : GoodProc(caller[g])'
  BY KeptProc DEF ProcsOK
<1> QED
  BY <1>1 DEF ProcsOK

\* The chain that loopTryInsert works on exists.
LEMMA TryChainThere ==
    ASSUME PoolOK, ProcsOK, NEW a \in Account, HasPool(a)
    PROVE  TryChain(a) \in 1..Len(chains[a])
<1>1. CASE AtNext(a)
  <2>1. inserter.chain \in 1..Len(chains[Body[inserter.block].signer])
    BY <1>1 DEF AtNext, ProcsOK
  <2> QED
    BY <1>1, <2>1 DEF AtNext, TryChain
<1>2. CASE ~AtNext(a)
  BY <1>2 DEF TryChain, PoolOK, PoolTypeOK, HasPool
<1> QED
  BY <1>1, <1>2

\* A genesis block is not inserted: no chain starts below one.
LEMMA NotGenesis ==
    ASSUME PoolOK, ProcsOK, NEW a \in Account, HasPool(a), NextOf(a) # Nil,
           TryInsertVerify(a)
    PROVE  Body[NextOf(a)].blockType # "GENESIS"
<1>1. TryChain(a) \in 1..Len(chains[a])
  BY TryChainThere
<1>2. PICK h : h = TryHeight(a)
  OBVIOUS
<1>3. PICK b \in ABlock : b = NextOf(a) /\ IsOf(b, a, h) /\ (h = 0 => GenesisOf[a] = Nil)
  BY <1>1, <1>2, OwnBlockFacts DEF NextOf, IsOf
<1>4. SUFFICES ASSUME Body[b].blockType = "GENESIS"
               PROVE  FALSE
  BY <1>3
<1>5. VerifyAccount(b) = "SUCCESS"
  BY <1>3 DEF TryInsertVerify
<1>6. GenesisOf[a] = b
  BY <1>3, <1>4, <1>5 DEF VerifyAccount, IsOf
<1> QED
  BY <1>3, <1>6, GenesisFacts, BlockFacts DEF IsOf

LEMMA ProcsStep ==
    ASSUME LedgerTypeOK, PoolOK, ProcsOK, Grown, Next
    PROVE  ProcsOK'
<1>1. CASE \E a \in Account : SelfPendingAc(a)
  BY <1>1, KeptProcs DEF SelfPendingAc, goVars
<1>2. CASE \E a \in Account : SelfAcMiss(a)
  BY <1>2, KeptProcs DEF SelfAcMiss, goVars
<1>3. CASE \E a \in Account : SelfAcStore(a)
  BY <1>3, KeptProcs DEF SelfAcStore, goVars
<1>4. CASE \E b \in ABlock : CompactExtend(b)
  BY <1>4, KeptProcs DEF CompactExtend, goVars
<1>5. CASE \E b \in ABlock : CompactFork(b)
  BY <1>5, KeptProcs DEF CompactFork, goVars
<1>6. CASE \E g \in Caller : \E b \in Local : MakeBlock(g, b)
  <2>1. PICK g \in Caller, b \in Local : MakeBlock(g, b)
    BY <1>6
  <2>2. PICK p : p = [pc |-> "made", block |-> b, chain |-> 0, version |-> 0]
    OBVIOUS
  <2>3. p \in Proc /\ GoodProc(p)'
    BY <2>2, LedgerAssumption DEF Proc, GoodProc, ProcTypeOK, ProcShape, BlockOrNil
  <2> QED
    BY <2>1, <2>2, <2>3, SetCaller DEF MakeBlock
<1>7. CASE \E g \in Caller : AddDirectVerify(g)
  <2>1. PICK g \in Caller : AddDirectVerify(g)
    BY <1>7
  <2>2. PICK b \in ABlock : b = caller[g].block
    BY <2>1 DEF AddDirectVerify, ProcsOK, GoodProc, ProcTypeOK
  <2>3. PICK p : p = [pc |-> "verified", block |-> b, chain |-> 0, version |-> version]
    OBVIOUS
  <2>4. HasPool(Body[b].signer) /\ Body[b].blockType # "GENESIS"
    BY <2>1, <2>2 DEF AddDirectVerify, ProcsOK, GoodProc, ProcShape
  <2>5. version \in 0..MaxVersion /\ HasPool(Body[b].signer)'
    BY <2>4, BlockFacts DEF LedgerTypeOK, Grown
  <2>6. p \in Proc
    BY <2>3, <2>5 DEF Proc, BlockOrNil
  <2>7. GoodProc(p)'
    BY <2>2, <2>3, <2>4, <2>5 DEF GoodProc, ProcTypeOK, ProcShape
  <2>8. inserter' = inserter /\ (\/ caller' = [caller EXCEPT ![g] = p]
                                 \/ caller' = [caller EXCEPT ![g] = Idle])
    BY <2>1, <2>2, <2>3 DEF AddDirectVerify
  <2> QED
    BY <2>6, <2>7, <2>8, SetCaller, IdleGood
<1>8. CASE \E g \in Caller : AddDirectInsert(g)
  <2>1. PICK g \in Caller : AddDirectInsert(g)
    BY <1>8
  <2>2. PICK q \in Proc : q = caller[g] /\ q.pc = "verified" /\ GoodProc(q)
    BY <2>1 DEF AddDirectInsert, ProcsOK
  <2>3. PICK p : p = [q EXCEPT !.pc = "put"]
    OBVIOUS
  <2>4. p \in Proc /\ p.pc = "put" /\ p.block = q.block
    BY <2>3 DEF Proc
  <2>5. q.block \in ABlock /\ HasPool(Body[q.block].signer)'
    BY <2>2, BlockFacts DEF GoodProc, ProcTypeOK, Grown
  <2>6. GoodProc(p)'
    BY <2>2, <2>4, <2>5 DEF GoodProc, ProcTypeOK, ProcShape
  <2>7. caller' = [caller EXCEPT ![g] = p] /\ inserter' = inserter
    BY <2>1, <2>2, <2>3 DEF AddDirectInsert
  <2> QED
    BY <2>4, <2>6, <2>7, SetCaller
<1>9. CASE \E g \in Caller : AddDirectRefuse(g)
  BY <1>9, SetCaller, IdleGood DEF AddDirectRefuse
<1>10. CASE \E g \in Caller : AddDirectNotify(g)
  BY <1>10, SetCaller, IdleGood DEF AddDirectNotify
<1>11. CASE \E a \in Account : TryInsertPanics(a)
  BY <1>11, KeptProcs DEF TryInsertPanics, goVars
<1>12. CASE \E a \in Account : TryInsertVerify(a)
  <2>1. PICK a \in Account : TryInsertVerify(a)
    BY <1>12
  <2>0. NextOf(a) # Nil /\ HasPool(a)
    BY <2>1 DEF TryInsertVerify, CanTryInsert
  <2>2. TryChain(a) \in 1..Len(chains[a]) /\ NextOf(a) # Nil /\ HasPool(a)
    BY <2>0, TryChainThere
  <2>3. PICK b \in ABlock : b = NextOf(a) /\ Body[b].signer = a
    BY <2>2, OwnBlockFacts DEF NextOf, IsOf
  <2>4. Body[b].blockType # "GENESIS"
    BY <2>1, <2>2, <2>3, NotGenesis
  <2>5. inserter' = [pc |-> "verified", block |-> b, chain |-> TryChain(a), version |-> version]
        /\ caller' = caller
    BY <2>1, <2>3 DEF TryInsertVerify
  <2>6. version \in 0..MaxVersion /\ HasPool(a)' /\ Len(chains[a])' \in Nat
        /\ Len(chains[a]) \in Nat /\ Len(chains[a]) <= Len(chains[a])'
    BY <2>2 DEF LedgerTypeOK, Grown
  <2>7. TryChain(a) \in 1..Len(chains'[a]) /\ TryChain(a) \in Nat
    BY <2>2, <2>6
  <2>8. inserter' \in Proc
    BY <2>5, <2>6, <2>7 DEF Proc, BlockOrNil
  <2>9. GoodProc(inserter)'
    BY <2>3, <2>4, <2>5, <2>6 DEF GoodProc, ProcTypeOK, ProcShape
  <2>10. inserter'.chain \in 1..Len(chains'[Body[inserter'.block].signer])
    BY <2>3, <2>5, <2>7
  <2> QED
    BY <2>5, <2>8, <2>9, <2>10, SetInserter
<1>13. CASE \E a \in Account : TryInsertPending(a)
  BY <1>13, SetInserter, IdleGood DEF TryInsertPending, Idle
<1>14. CASE TryInsertWrite
  <2>1. inserter \in Proc /\ inserter.pc = "verified" /\ GoodProc(inserter)
        /\ inserter.block \in ABlock /\ HasPool(Body[inserter.block].signer)
        /\ inserter.chain \in 1..Len(chains[Body[inserter.block].signer])
    BY <1>14 DEF TryInsertWrite, ProcsOK, GoodProc, ProcTypeOK
  <2>2. inserter' \in Proc /\ inserter'.pc = "put" /\ inserter'.block = inserter.block
        /\ inserter'.chain = inserter.chain /\ caller' = caller
    BY <1>14, <2>1 DEF TryInsertWrite, Proc
  <2>3. chains' = chains /\ current' = current
    BY <1>14 DEF TryInsertWrite, poolVars
  <2>4. GoodProc(inserter)'
    BY <2>1, <2>2, <2>3 DEF GoodProc, ProcTypeOK, ProcShape, HasPool
  <2> QED
    BY <2>1, <2>2, <2>3, <2>4, SetInserter
<1>15. CASE TryInsertRefuse
  BY <1>15, SetInserter, IdleGood DEF TryInsertRefuse, Idle
<1>16. CASE TryInsertNotify
  <2>1. inserter \in Proc /\ inserter.pc = "put" /\ GoodProc(inserter)
        /\ inserter.block \in ABlock /\ HasPool(Body[inserter.block].signer)
        /\ inserter.chain \in 1..Len(chains[Body[inserter.block].signer])
    BY <1>16 DEF TryInsertNotify, ProcsOK, GoodProc, ProcTypeOK
  <2>2. inserter' \in Proc /\ inserter'.pc = "next" /\ inserter'.block = inserter.block
        /\ inserter'.chain = inserter.chain /\ caller' = caller
    BY <1>16, <2>1 DEF TryInsertNotify, Proc
  <2>3. PICK a \in Account : a = Body[inserter.block].signer
    BY <2>1, BlockFacts
  <2>4. inserter.chain \in 1..Len(chains'[a]) /\ HasPool(a)'
    BY <2>1, <2>3 DEF Grown
  <2>5. GoodProc(inserter)'
    BY <2>1, <2>2, <2>3, <2>4 DEF GoodProc, ProcTypeOK, ProcShape
  <2> QED
    BY <2>2, <2>3, <2>4, <2>5, SetInserter
<1>17. CASE SnapshotInsert
  BY <1>17, KeptProcs DEF SnapshotInsert, goVars
<1>18. CASE SnapshotPending
  BY <1>18, KeptProcs DEF SnapshotPending, goVars
<1>19. CASE SnapshotFail
  BY <1>19, KeptProcs DEF SnapshotFail, goVars
<1>20. CASE \E br \in DOMAIN Branch : SnapshotFork(br)
  BY <1>20, KeptProcs DEF SnapshotFork, goVars
<1>21. CASE \E a \in Account : UnLockAccount(a)
  BY <1>21, KeptProcs DEF UnLockAccount, goVars
<1>22. CASE \E a \in Account : Rollback(a)
  BY <1>22, KeptProcs DEF Rollback, goVars
<1>23. CASE ForkAccounts
  BY <1>23, KeptProcs DEF ForkAccounts, goVars
<1>24. CASE WaitRollback
  BY <1>24, KeptProcs DEF WaitRollback, goVars
<1>25. CASE RollbackBlock
  BY <1>25, KeptProcs DEF RollbackBlock, goVars
<1>26. CASE RollbackEnd
  BY <1>26, KeptProcs DEF RollbackEnd, goVars
<1>27. CASE ForkKeys
  BY <1>27, KeptProcs DEF ForkKeys, goVars
<1>28. CASE ForkAccountTo
  BY <1>28, KeptProcs DEF ForkAccountTo, goVars
<1>29. CASE ModifyCheck
  BY <1>29, KeptProcs DEF ModifyCheck, goVars
<1>30. CASE ModifyRefer
  BY <1>30, KeptProcs DEF ModifyRefer, goVars
<1>31. CASE ModifyCurrent
  BY <1>31, KeptProcs DEF ModifyCurrent, goVars
<1>32. CASE FailEnd
  BY <1>32, KeptProcs DEF FailEnd, goVars
<1>33. CASE ForkEnd
  BY <1>33, KeptProcs DEF ForkEnd, goVars
<1>34. CASE \E p \in Procs : NotifyPanics(p)
  BY <1>34, KeptProcs DEF NotifyPanics, goVars
<1>35. CASE \E a \in Account : TryInsertEnd(a)
  BY <1>35, SetInserter, IdleGood DEF TryInsertEnd, Idle
<1> QED
  BY <1>1, <1>2, <1>3, <1>4, <1>5, <1>6, <1>7, <1>8, <1>9, <1>10, <1>11, <1>12,
     <1>13, <1>14, <1>15, <1>16, <1>17, <1>18, <1>19, <1>20, <1>21, <1>22, <1>23,
     <1>24, <1>25, <1>26, <1>27, <1>28, <1>29, <1>30, <1>31, <1>32, <1>33, <1>34,
     <1>35
  DEF Next, Pools, Callers, Inserter, Snapshots, Forks

-----------------------------------------------------------------------------
(***************************************************************************)
(* A fork of accounts: whoever is in the middle of one has the account and *)
(* the chain that its next step works on.                                  *)
(***************************************************************************)
LEMMA NoTasksType == NoTasks \in [Account -> BlockOrNil]
BY DEF NoTasks, BlockOrNil

LEMMA AccountsType ==
    ASSUME NEW sb \in SBlock, NEW h \in Range(SBody[sb].accounts)
    PROVE  h \in KeyRec
<1>1. SBody[sb].accounts \in Seq(KeyRec)
  BY BodyAssumption DEF KeyRec
<1>2. h \in KeyRec
  BY <1>1 DEF Range
<1> QED
  BY <1>2

LEMMA NoForkGood ==
    ASSUME snap' = NoFork
    PROVE  ForkTypeOK'
<1>1. NoFork \in Fork
  <2>1. <<>> \in Keys
    BY DEF Keys
  <2> QED
    BY <2>1, NoTasksType, BodyAssumption DEF NoFork, Fork
<1> QED
  BY <1>1 DEF ForkTypeOK, NoFork

\* The same fork goes on, and no chain was dropped.
LEMMA SameFork ==
    ASSUME LedgerTypeOK, Grown, snap' \in Fork, version' = version,
           snap'.pc = snap.pc, snap'.br = snap.br, snap'.n = snap.n,
           snap'.keys = snap.keys, snap'.chain = snap.chain,
           snap'.acc = snap.acc, snap'.wait = snap.wait
    PROVE  ForkTypeOK'
<1>1. ForkTypeOK
  BY DEF LedgerTypeOK
<1>2. snap.pc = "rollback" => /\ snap.acc \in Account /\ HasPool(snap.acc)'
                              /\ snap.wait[snap.acc] # Nil
  BY <1>1 DEF ForkTypeOK, Grown
<1>3. ASSUME snap.chain # 0
      PROVE  snap.keys # <<>> /\ snap.chain \in 1..Len(chains'[Key.addr])
  <2>1. snap.keys # <<>> /\ snap.chain \in 1..Len(chains[Key.addr])
    BY <1>1, <1>3 DEF ForkTypeOK
  <2>2. PICK a \in Account : a = Key.addr
    BY <2>1, KeyFacts
  <2>3. Len(chains[a]) \in Nat /\ Len(chains'[a]) \in Nat /\ Len(chains[a]) <= Len(chains'[a])
    BY DEF Grown
  <2> QED
    BY <2>1, <2>2, <2>3
<1>4. Key' = Key
  BY DEF Key
<1> QED
  BY <1>1, <1>2, <1>3, <1>4 DEF ForkTypeOK

LEMMA KeptFork ==
    ASSUME LedgerTypeOK, Grown, UNCHANGED <<snap, version>>
    PROVE  ForkTypeOK'
BY SameFork DEF LedgerTypeOK, ForkTypeOK

LEMMA KeyDoneType ==
    ASSUME NEW s \in Fork, NEW t \in Keys
    PROVE  [s EXCEPT !.pc = "key", !.keys = t, !.chain = 0] \in Fork
BY DEF Fork

LEMMA KeyDoneGood ==
    ASSUME LedgerTypeOK, Tail(snap.keys) \in Keys, snap.pc # "idle",
           snap' = KeyDone, version' = version
    PROVE  ForkTypeOK'
<1>2. snap \in Fork
  BY DEF LedgerTypeOK, ForkTypeOK
<1>3. PICK t \in Keys :
          snap' = [snap EXCEPT !.pc = "key", !.keys = t, !.chain = 0]
  BY DEF KeyDone
<1>4. snap' \in Fork
  <2>1. [snap EXCEPT !.pc = "key", !.keys = t, !.chain = 0] \in Fork
    BY <1>2, KeyDoneType
  <2> QED
    BY <1>3, <2>1
<1>5. snap'.pc = "key" /\ snap'.br = snap.br /\ snap'.n = snap.n /\ snap'.chain = 0
  BY <1>2, <1>3 DEF Fork
<1> QED
  BY <1>4, <1>5 DEF LedgerTypeOK, ForkTypeOK

LEMMA CurrentFacts ==
    ASSUME PoolOK, NEW a \in Account, HasPool(a)
    PROVE  /\ current[a] \in 1..Len(chains[a])
           /\ Current(a) \in ChainRec /\ Current(a) = chains[a][current[a]]
<1>1. current[a] \in 1..Len(chains[a]) /\ chains[a] \in Seq(ChainRec)
  BY DEF PoolOK, PoolTypeOK, HasPool
<1> QED
  BY <1>1 DEF Current

\* A nonempty set of blocks has a lowest one.
LEMMA LowestBlock ==
    ASSUME NEW S \in SUBSET ABlock, S # {}
    PROVE  \E r \in S : \A q \in S : BlockHeight[r] <= BlockHeight[q]
<1> DEFINE H == {BlockHeight[x] : x \in S}
<1>1. H \subseteq 0..MaxHeight /\ H # {}
  BY BlockFacts DEF Height
<1>2. Min(H) \in H /\ \A y \in H : Min(H) <= y
  <2> HIDE DEF H
  <2>1. 0 \in Int /\ MaxHeight \in Int
    BY BodyAssumption
  <2> QED
    BY <1>1, <2>1, MinOfInterval
<1>3. PICK r \in S : BlockHeight[r] = Min(H)
  BY <1>2
<1> QED
  BY <1>2, <1>3

LEMMA NextTasksType ==
    ASSUME DiskOK, NEW tasks,
           \A x \in SendsOf(tasks) : Receipt(Body[x].to, x).block # Nil
    PROVE  NextTasks(tasks) \in [Account -> BlockOrNil]
<1>1. ASSUME NEW a \in Account, ReceiptsOf(tasks, a) # {}
      PROVE  (CHOOSE r \in ReceiptsOf(tasks, a) :
                  \A q \in ReceiptsOf(tasks, a) : BlockHeight[r] <= BlockHeight[q]) \in ABlock
  <2>1. \A x : Receipt(a, x).block \in BlockOrNil
    BY AtHeightFacts DEF Receipt, DiskOK, DiskTypeOK, BlockOrNil
  <2>2. ReceiptsOf(tasks, a) \subseteq ABlock
    BY <2>1 DEF ReceiptsOf, BlockOrNil
  <2> QED
    BY <1>1, <2>2, LowestBlock
<1> QED
  BY <1>1 DEF NextTasks, BlockOrNil

LEMMA ForkStep ==
    ASSUME LedgerTypeOK, ForkTypeOK, DiskOK, PoolOK, Grown, Next
    PROVE  ForkTypeOK'
<1>1. CASE \E a \in Account : SelfPendingAc(a)
  BY <1>1, KeptFork DEF SelfPendingAc, goVars
<1>2. CASE \E a \in Account : SelfAcMiss(a)
  BY <1>2, KeptFork DEF SelfAcMiss, goVars
<1>3. CASE \E a \in Account : SelfAcStore(a)
  BY <1>3, KeptFork DEF SelfAcStore, goVars
<1>4. CASE \E b \in ABlock : CompactExtend(b)
  BY <1>4, KeptFork DEF CompactExtend, goVars
<1>5. CASE \E b \in ABlock : CompactFork(b)
  BY <1>5, KeptFork DEF CompactFork, goVars
<1>6. CASE \E g \in Caller : \E b \in Local : MakeBlock(g, b)
  BY <1>6, KeptFork DEF MakeBlock, goVars
<1>7. CASE \E g \in Caller : AddDirectVerify(g)
  BY <1>7, KeptFork DEF AddDirectVerify, goVars
<1>8. CASE \E g \in Caller : AddDirectInsert(g)
  BY <1>8, KeptFork DEF AddDirectInsert, goVars
<1>9. CASE \E g \in Caller : AddDirectRefuse(g)
  BY <1>9, KeptFork DEF AddDirectRefuse, goVars
<1>10. CASE \E g \in Caller : AddDirectNotify(g)
  BY <1>10, KeptFork DEF AddDirectNotify, goVars
<1>11. CASE \E a \in Account : TryInsertPanics(a)
  BY <1>11, KeptFork DEF TryInsertPanics, goVars
<1>12. CASE \E a \in Account : TryInsertVerify(a)
  BY <1>12, KeptFork DEF TryInsertVerify, goVars
<1>13. CASE \E a \in Account : TryInsertPending(a)
  BY <1>13, KeptFork DEF TryInsertPending, goVars
<1>14. CASE TryInsertWrite
  BY <1>14, KeptFork DEF TryInsertWrite, goVars
<1>15. CASE TryInsertRefuse
  BY <1>15, KeptFork DEF TryInsertRefuse, goVars
<1>16. CASE TryInsertNotify
  BY <1>16, KeptFork DEF TryInsertNotify, goVars
<1>17. CASE SnapshotInsert
  BY <1>17, KeptFork DEF SnapshotInsert, goVars
<1>18. CASE SnapshotPending
  BY <1>18, KeptFork DEF SnapshotPending, goVars
<1>19. CASE SnapshotFail
  <2>1. PICK h \in Range(SBody[NextSnapshot].accounts) :
            snap' = [NoFork EXCEPT !.pc = "key", !.keys = <<h>>]
    BY <1>19 DEF SnapshotFail
  <2>2. stail < Len(Branch[branch]) /\ version < MaxVersion /\ version' = version
    BY <1>19 DEF SnapshotFail, CanSnapshot
  <2>3. h \in KeyRec
    BY <2>2, NextSnapshotFacts, AccountsType
  <2>4. <<h>> \in Keys
    BY <2>3 DEF Keys
  <2>5. snap' = [pc |-> "key", br |-> 0, n |-> 0, todo |-> {}, keys |-> <<h>>, chain |-> 0,
                 tasks |-> NoTasks, wait |-> NoTasks, acc |-> Nil, height |-> 0]
    BY <2>1 DEF NoFork
  <2>6. snap' \in Fork
    BY <2>4, <2>5, NoTasksType, BodyAssumption DEF Fork
  <2> QED
    BY <2>2, <2>5, <2>6 DEF ForkTypeOK
<1>20. ASSUME NEW br \in DOMAIN Branch, SnapshotFork(br)
       PROVE  ForkTypeOK'
  <2>1. SnapshotFork(br)
    BY <1>20
  <2>2. PICK n \in 0..Len(Branch[br]) :
            /\ ForkPoint(br, n)
            /\ snap' = [NoFork EXCEPT !.pc = "unlock", !.br = br, !.n = n,
                                      !.todo = {a \in Account : UnlockHeights(a, n) # {}},
                                      !.keys = SBody[Branch[br][n + 1]].accounts]
    BY <2>1 DEF SnapshotFork
  <2>3. br \in Nat /\ br # 0 /\ Branch[br] \in Seq(SBlock) /\ Len(Branch[br]) \in Nat
    BY LedgerAssumption
  <2>4. n + 1 \in DOMAIN Branch[br] /\ n \in Nat
    BY <2>2, <2>3 DEF ForkPoint
  <2>5. n < Len(Branch[br]) /\ Branch[br][n + 1] \in SBlock
    BY <2>3, <2>4
  <2>6. SBody[Branch[br][n + 1]].accounts \in Keys
    BY <2>5, BodyAssumption DEF Keys, KeyRec
  <2>7. version < MaxVersion /\ version' = version
    BY <2>1 DEF SnapshotFork
  <2>8. PICK T \in SUBSET Account : T = {a \in Account : UnlockHeights(a, n) # {}}
    OBVIOUS
  <2>9. snap' = [pc |-> "unlock", br |-> br, n |-> n, todo |-> T,
                 keys |-> SBody[Branch[br][n + 1]].accounts, chain |-> 0,
                 tasks |-> NoTasks, wait |-> NoTasks, acc |-> Nil, height |-> 0]
    BY <2>2, <2>8 DEF NoFork
  <2>10. snap' \in Fork
    BY <2>3, <2>4, <2>6, <2>9, NoTasksType, BodyAssumption DEF Fork
  <2> QED
    BY <2>5, <2>7, <2>9, <2>10 DEF ForkTypeOK
<1>21. CASE \E a \in Account : UnLockAccount(a)
  <2>1. PICK a \in Account : UnLockAccount(a)
    BY <1>21
  <2>2. snap.pc = "unlock" /\ chains' = chains /\ version' = version
        /\ (snap' = NoFork \/ snap' = [snap EXCEPT !.todo = @ \ {a}])
    BY <2>1 DEF UnLockAccount, poolVars
  <2>3. CASE snap' = [snap EXCEPT !.todo = @ \ {a}]
    <3>1. snap' \in Fork /\ snap'.pc = snap.pc /\ snap'.br = snap.br /\ snap'.n = snap.n
          /\ snap'.keys = snap.keys /\ snap'.chain = snap.chain
      BY <2>3 DEF ForkTypeOK, Fork
    <3> QED
      BY <2>2, <3>1 DEF ForkTypeOK, Key
  <2> QED
    BY <2>2, <2>3, NoForkGood
<1>22. CASE \E a \in Account : Rollback(a)
  <2>1. PICK a \in Account : Rollback(a)
    BY <1>22
  <2>2. Current(a).tailHeight \in -1..MaxHeight
    BY <2>1, CurrentFacts DEF Rollback, ChainRec
  <2>3. /\ snap.pc = "wait" /\ snap.wait[a] # Nil /\ HasPool(a)
        /\ version' = version /\ chains' = chains /\ current' = current
        /\ snap' = [snap EXCEPT !.pc = "rollback", !.acc = a, !.height = Current(a).tailHeight]
    BY <2>1 DEF Rollback, dataVars, poolVars
  <2>4. snap' \in Fork /\ snap'.pc = "rollback" /\ snap'.br = snap.br /\ snap'.n = snap.n
        /\ snap'.keys = snap.keys /\ snap'.chain = snap.chain
        /\ snap'.acc = a /\ snap'.wait = snap.wait
    BY <2>2, <2>3 DEF ForkTypeOK, Fork
  <2> QED
    BY <2>3, <2>4 DEF ForkTypeOK, Key, HasPool
<1>23. CASE ForkAccounts
  <2> DEFINE tasks == [a \in Account |-> IF a \in Touched(snap.n)
                                         THEN AboveSnapshotHeight(a, snap.n) ELSE Nil]
  <2>1. tasks \in [Account -> BlockOrNil]
    <3>1. \A a \in Account : AboveSnapshotHeight(a, snap.n) \in BlockOrNil
      BY AtHeightFacts DEF AboveSnapshotHeight, DiskOK, DiskTypeOK, BlockOrNil
    <3> QED
      BY <3>1 DEF BlockOrNil
  <2>2. snap.pc = "unlock" /\ version' = version /\ chains' = chains
        /\ (snap' = snap \/ snap' = [snap EXCEPT !.pc = "wait", !.tasks = tasks])
    BY <1>23 DEF ForkAccounts, poolVars
  <2> HIDE DEF tasks
  <2>3. CASE snap' = [snap EXCEPT !.pc = "wait", !.tasks = tasks]
    <3>1. snap' \in Fork /\ snap'.pc = "wait" /\ snap'.br = snap.br /\ snap'.n = snap.n
          /\ snap'.keys = snap.keys /\ snap'.chain = snap.chain
      BY <2>1, <2>3 DEF ForkTypeOK, Fork
    <3> QED
      BY <2>2, <3>1 DEF ForkTypeOK, Key
  <2> QED
    BY <2>2, <2>3, KeptFork
<1>24. CASE WaitRollback
  <2>1. snap.pc = "wait" /\ version' = version /\ chains' = chains
        /\ \/ snap' = snap
           \/ /\ \A x \in SendsOf(snap.tasks) : Receipt(Body[x].to, x).block # Nil
              /\ snap' = [snap EXCEPT !.wait = TakenOver(@, snap.tasks), !.tasks = NextTasks(@)]
    BY <1>24 DEF WaitRollback, poolVars
  <2>2. CASE /\ \A x \in SendsOf(snap.tasks) : Receipt(Body[x].to, x).block # Nil
             /\ snap' = [snap EXCEPT !.wait = TakenOver(@, snap.tasks), !.tasks = NextTasks(@)]
    <3>1. snap.tasks \in [Account -> BlockOrNil] /\ snap.wait \in [Account -> BlockOrNil]
      BY DEF ForkTypeOK, Fork
    <3>2. PICK t \in [Account -> BlockOrNil] : t = NextTasks(snap.tasks)
      BY <2>2, NextTasksType
    <3>3. PICK w \in [Account -> BlockOrNil] : w = TakenOver(snap.wait, snap.tasks)
      BY <3>1 DEF TakenOver
    <3>4. snap' = [snap EXCEPT !.wait = w, !.tasks = t]
      BY <2>2, <3>2, <3>3
    <3>5. snap' \in Fork /\ snap'.pc = snap.pc /\ snap'.br = snap.br /\ snap'.n = snap.n
          /\ snap'.keys = snap.keys /\ snap'.chain = snap.chain
      BY <3>4 DEF ForkTypeOK, Fork
    <3> QED
      BY <2>1, <3>5 DEF ForkTypeOK, Key
  <2> QED
    BY <2>1, <2>2, KeptFork
<1>25. CASE RollbackBlock
  <2>1. Removable /\ version' = version /\ current' = current
        /\ (snap' = snap \/ snap' = [snap EXCEPT !.height = @ - 1])
    BY <1>25 DEF RollbackBlock
  <2>2. CASE snap' = [snap EXCEPT !.height = @ - 1]
    <3>1. snap.height \in Height /\ snap.height >= 1
      BY <2>1, VictimFacts
    <3>2. snap.height - 1 \in -1..MaxHeight
      BY <3>1, BodyAssumption DEF Height
    <3>3. snap' \in Fork /\ snap'.pc = snap.pc /\ snap'.br = snap.br /\ snap'.n = snap.n
          /\ snap'.keys = snap.keys /\ snap'.chain = snap.chain
          /\ snap'.acc = snap.acc /\ snap'.wait = snap.wait
      BY <2>2, <3>2 DEF ForkTypeOK, Fork
    <3> QED
      BY <2>1, <3>3, SameFork
  <2> QED
    BY <2>1, <2>2, KeptFork
<1>26. CASE RollbackEnd
  <2>1. snap.pc = "rollback" /\ version' = version /\ chains' = chains
        /\ (\/ snap' = snap \/ snap' = NoFork
            \/ snap' = [snap EXCEPT !.pc = "wait", !.wait = [@ EXCEPT ![snap.acc] = Nil]])
    BY <1>26 DEF RollbackEnd, Ended, poolVars
  <2>2. CASE snap' = [snap EXCEPT !.pc = "wait", !.wait = [@ EXCEPT ![snap.acc] = Nil]]
    <3>1. PICK w \in [Account -> BlockOrNil] : w = [snap.wait EXCEPT ![snap.acc] = Nil]
      BY DEF ForkTypeOK, Fork, BlockOrNil
    <3>2. snap' = [snap EXCEPT !.pc = "wait", !.wait = w]
      BY <2>2, <3>1 DEF ForkTypeOK, Fork
    <3>3. snap' \in Fork /\ snap'.pc = "wait" /\ snap'.br = snap.br /\ snap'.n = snap.n
          /\ snap'.keys = snap.keys /\ snap'.chain = snap.chain
      BY <3>2 DEF ForkTypeOK, Fork
    <3> QED
      BY <2>1, <3>3 DEF ForkTypeOK, Key
  <2> QED
    BY <2>1, <2>2, KeptFork, NoForkGood
<1>27. CASE ForkKeys
  <2>1. snap.pc = "wait" /\ version' = version /\ chains' = chains
        /\ snap' = [snap EXCEPT !.pc = "key"]
    BY <1>27 DEF ForkKeys, RolledBack, dataVars, poolVars
  <2>2. snap' \in Fork /\ snap'.pc = "key" /\ snap'.br = snap.br /\ snap'.n = snap.n
        /\ snap'.keys = snap.keys /\ snap'.chain = snap.chain
    BY <2>1 DEF ForkTypeOK, Fork
  <2> QED
    BY <2>1, <2>2 DEF ForkTypeOK, Key
<1>28. CASE ForkAccountTo
  <2>1. PICK a \in Account : a = Key.addr
    BY <1>28, KeyFacts DEF ForkAccountTo
  <2>2. snap.pc = "key" /\ snap.keys # <<>> /\ version' = version /\ chains' = chains
    BY <1>28 DEF ForkAccountTo, poolVars
  <2>3. PICK c \in WhichChain(Key) :
            \/ snap' = snap
            \/ snap' = IF c \in {0, current[a]} \/ ForkBlock(a, c) \notin ABlock THEN KeyDone
                       ELSE [snap EXCEPT !.pc = "wait", !.chain = c,
                                         !.tasks = [NoTasks EXCEPT ![a] = ForkBlock(a, c)]]
    BY <1>28, <2>1 DEF ForkAccountTo
  <2>4. PICK point : point = ForkBlock(a, c)
    OBVIOUS
  <2>5. CASE /\ c \notin {0, current[a]} /\ point \in ABlock
             /\ snap' = [snap EXCEPT !.pc = "wait", !.chain = c,
                                     !.tasks = [NoTasks EXCEPT ![a] = point]]
    <3>1. c \in 1..Len(chains[a]) /\ c \in Nat /\ Len(chains[a]) \in Nat
      BY <2>1, <2>3, <2>5 DEF WhichChain, InChains, PoolOK, PoolTypeOK
    <3>3. PICK t \in [Account -> BlockOrNil] : t = [NoTasks EXCEPT ![a] = point]
      BY <2>5, NoTasksType DEF BlockOrNil
    <3>4. snap' = [snap EXCEPT !.pc = "wait", !.chain = c, !.tasks = t]
      BY <2>5, <3>3
    <3>5. snap' \in Fork /\ snap'.pc = "wait" /\ snap'.br = snap.br /\ snap'.n = snap.n
          /\ snap'.keys = snap.keys /\ snap'.chain = c
      BY <3>1, <3>4 DEF ForkTypeOK, Fork
    <3> QED
      BY <2>1, <2>2, <3>1, <3>5 DEF ForkTypeOK, Key
  <2>6. CASE snap' = snap
    BY <2>2, <2>6, KeptFork
  <2> QED
    BY <2>2, <2>3, <2>4, <2>5, <2>6, KeyDoneGood, KeyFacts
<1>29. CASE ModifyCheck
  <2>1. snap.pc = "wait" /\ snap.chain # 0 /\ version' = version /\ chains' = chains
        /\ (snap' = [snap EXCEPT !.pc = "refer"] \/ snap' = KeyDone)
    BY <1>29 DEF ModifyCheck, RolledBack, dataVars, poolVars
  <2>2. snap.keys # <<>>
    BY <2>1 DEF ForkTypeOK
  <2>3. CASE snap' = [snap EXCEPT !.pc = "refer"]
    <3>1. snap' \in Fork /\ snap'.pc = "refer" /\ snap'.br = snap.br /\ snap'.n = snap.n
          /\ snap'.keys = snap.keys /\ snap'.chain = snap.chain
      BY <2>3 DEF ForkTypeOK, Fork
    <3> QED
      BY <2>1, <3>1 DEF ForkTypeOK, Key
  <2> QED
    BY <2>1, <2>2, <2>3, KeyDoneGood, KeyFacts
<1>30. CASE ModifyRefer
  BY <1>30, KeptFork DEF ModifyRefer, goVars
<1>31. CASE ModifyCurrent
  <2>1. snap.pc = "refer" /\ version' = version /\ snap' = KeyDone
    BY <1>31 DEF ModifyCurrent
  <2>2. snap.keys # <<>>
    BY <2>1 DEF ForkTypeOK
  <2> QED
    BY <2>1, <2>2, KeyDoneGood, KeyFacts
<1>32. CASE FailEnd
  BY <1>32, NoForkGood DEF FailEnd
<1>33. CASE ForkEnd
  BY <1>33, NoForkGood DEF ForkEnd
<1>34. CASE \E p \in Procs : NotifyPanics(p)
  BY <1>34, KeptFork DEF NotifyPanics, goVars
<1>35. CASE \E a \in Account : TryInsertEnd(a)
  BY <1>35, KeptFork DEF TryInsertEnd, goVars
<1> QED
  BY <1>1, <1>2, <1>3, <1>4, <1>5, <1>6, <1>7, <1>8, <1>9, <1>10, <1>11, <1>12,
     <1>13, <1>14, <1>15, <1>16, <1>17, <1>18, <1>19, <1>20, <1>21, <1>22, <1>23,
     <1>24, <1>25, <1>26, <1>27, <1>28, <1>29, <1>30, <1>31, <1>32, <1>33, <1>34,
     <1>35
  DEF Next, Pools, Callers, Inserter, Snapshots, Forks

-----------------------------------------------------------------------------
(***************************************************************************)
(* The snapshot chain's tail stays on the branch and on the disk.          *)
(***************************************************************************)
RestOK ==
    /\ version \in 0..MaxVersion /\ branch \in DOMAIN Branch
    /\ stail \in 0..Len(Branch[branch]) /\ stail <= Len(sdisk) /\ tailed \in BOOLEAN

LEMMA RestStep ==
    ASSUME LedgerTypeOK, Next
    PROVE  RestOK'
<1>1. CASE \E a \in Account : SelfPendingAc(a)
  BY <1>1 DEF SelfPendingAc, RestOK, LedgerTypeOK, goVars, dataVars
<1>2. CASE \E a \in Account : SelfAcMiss(a)
  BY <1>2 DEF SelfAcMiss, RestOK, LedgerTypeOK, goVars, dataVars
<1>3. CASE \E a \in Account : SelfAcStore(a)
  BY <1>3 DEF SelfAcStore, RestOK, LedgerTypeOK, goVars, dataVars
<1>4. CASE \E b \in ABlock : CompactExtend(b)
  BY <1>4 DEF CompactExtend, RestOK, LedgerTypeOK, goVars, dataVars
<1>5. CASE \E b \in ABlock : CompactFork(b)
  BY <1>5 DEF CompactFork, RestOK, LedgerTypeOK, goVars, dataVars
<1>6. CASE \E g \in Caller : \E b \in Local : MakeBlock(g, b)
  BY <1>6 DEF MakeBlock, RestOK, LedgerTypeOK, goVars, dataVars
<1>7. CASE \E g \in Caller : AddDirectVerify(g)
  BY <1>7 DEF AddDirectVerify, RestOK, LedgerTypeOK, goVars, dataVars
<1>8. CASE \E g \in Caller : AddDirectInsert(g)
  BY <1>8 DEF AddDirectInsert, RestOK, LedgerTypeOK, goVars, dataVars
<1>9. CASE \E g \in Caller : AddDirectRefuse(g)
  BY <1>9 DEF AddDirectRefuse, RestOK, LedgerTypeOK, goVars, dataVars
<1>10. CASE \E g \in Caller : AddDirectNotify(g)
  BY <1>10 DEF AddDirectNotify, RestOK, LedgerTypeOK, goVars, dataVars
<1>11. CASE \E a \in Account : TryInsertPanics(a)
  BY <1>11 DEF TryInsertPanics, RestOK, LedgerTypeOK, goVars, dataVars
<1>12. CASE \E a \in Account : TryInsertVerify(a)
  BY <1>12 DEF TryInsertVerify, RestOK, LedgerTypeOK, goVars, dataVars
<1>13. CASE \E a \in Account : TryInsertPending(a)
  BY <1>13 DEF TryInsertPending, RestOK, LedgerTypeOK, goVars, dataVars
<1>14. CASE TryInsertWrite
  BY <1>14 DEF TryInsertWrite, RestOK, LedgerTypeOK, goVars, dataVars
<1>15. CASE TryInsertRefuse
  BY <1>15 DEF TryInsertRefuse, RestOK, LedgerTypeOK, goVars, dataVars
<1>16. CASE TryInsertNotify
  BY <1>16 DEF TryInsertNotify, RestOK, LedgerTypeOK, goVars, dataVars
<1>17. CASE SnapshotInsert
  <2>1. stail < Len(Branch[branch]) /\ InsertSnapshotBlock(NextSnapshot)
        /\ stail' = (IF Refused(NextSnapshot) = {} THEN stail + 1 ELSE stail)
        /\ version' = version /\ branch' = branch /\ tailed' \in BOOLEAN
    BY <1>17 DEF SnapshotInsert, CanSnapshot
  <2>2. SHeight(NextSnapshot) = stail + 1 /\ NextSnapshot \in SBlock
    BY <2>1, NextSnapshotFacts
  <2>3. stail \in Nat /\ sdisk \in Seq(SBlock) /\ stail <= Len(sdisk)
        /\ Len(Branch[branch]) \in Nat /\ branch \in DOMAIN Branch
    BY LedgerAssumption DEF LedgerTypeOK, DiskTypeOK
  <2>4. sdisk' = Append(SubSeq(sdisk, 1, stail), NextSnapshot)
    BY <2>1, <2>2, <2>3 DEF InsertSnapshotBlock
  <2>5. Len(sdisk') = stail + 1
    <3>1. SubSeq(sdisk, 1, stail) \in Seq(SBlock) /\ Len(SubSeq(sdisk, 1, stail)) = stail
      BY <2>3
    <3> QED
      BY <2>2, <2>4, <3>1
  <2>6. stail' \in 0..Len(Branch[branch]) /\ stail' <= Len(sdisk')
    BY <2>1, <2>3, <2>5
  <2> QED
    BY <2>1, <2>3, <2>6 DEF RestOK, LedgerTypeOK
<1>18. CASE SnapshotPending
  BY <1>18 DEF SnapshotPending, RestOK, LedgerTypeOK, goVars, dataVars
<1>19. CASE SnapshotFail
  BY <1>19 DEF SnapshotFail, RestOK, LedgerTypeOK, goVars, dataVars
<1>20. CASE \E br \in DOMAIN Branch : SnapshotFork(br)
  BY <1>20 DEF SnapshotFork, RestOK, LedgerTypeOK, goVars, dataVars
<1>21. CASE \E a \in Account : UnLockAccount(a)
  BY <1>21 DEF UnLockAccount, RestOK, LedgerTypeOK, goVars, dataVars
<1>22. CASE \E a \in Account : Rollback(a)
  BY <1>22 DEF Rollback, RestOK, LedgerTypeOK, goVars, dataVars
<1>23. CASE ForkAccounts
  BY <1>23 DEF ForkAccounts, RestOK, LedgerTypeOK, goVars, dataVars
<1>24. CASE WaitRollback
  BY <1>24 DEF WaitRollback, RestOK, LedgerTypeOK, goVars, dataVars
<1>25. CASE RollbackBlock
  BY <1>25 DEF RollbackBlock, RestOK, LedgerTypeOK, goVars, dataVars
<1>26. CASE RollbackEnd
  BY <1>26 DEF RollbackEnd, RestOK, LedgerTypeOK, goVars, dataVars
<1>27. CASE ForkKeys
  BY <1>27 DEF ForkKeys, RestOK, LedgerTypeOK, goVars, dataVars
<1>28. CASE ForkAccountTo
  BY <1>28 DEF ForkAccountTo, RestOK, LedgerTypeOK, goVars, dataVars
<1>29. CASE ModifyCheck
  BY <1>29 DEF ModifyCheck, RestOK, LedgerTypeOK, goVars, dataVars
<1>30. CASE ModifyRefer
  BY <1>30 DEF ModifyRefer, RestOK, LedgerTypeOK, goVars, dataVars
<1>31. CASE ModifyCurrent
  BY <1>31 DEF ModifyCurrent, RestOK, LedgerTypeOK, goVars, dataVars
<1>32. CASE FailEnd
  <2>1. version < MaxVersion
    BY <1>32 DEF FailEnd, LedgerTypeOK, ForkTypeOK
  <2> QED
    BY <1>32, <2>1, LedgerAssumption DEF FailEnd, RestOK, LedgerTypeOK, dataVars
<1>33. CASE ForkEnd
  <2>1. version < MaxVersion /\ snap.br \in DOMAIN Branch /\ snap.n < Len(Branch[snap.br])
        /\ snap.n \in Nat /\ Len(Branch[snap.br]) \in Nat
    BY <1>33, LedgerAssumption DEF ForkEnd, LedgerTypeOK, ForkTypeOK, Fork
  <2>2. /\ version \in 0..MaxVersion /\ sdisk \in Seq(SBlock) /\ Len(sdisk) \in Nat
        /\ stail \in Nat /\ stail <= Len(sdisk)
        /\ branch \in DOMAIN Branch /\ stail \in 0..Len(Branch[branch]) /\ tailed \in BOOLEAN
    BY DEF LedgerTypeOK, DiskTypeOK
  <2>3. CASE snap.n >= stail /\ (Len(sdisk) # stail \/ ~tailed)
    BY <1>33, <2>2, <2>3 DEF ForkEnd, RestOK
  <2>4. CASE ~(snap.n >= stail /\ (Len(sdisk) # stail \/ ~tailed))
    <3>1. /\ sdisk' = (IF snap.n < Len(sdisk) THEN SubSeq(sdisk, 1, snap.n) ELSE sdisk)
          /\ version' = version + 1
          /\ branch' = snap.br
          /\ stail' = (IF snap.n < stail THEN snap.n ELSE stail)
          /\ tailed' \in BOOLEAN
      BY <1>33, <2>4 DEF ForkEnd
    <3>2. Len(sdisk') = IF snap.n < Len(sdisk) THEN snap.n ELSE Len(sdisk)
      BY <2>1, <2>2, <3>1
    <3>3. stail' \in 0..Len(Branch[snap.br]) /\ stail' <= Len(sdisk')
      BY <2>1, <2>2, <2>4, <3>1, <3>2
    <3>4. version' \in 0..MaxVersion
      BY <2>1, <2>2, <3>1, LedgerAssumption
    <3> QED
      BY <2>1, <3>1, <3>3, <3>4 DEF RestOK
  <2> QED
    BY <2>3, <2>4
<1>34. CASE \E p \in Procs : NotifyPanics(p)
  BY <1>34 DEF NotifyPanics, RestOK, LedgerTypeOK, goVars, dataVars
<1>35. CASE \E a \in Account : TryInsertEnd(a)
  BY <1>35 DEF TryInsertEnd, RestOK, LedgerTypeOK, goVars, dataVars
<1> QED
  BY <1>1, <1>2, <1>3, <1>4, <1>5, <1>6, <1>7, <1>8, <1>9, <1>10, <1>11, <1>12,
     <1>13, <1>14, <1>15, <1>16, <1>17, <1>18, <1>19, <1>20, <1>21, <1>22, <1>23,
     <1>24, <1>25, <1>26, <1>27, <1>28, <1>29, <1>30, <1>31, <1>32, <1>33, <1>34,
     <1>35
  DEF Next, Pools, Callers, Inserter, Snapshots, Forks

\* The parts of the invariant, as the steps above use them.
LEMMA TypeParts == TypeInv <=> /\ DiskOK /\ PoolOK /\ ForkTypeOK /\ ProcsOK /\ RestOK
BY DEF TypeInv, LedgerTypeOK, DiskOK, PoolOK, ProcsOK, GoodProc, RestOK

LEMMA TypeInit ==
    ASSUME Init
    PROVE  TypeInv
<1>1. DiskOK
  <2>1. /\ head = GenesisOf
        /\ byHeight = [a \in Account |-> [h \in Height |-> IF h = 0 THEN GenesisOf[a] ELSE Nil]]
        /\ points = [a \in Account |-> <<>>] /\ inMap = {}
        /\ byHash = {GenesisOf[a] : a \in Account} \ {Nil}
        /\ sourceHash = [b \in ABlock |-> Nil] /\ reqs = [b \in ABlock |-> -1] /\ sdisk = <<>>
    BY DEF Init
  <2>2. GenesisOf \in [Account -> BlockOrNil] /\ Nil \in BlockOrNil /\ byHash \subseteq ABlock
    BY <2>1, BodyAssumption DEF BlockOrNil
  <2>3. byHeight \in [Account -> [Height -> BlockOrNil]]
    BY <2>1, <2>2
  <2>4. DiskTypeOK
    BY <2>1, <2>2, <2>3 DEF DiskTypeOK
  <2>5. DiskShape
    BY <2>1, <2>2, GenesisFacts DEF DiskShape, IsOf
  <2> QED
    BY <2>4, <2>5 DEF DiskOK
<1>2. PoolOK
  <2>1. chains = [a \in Account |-> <<>>] /\ current = [a \in Account |-> 0]
    BY DEF Init
  <2>2. \A a \in Account : chains[a] = <<>> /\ Len(chains[a]) = 0 /\ current[a] = 0
    BY <2>1
  <2>3. chains \in [Account -> Seq(ChainRec)] /\ current \in [Account -> Nat]
    BY <2>1
  <2> QED
    BY <2>2, <2>3 DEF PoolOK, PoolTypeOK, ChainShape
<1>3. ForkTypeOK
  <2>1. <<>> \in Keys
    BY DEF Keys
  <2>2. NoFork \in Fork
    BY <2>1, NoTasksType, BodyAssumption DEF NoFork, Fork
  <2>3. snap = NoFork
    BY DEF Init
  <2> QED
    BY <2>2, <2>3 DEF ForkTypeOK, NoFork
<1>4. ProcsOK
  <2>1. Idle \in Proc /\ GoodProc(Idle) /\ Idle.pc = "idle"
    BY LedgerAssumption DEF Idle, Proc, GoodProc, ProcTypeOK, ProcShape, BlockOrNil
  <2>2. caller = [g \in Caller |-> Idle] /\ inserter = Idle
    BY DEF Init
  <2> QED
    BY <2>1, <2>2 DEF ProcsOK
<1>5. RestOK
  <2>1. 1 \in DOMAIN Branch /\ Branch[1] \in Seq(SBlock)
    BY LedgerAssumption
  <2>2. version = 0 /\ branch = 1 /\ stail = 0 /\ tailed = TRUE /\ sdisk = <<>>
    BY DEF Init
  <2> QED
    BY <2>1, <2>2, LedgerAssumption DEF RestOK
<1> QED
  BY <1>1, <1>2, <1>3, <1>4, <1>5, TypeParts

\* One step keeps the types; chains are never dropped.
LEMMA TypeStep ==
    ASSUME TypeInv, [Next]_vars
    PROVE  TypeInv' /\ Grown
<1>1. LedgerTypeOK /\ DiskOK /\ PoolOK /\ ForkTypeOK /\ ProcsOK /\ RestOK
  BY TypeParts DEF TypeInv
<1>2. CASE Next
  <2>1. DiskOK'
    BY <1>1, <1>2, DiskStep
  <2>2. PoolOK' /\ Grown
    BY <1>1, <1>2, PoolStep
  <2>3. ProcsOK'
    BY <1>1, <1>2, <2>2, ProcsStep
  <2>4. ForkTypeOK'
    BY <1>1, <1>2, <2>2, ForkStep
  <2>5. RestOK'
    BY <1>1, <1>2, RestStep
  <2> QED
    BY <2>1, <2>2, <2>3, <2>4, <2>5 DEF TypeInv, LedgerTypeOK, DiskOK, PoolOK, ProcsOK, GoodProc, RestOK
<1>3. CASE UNCHANGED vars
  <2>1. UNCHANGED <<head, byHeight, points, inMap, byHash, sourceHash, reqs, sdisk>>
        /\ UNCHANGED <<chains, current, version, branch, stail, tailed, caller, inserter, snap>>
    BY <1>3 DEF vars, dataVars, diskVars, poolVars, goVars
  <2>2. DiskOK'
    BY <1>1, <2>1, KeptDisk DEF diskVars
  <2>3. PoolOK' /\ Grown
    BY <1>1, <2>1, KeptPool
  <2>4. ProcsOK'
    BY <1>1, <2>1, <2>3, KeptProcs
  <2>5. ForkTypeOK'
    BY <1>1, <2>1, <2>3, KeptFork
  <2>6. RestOK'
    BY <1>1, <2>1 DEF RestOK
  <2> QED
    BY <2>2, <2>3, <2>4, <2>5, <2>6 DEF TypeInv, LedgerTypeOK, DiskOK, PoolOK, ProcsOK, GoodProc, RestOK
<1> QED
  BY <1>2, <1>3

LEMMA TypeAlways == Spec => []TypeInv
<1>1. TypeInv /\ [Next]_vars => TypeInv'
  BY TypeStep
<1> QED
  BY <1>1, TypeInit, PTL DEF Spec

\* The state of the ledger keeps the shape that the code gives it, whatever
\* the goroutines of AddDirectAccountBlock, loopTryInsert, the snapshot pool
\* and its fork check do in between: whoever is in the middle of an
\* insertion, a rollback or a switch of chains has the block, the pool and
\* the chain that its next step follows a pointer to.
THEOREM LedgerTypeCorrect == Spec => []LedgerTypeOK
<1>1. TypeInv => LedgerTypeOK
  BY DEF TypeInv
<1> QED
  BY <1>1, TypeAlways, PTL

-----------------------------------------------------------------------------
(***************************************************************************)
(* What a step can do to the disk, the request pool and the goroutines     *)
(* that insert.  The invariants below are shown to be kept by each of      *)
(* these effects.                                                          *)
(***************************************************************************)
Others(s) == \A t \in Slot : t # s => ProcAt(t)' = ProcAt(t)
AllProcs == \A t \in Slot : ProcAt(t)' = ProcAt(t)

\* Nothing of it changes.
Quiet == AllProcs /\ UNCHANGED <<head, byHeight, reqs, spoiled>>

\* A goroutine makes a block, or gives up before it has written one.
Moves(s) ==
    /\ Others(s) /\ ProcAt(s).pc # "put" /\ ProcAt(s)'.pc \in {"idle", "made"}
    /\ UNCHANGED <<head, byHeight, reqs, spoiled>>

\* It takes rMu, or has it, and verifies a block.
Verifies(s, b) ==
    /\ Others(s) /\ ProcAt(s).pc \in {"idle", "made", "next"}
    /\ ProcAt(s)'.pc = "verified" /\ ProcAt(s)'.block = b
    /\ Body[b].blockType # "GENESIS"
    /\ RMuFree(Body[b].signer) \/ Busy(ProcAt(s), Body[b].signer)
    /\ VerifyAccount(b) = "SUCCESS" /\ ~VerifyPanics(b)
    /\ UNCHANGED <<head, byHeight, reqs, spoiled>>

\* It writes the block.
Puts(s, b) ==
    /\ Others(s) /\ ProcAt(s).pc = "verified" /\ ProcAt(s).block = b
    /\ ProcAt(s)'.pc = "put" /\ ProcAt(s)'.block = b
    /\ Put(b) /\ UNCHANGED <<reqs, spoiled>>

\* It tells the request pool; loopTryInsert keeps rMu.
Notifies(s, b) ==
    /\ Others(s) /\ ProcAt(s).pc = "put" /\ ProcAt(s).block = b
    /\ ProcAt(s)'.pc \in {"idle", "next"} /\ (ProcAt(s)'.pc = "next" => ProcAt(s)'.block = b)
    /\ ~Unheard(b) /\ reqs' = BlockInsert(b)
    /\ UNCHANGED <<head, byHeight, spoiled>>

\* An account's chain loses a block that no point protects, or is replaced
\* by one that starts anew.
Spoils(a) ==
    /\ AllProcs /\ spoiled' = spoiled \cup {a}
    /\ \A x \in Account : x # a => head'[x] = head[x] /\ byHeight'[x] = byHeight[x]
    /\ \A x \in Account : \A h \in Height : byHeight'[x][h] # byHeight[x][h] =>
          x = a /\ TopPoint(x) < h /\ byHeight'[x][h] = Nil
    /\ \/ reqs' = reqs
       \/ \E b \in ABlock : reqs' = BlockRollback(b) /\ ~NoReq(b)

Effect == \/ Quiet
          \/ \E s \in Slot : Moves(s)
          \/ \E s \in Slot : \E b \in ABlock : Verifies(s, b) \/ Puts(s, b) \/ Notifies(s, b)
          \/ \E a \in Account : Spoils(a)

LEMMA SameProcs ==
    ASSUME UNCHANGED <<caller, inserter>>
    PROVE  AllProcs
BY DEF AllProcs, Slot, ProcAt

LEMMA IdlePc == Idle.pc = "idle"
BY DEF Idle

LEMMA CallerMoves ==
    ASSUME TypeInv, NEW g \in Caller, NEW p, caller' = [caller EXCEPT ![g] = p],
           inserter' = inserter
    PROVE  \E s \in Slot : /\ Others(s) /\ ProcAt(s) = caller[g] /\ ProcAt(s)' = p
<1> DEFINE s == <<"caller", g>>
<1>1. caller \in [Caller -> Proc]
  BY DEF TypeInv, LedgerTypeOK
<1>2. s \in Slot /\ ProcAt(s) = caller[g] /\ ProcAt(s)' = p
  BY <1>1 DEF Slot, ProcAt
<1>3. Others(s)
  BY <1>1 DEF Others, Slot, ProcAt
<1> QED
  BY <1>2, <1>3

LEMMA InserterMoves ==
    ASSUME caller' = caller
    PROVE  \E s \in Slot : /\ Others(s) /\ ProcAt(s) = inserter /\ ProcAt(s)' = inserter'
<1> DEFINE s == <<"inserter", Nil>>
<1>1. s \in Slot /\ ProcAt(s) = inserter /\ ProcAt(s)' = inserter'
  BY DEF Slot, ProcAt
<1>2. Others(s)
  BY DEF Others, Slot, ProcAt
<1> QED
  BY <1>1, <1>2

\* Every action has one of these effects.
LEMMA EffectStep ==
    ASSUME TypeInv, Next
    PROVE  Effect
<1>1. CASE \E a \in Account : SelfPendingAc(a)
  BY <1>1, SameProcs DEF SelfPendingAc, Effect, Quiet, goVars, dataVars, diskVars
<1>2. CASE \E a \in Account : SelfAcMiss(a)
  BY <1>2, SameProcs DEF SelfAcMiss, Effect, Quiet, goVars, dataVars, diskVars
<1>3. CASE \E a \in Account : SelfAcStore(a)
  <2>1. PICK a \in Account : SelfAcStore(a)
    BY <1>3
  <2>2. AllProcs /\ UNCHANGED <<byHeight, reqs>>
    BY <2>1, SameProcs DEF SelfAcStore
  <2>3. head' = [head EXCEPT ![a] = GenesisOf[a]] /\ head \in [Account -> BlockOrNil]
        /\ (spoiled' = IF head[a] = GenesisOf[a] /\ points[a] = <<>>
                       THEN spoiled ELSE spoiled \cup {a})
    BY <2>1 DEF SelfAcStore, TypeInv, LedgerTypeOK, DiskTypeOK
  <2>4. CASE spoiled' = spoiled /\ head[a] = GenesisOf[a]
    <3>1. head' = head
      BY <2>3, <2>4
    <3> QED
      BY <2>2, <2>4, <3>1 DEF Effect, Quiet
  <2>5. CASE spoiled' = spoiled \cup {a}
    BY <2>2, <2>3, <2>5 DEF Effect, Spoils
  <2> QED
    BY <2>3, <2>4, <2>5
<1>4. CASE \E b \in ABlock : CompactExtend(b)
  BY <1>4, SameProcs DEF CompactExtend, Effect, Quiet, goVars, dataVars, diskVars
<1>5. CASE \E b \in ABlock : CompactFork(b)
  BY <1>5, SameProcs DEF CompactFork, Effect, Quiet, goVars, dataVars, diskVars
<1>6. CASE \E g \in Caller : \E b \in Local : MakeBlock(g, b)
  <2>1. PICK g \in Caller, b \in Local : MakeBlock(g, b)
    BY <1>6
  <2>2. PICK p : p = [pc |-> "made", block |-> b, chain |-> 0, version |-> 0]
    OBVIOUS
  <2>3. caller' = [caller EXCEPT ![g] = p] /\ inserter' = inserter /\ caller[g].pc = "idle"
        /\ UNCHANGED <<head, byHeight, reqs, spoiled>>
    BY <2>1, <2>2 DEF MakeBlock, dataVars, diskVars
  <2>4. p.pc = "made"
    BY <2>2
  <2> QED
    BY <2>3, <2>4, CallerMoves DEF Effect, Moves
<1>7. CASE \E g \in Caller : AddDirectVerify(g)
  <2>1. PICK g \in Caller : AddDirectVerify(g)
    BY <1>7
  <2>2. PICK b \in ABlock : b = caller[g].block /\ Body[b].blockType # "GENESIS"
    BY <2>1 DEF AddDirectVerify, TypeInv, LedgerTypeOK, ProcTypeOK, ProcShape
  <2>3. PICK p : p = [pc |-> "verified", block |-> b, chain |-> 0, version |-> version]
    OBVIOUS
  <2>4. p.pc = "verified" /\ p.block = b
    BY <2>3
  <2>5. /\ inserter' = inserter /\ caller[g].pc = "made" /\ RMuFree(Body[b].signer)
        /\ UNCHANGED <<head, byHeight, reqs, spoiled>>
        /\ \/ /\ VerifyAccount(b) = "SUCCESS" /\ ~VerifyPanics(b)
              /\ caller' = [caller EXCEPT ![g] = p]
           \/ caller' = [caller EXCEPT ![g] = Idle]
    BY <2>1, <2>2, <2>3 DEF AddDirectVerify, diskVars
  <2>6. CASE VerifyAccount(b) = "SUCCESS" /\ ~VerifyPanics(b) /\ caller' = [caller EXCEPT ![g] = p]
    <3>1. PICK s \in Slot : Others(s) /\ ProcAt(s) = caller[g] /\ ProcAt(s)' = p
      BY <2>5, <2>6, CallerMoves
    <3>2. Verifies(s, b)
      BY <2>2, <2>4, <2>5, <2>6, <3>1 DEF Verifies
    <3> QED
      BY <3>2 DEF Effect
  <2>7. CASE caller' = [caller EXCEPT ![g] = Idle]
    <3>1. PICK s \in Slot : Others(s) /\ ProcAt(s) = caller[g] /\ ProcAt(s)' = Idle
      BY <2>5, <2>7, CallerMoves
    <3>2. Moves(s)
      BY <2>5, <3>1, IdlePc DEF Moves
    <3> QED
      BY <3>2 DEF Effect
  <2> QED
    BY <2>5, <2>6, <2>7
<1>8. CASE \E g \in Caller : AddDirectInsert(g)
  <2>1. PICK g \in Caller : AddDirectInsert(g)
    BY <1>8
  <2>2. PICK b \in ABlock : b = caller[g].block
    BY <2>1 DEF AddDirectInsert, TypeInv, LedgerTypeOK, ProcTypeOK
  <2>3. PICK p : p = [caller[g] EXCEPT !.pc = "put"]
    OBVIOUS
  <2>4. p.pc = "put" /\ p.block = b
    BY <2>2, <2>3 DEF TypeInv, LedgerTypeOK, Proc
  <2>5. /\ inserter' = inserter /\ caller[g].pc = "verified" /\ Put(b)
        /\ UNCHANGED <<reqs, spoiled>> /\ caller' = [caller EXCEPT ![g] = p]
    BY <2>1, <2>2, <2>3 DEF AddDirectInsert
  <2> QED
    BY <2>2, <2>4, <2>5, CallerMoves DEF Effect, Puts
<1>9. CASE \E g \in Caller : AddDirectRefuse(g)
  <2>1. PICK g \in Caller : AddDirectRefuse(g)
    BY <1>9
  <2>2. caller' = [caller EXCEPT ![g] = Idle] /\ inserter' = inserter /\ caller[g].pc = "verified"
        /\ UNCHANGED <<head, byHeight, reqs, spoiled>>
    BY <2>1 DEF AddDirectRefuse, dataVars, diskVars
  <2> QED
    BY <2>2, CallerMoves, IdlePc DEF Effect, Moves
<1>10. CASE \E g \in Caller : AddDirectNotify(g)
  <2>1. PICK g \in Caller : AddDirectNotify(g)
    BY <1>10
  <2>2. PICK b \in ABlock : b = caller[g].block
    BY <2>1 DEF AddDirectNotify, TypeInv, LedgerTypeOK, ProcTypeOK
  <2>3. /\ inserter' = inserter /\ caller[g].pc = "put" /\ reqs' = BlockInsert(b) /\ ~Unheard(b)
        /\ UNCHANGED <<head, byHeight, spoiled>> /\ caller' = [caller EXCEPT ![g] = Idle]
    BY <2>1, <2>2 DEF AddDirectNotify, Notify
  <2> QED
    BY <2>2, <2>3, CallerMoves, IdlePc DEF Effect, Notifies
<1>11. CASE \E a \in Account : TryInsertPanics(a)
  BY <1>11, SameProcs DEF TryInsertPanics, Effect, Quiet, goVars, dataVars, diskVars
<1>12. CASE \E a \in Account : TryInsertVerify(a)
  <2>1. PICK a \in Account : TryInsertVerify(a)
    BY <1>12
  <2>0. NextOf(a) # Nil /\ HasPool(a)
    BY <2>1 DEF TryInsertVerify, CanTryInsert
  <2>2. TryChain(a) \in 1..Len(chains[a]) /\ NextOf(a) # Nil /\ HasPool(a)
    BY <2>0, TryChainThere, TypeParts
  <2>3. PICK b \in ABlock : b = NextOf(a) /\ Body[b].signer = a
    BY <2>2, OwnBlockFacts, TypeParts DEF NextOf, IsOf
  <2>4. Body[b].blockType # "GENESIS"
    BY <2>1, <2>2, <2>3, NotGenesis, TypeParts
  <2>5. /\ inserter' = [pc |-> "verified", block |-> b, chain |-> TryChain(a), version |-> version]
        /\ caller' = caller /\ inserter.pc \in {"idle", "next"}
        /\ RMuFree(a) \/ Busy(inserter, a)
        /\ VerifyAccount(b) = "SUCCESS" /\ ~VerifyPanics(b)
        /\ UNCHANGED <<head, byHeight, reqs, spoiled>>
    BY <2>1, <2>3 DEF TryInsertVerify, CanTryInsert, AtNext, Busy, dataVars, diskVars
  <2> QED
    BY <2>3, <2>4, <2>5, InserterMoves DEF Effect, Verifies
<1>13. CASE \E a \in Account : TryInsertPending(a)
  <2>1. inserter' = Idle /\ inserter.pc # "put" /\ caller' = caller
        /\ UNCHANGED <<head, byHeight, reqs, spoiled>>
    BY <1>13 DEF TryInsertPending, CanTryInsert, AtNext, dataVars, diskVars
  <2> QED
    BY <2>1, InserterMoves, IdlePc DEF Effect, Moves
<1>14. CASE TryInsertWrite
  <2>1. PICK b \in ABlock : b = inserter.block
    BY <1>14 DEF TryInsertWrite, TypeInv, LedgerTypeOK, ProcTypeOK
  <2>2. inserter' = [inserter EXCEPT !.pc = "put"] /\ inserter.pc = "verified" /\ caller' = caller
        /\ Put(b) /\ UNCHANGED <<reqs, spoiled>>
    BY <1>14, <2>1 DEF TryInsertWrite
  <2>3. inserter'.pc = "put" /\ inserter'.block = b
    BY <2>1, <2>2 DEF TypeInv, LedgerTypeOK, Proc
  <2> QED
    BY <2>1, <2>2, <2>3, InserterMoves DEF Effect, Puts
<1>15. CASE TryInsertRefuse
  BY <1>15, InserterMoves DEF TryInsertRefuse, Idle, Effect, Moves, dataVars, diskVars
<1>16. CASE TryInsertNotify
  <2>1. PICK b \in ABlock : b = inserter.block
    BY <1>16 DEF TryInsertNotify, TypeInv, LedgerTypeOK, ProcTypeOK
  <2>2. /\ inserter' = [inserter EXCEPT !.pc = "next"] /\ inserter.pc = "put" /\ caller' = caller
        /\ reqs' = BlockInsert(b) /\ ~Unheard(b) /\ UNCHANGED <<head, byHeight, spoiled>>
    BY <1>16, <2>1 DEF TryInsertNotify, Notify
  <2>3. inserter'.pc = "next" /\ inserter'.block = b
    BY <2>1, <2>2 DEF TypeInv, LedgerTypeOK, Proc
  <2> QED
    BY <2>1, <2>2, <2>3, InserterMoves DEF Effect, Notifies
<1>17. CASE SnapshotInsert
  BY <1>17, SameProcs DEF SnapshotInsert, Effect, Quiet, goVars, dataVars, diskVars
<1>18. CASE SnapshotPending
  BY <1>18, SameProcs DEF SnapshotPending, Effect, Quiet, goVars, dataVars, diskVars
<1>19. CASE SnapshotFail
  BY <1>19, SameProcs DEF SnapshotFail, Effect, Quiet, goVars, dataVars, diskVars
<1>20. CASE \E br \in DOMAIN Branch : SnapshotFork(br)
  BY <1>20, SameProcs DEF SnapshotFork, Effect, Quiet, goVars, dataVars, diskVars
<1>21. CASE \E a \in Account : UnLockAccount(a)
  BY <1>21, SameProcs DEF UnLockAccount, Effect, Quiet, goVars, dataVars, diskVars
<1>22. CASE \E a \in Account : Rollback(a)
  BY <1>22, SameProcs DEF Rollback, Effect, Quiet, goVars, dataVars, diskVars
<1>23. CASE ForkAccounts
  BY <1>23, SameProcs DEF ForkAccounts, Effect, Quiet, goVars, dataVars, diskVars
<1>24. CASE WaitRollback
  BY <1>24, SameProcs DEF WaitRollback, Effect, Quiet, goVars, dataVars, diskVars
<1>25. CASE RollbackBlock
  <2>1. PICK a \in Account : a = snap.acc
    BY <1>25, VictimFacts, TypeParts DEF RollbackBlock
  <2>2. PICK b \in ABlock : b = Victim
    BY <1>25, VictimFacts, TypeParts DEF RollbackBlock, IsOf
  <2>3. BlockHeight[b] = snap.height /\ byHeight[a][BlockHeight[b]] = b
        /\ TopPoint(a) < snap.height
    BY <1>25, <2>1, <2>2, VictimFacts, TypeParts DEF RollbackBlock, IsOf, Removable
  <2>4. /\ Delete(a, b)
        /\ \/ head' = head /\ reqs' = reqs
           \/ reqs' = BlockRollback(b) /\ ~NoReq(b) /\ head' = [head EXCEPT ![a] = IF b \in byHash THEN b ELSE Nil]
        /\ points' = points
    BY <1>25, <2>1, <2>2 DEF RollbackBlock, RemoveChain
  <2>5. AllProcs
    BY <1>25, SameProcs DEF RollbackBlock
  <2>6. head \in [Account -> BlockOrNil] /\ byHeight \in [Account -> [Height -> BlockOrNil]]
        /\ BlockHeight[b] \in Height
    BY BlockFacts DEF TypeInv, LedgerTypeOK, DiskTypeOK
  <2>7. /\ byHeight' = [byHeight EXCEPT ![a][BlockHeight[b]] = Nil] /\ spoiled' = spoiled \cup {a}
        /\ \A x \in Account : x # a => head'[x] = head[x]
    BY <2>4, <2>6 DEF Delete
  <2>8. \/ reqs' = reqs
        \/ \E c \in ABlock : reqs' = BlockRollback(c) /\ ~NoReq(c)
    BY <2>4
  <2>9. \A x \in Account : \A h \in Height : byHeight'[x][h] # byHeight[x][h] =>
            x = a /\ TopPoint(x) < h /\ byHeight'[x][h] = Nil
    BY <2>3, <2>6, <2>7
  <2>10. \A x \in Account : x # a => byHeight'[x] = byHeight[x]
    BY <2>6, <2>7
  <2> QED
    BY <2>5, <2>7, <2>8, <2>9, <2>10 DEF Effect, Spoils
<1>26. CASE RollbackEnd
  BY <1>26, SameProcs DEF RollbackEnd, Effect, Quiet, goVars, dataVars, diskVars
<1>27. CASE ForkKeys
  BY <1>27, SameProcs DEF ForkKeys, Effect, Quiet, goVars, dataVars, diskVars
<1>28. CASE ForkAccountTo
  BY <1>28, SameProcs DEF ForkAccountTo, Effect, Quiet, goVars, dataVars, diskVars
<1>29. CASE ModifyCheck
  BY <1>29, SameProcs DEF ModifyCheck, Effect, Quiet, goVars, dataVars, diskVars
<1>30. CASE ModifyRefer
  BY <1>30, SameProcs DEF ModifyRefer, Effect, Quiet, goVars, dataVars, diskVars
<1>31. CASE ModifyCurrent
  BY <1>31, SameProcs DEF ModifyCurrent, Effect, Quiet, goVars, dataVars, diskVars
<1>32. CASE FailEnd
  BY <1>32, SameProcs DEF FailEnd, Effect, Quiet, goVars, dataVars, diskVars
<1>33. CASE ForkEnd
  BY <1>33, SameProcs DEF ForkEnd, Effect, Quiet, goVars, dataVars, diskVars
<1>34. CASE \E p \in Procs : NotifyPanics(p)
  BY <1>34, SameProcs DEF NotifyPanics, Effect, Quiet, goVars, dataVars, diskVars
<1>35. CASE \E a \in Account : TryInsertEnd(a)
  BY <1>35, InserterMoves DEF TryInsertEnd, AtNext, Idle, Effect, Moves, dataVars, diskVars
<1> QED
  BY <1>1, <1>2, <1>3, <1>4, <1>5, <1>6, <1>7, <1>8, <1>9, <1>10, <1>11, <1>12,
     <1>13, <1>14, <1>15, <1>16, <1>17, <1>18, <1>19, <1>20, <1>21, <1>22, <1>23,
     <1>24, <1>25, <1>26, <1>27, <1>28, <1>29, <1>30, <1>31, <1>32, <1>33, <1>34,
     <1>35
  DEF Next, Pools, Callers, Inserter, Snapshots, Forks

-----------------------------------------------------------------------------
(***************************************************************************)
(* The chains on disk.  rMu admits one insertion into an account; whoever  *)
(* has verified a block of a chain that lost nothing found it next to the  *)
(* head, and whoever has written one finds it at the head.                 *)
(***************************************************************************)
Mutex == \A a \in Account : \A s, t \in Slot :
             Busy(ProcAt(s), a) /\ Busy(ProcAt(t), a) => s = t

Linked(a) ==
    /\ \A h \in Height : byHeight[a][h] # Nil <=> h <= HeadHeight(a)
    /\ head[a] # Nil => byHeight[a][HeadHeight(a)] = head[a]
    /\ \A h \in 1..HeadHeight(a) : PreHash[byHeight[a][h]] = byHeight[a][h - 1]

NextToHead(b) == /\ PreHash[b] = head[Body[b].signer]
                 /\ BlockHeight[b] = HeadHeight(Body[b].signer) + 1

ProcLinked(p) ==
    Sound(Body[p.block].signer) =>
        /\ p.pc = "verified" => NextToHead(p.block)
        /\ p.pc = "put" => head[Body[p.block].signer] = p.block

DiskInv == /\ Mutex
           /\ \A a \in Account : Sound(a) => Linked(a)
           /\ \A s \in Slot : ProcLinked(ProcAt(s))

LEMMA RMuSlots ==
    ASSUME NEW a
    PROVE  RMuFree(a) <=> \A s \in Slot : ~Busy(ProcAt(s), a)
<1>1. ASSUME RMuFree(a), NEW s \in Slot
      PROVE  ~Busy(ProcAt(s), a)
  BY <1>1 DEF RMuFree, Slot, ProcAt
<1>2. ASSUME \A s \in Slot : ~Busy(ProcAt(s), a)
      PROVE  RMuFree(a)
  <2>1. <<"inserter", Nil>> \in Slot /\ ProcAt(<<"inserter", Nil>>) = inserter
    BY DEF Slot, ProcAt
  <2>2. ASSUME NEW g \in Caller
        PROVE  <<"caller", g>> \in Slot /\ ProcAt(<<"caller", g>>) = caller[g]
    BY DEF Slot, ProcAt
  <2> QED
    BY <1>2, <2>1, <2>2 DEF RMuFree
<1> QED
  BY <1>1, <1>2

LEMMA SlotType ==
    ASSUME TypeInv, NEW s \in Slot
    PROVE  /\ ProcAt(s) \in Proc /\ ProcTypeOK(ProcAt(s)) /\ ProcShape(ProcAt(s))
           /\ ProcAt(s).pc # "idle" => /\ ProcAt(s).block \in ABlock
                                       /\ Body[ProcAt(s).block].signer \in Account
<1>1. ProcAt(s) \in Proc /\ ProcTypeOK(ProcAt(s)) /\ ProcShape(ProcAt(s))
  BY DEF TypeInv, LedgerTypeOK, Slot, ProcAt
<1> QED
  BY <1>1, BlockFacts DEF ProcTypeOK

\* The verifier accepts a block only next to the head.
LEMMA VerifiedNext ==
    ASSUME NEW b \in ABlock, Body[b].blockType # "GENESIS", VerifyAccount(b) = "SUCCESS"
    PROVE  /\ VerifySelf(b) = "SUCCESS" /\ VerifyFrom(b) = "SUCCESS"
           /\ NextToHead(b)
<1>1. VerifySelf(b) \in {"SUCCESS", "FAIL"} /\ VerifyFrom(b) \in {"SUCCESS", "PENDING", "FAIL"}
  BY DEF VerifySelf, CheckGenesis, CheckSelfAmount, VerifyFrom
<1>2. VerifySelf(b) = "SUCCESS" /\ VerifyFrom(b) = "SUCCESS"
  BY <1>1 DEF VerifyAccount
<1>3. CASE Body[b].blockType = "RECEIVED" /\ BlockHeight[b] = 0
  <2>1. CheckGenesis(b) = "SUCCESS"
    BY <1>2, <1>3 DEF VerifySelf
  <2>2. head[Body[b].signer] = Nil /\ PreHash[b] = Nil
    BY <2>1 DEF CheckGenesis
  <2> QED
    BY <1>2, <1>3, <2>2 DEF NextToHead, HeadHeight
<1>4. CASE ~(Body[b].blockType = "RECEIVED" /\ BlockHeight[b] = 0)
  <2>1. CheckSelfAmount(b) = "SUCCESS"
    BY <1>2, <1>4 DEF VerifySelf
  <2>2. head[Body[b].signer] # Nil /\ head[Body[b].signer] = PreHash[b]
    BY <2>1 DEF CheckSelfAmount
  <2> QED
    BY <1>2, <2>2, LinkFacts DEF NextToHead, HeadHeight
<1> QED
  BY <1>3, <1>4

\* What a step does to one account, and to one goroutine.
LEMMA AccountEffect ==
    ASSUME TypeInv, Effect, NEW a \in Account, Sound(a)'
    PROVE  /\ Sound(a)
           /\ \/ head'[a] = head[a] /\ byHeight'[a] = byHeight[a]
              \/ \E s \in Slot : \E b \in ABlock : Puts(s, b) /\ Body[b].signer = a
<1>1. head \in [Account -> BlockOrNil] /\ byHeight \in [Account -> [Height -> BlockOrNil]]
  BY DEF TypeInv, LedgerTypeOK, DiskTypeOK
<1>2. CASE UNCHANGED <<head, byHeight, spoiled>>
  BY <1>2 DEF Sound
<1>3. ASSUME NEW s \in Slot, NEW b \in ABlock, Puts(s, b)
      PROVE  /\ Sound(a)
             /\ \/ head'[a] = head[a] /\ byHeight'[a] = byHeight[a]
                \/ Body[b].signer = a
  <2>1. Sound(a)
    BY <1>3 DEF Puts, Sound
  <2>2. CASE Body[b].signer # a
    BY <1>1, <1>3, <2>1, <2>2 DEF Puts, Put
  <2> QED
    BY <2>1, <2>2
<1>4. ASSUME NEW x \in Account, Spoils(x)
      PROVE  Sound(a) /\ head'[a] = head[a] /\ byHeight'[a] = byHeight[a]
  BY <1>4 DEF Spoils, Sound
<1>5. CASE Quiet \/ \E s \in Slot : Moves(s)
  BY <1>2, <1>5 DEF Quiet, Moves
<1>6. CASE \E s \in Slot : \E b \in ABlock : Verifies(s, b) \/ Notifies(s, b)
  BY <1>2, <1>6 DEF Verifies, Notifies
<1> QED
  BY <1>3, <1>4, <1>5, <1>6 DEF Effect

LEMMA ProcEffect ==
    ASSUME Effect, NEW t \in Slot
    PROVE  \/ ProcAt(t)' = ProcAt(t)
           \/ Moves(t)
           \/ \E b \in ABlock : Verifies(t, b) \/ Puts(t, b) \/ Notifies(t, b)
<1>1. CASE Quiet \/ \E a \in Account : Spoils(a)
  BY <1>1 DEF Quiet, Spoils, AllProcs
<1>2. CASE \E s \in Slot : Moves(s)
  BY <1>2 DEF Moves, Others
<1>3. CASE \E s \in Slot : \E b \in ABlock : Verifies(s, b) \/ Puts(s, b) \/ Notifies(s, b)
  BY <1>3 DEF Verifies, Puts, Notifies, Others
<1> QED
  BY <1>1, <1>2, <1>3 DEF Effect

\* A goroutine takes rMu only by verifying a block.
LEMMA BusyAfter ==
    ASSUME Effect, NEW a \in Account, NEW t \in Slot, Busy(ProcAt(t), a)'
    PROVE  \/ Busy(ProcAt(t), a)
           \/ \E b \in ABlock : Verifies(t, b) /\ Body[b].signer = a
<1>1. CASE ProcAt(t)' = ProcAt(t)
  BY <1>1 DEF Busy
<1>2. CASE Moves(t)
  BY <1>2 DEF Busy, Moves
<1>3. ASSUME NEW b \in ABlock, Verifies(t, b)
      PROVE  Body[b].signer = a
  BY <1>3 DEF Busy, Verifies
<1>4. ASSUME NEW b \in ABlock, Puts(t, b)
      PROVE  Busy(ProcAt(t), a)
  BY <1>4 DEF Busy, Puts
<1>5. ASSUME NEW b \in ABlock, Notifies(t, b)
      PROVE  Busy(ProcAt(t), a)
  BY <1>5 DEF Busy, Notifies
<1> QED
  BY <1>1, <1>2, <1>3, <1>4, <1>5, ProcEffect

LEMMA MutexStep ==
    ASSUME Effect, Mutex
    PROVE  Mutex'
<1>1. SUFFICES ASSUME NEW a \in Account, NEW s \in Slot, NEW t \in Slot,
                      Busy(ProcAt(s), a)', Busy(ProcAt(t), a)', s # t
               PROVE  FALSE
  BY DEF Mutex
<1>2. ASSUME NEW x \in Slot, NEW y \in Slot, x # y, Busy(ProcAt(y), a)',
             NEW b \in ABlock, Verifies(x, b), Body[b].signer = a
      PROVE  FALSE
  <2>1. ProcAt(y)' = ProcAt(y)
    BY <1>2 DEF Verifies, Others
  <2>2. Busy(ProcAt(y), a)
    BY <1>2, <2>1 DEF Busy
  <2>3. ~Busy(ProcAt(x), a)
    BY <1>2, <2>2 DEF Mutex
  <2> QED
    BY <1>2, <2>2, <2>3, RMuSlots DEF Verifies
<1>3. Busy(ProcAt(s), a) \/ \E b \in ABlock : Verifies(s, b) /\ Body[b].signer = a
  BY <1>1, BusyAfter
<1>4. Busy(ProcAt(t), a) \/ \E b \in ABlock : Verifies(t, b) /\ Body[b].signer = a
  BY <1>1, BusyAfter
<1> QED
  BY <1>1, <1>2, <1>3, <1>4 DEF Mutex

LEMMA KeptLinked ==
    ASSUME NEW a \in Account, Linked(a), head'[a] = head[a], byHeight'[a] = byHeight[a]
    PROVE  Linked(a)'
BY DEF Linked, HeadHeight

\* A block that is written next to the head keeps the chain linked.
LEMMA PutLinked ==
    ASSUME TypeInv, NEW b \in ABlock, NEW a, a = Body[b].signer, Linked(a),
           NextToHead(b), Put(b)
    PROVE  Linked(a)'
<1>1. a \in Account /\ head \in [Account -> BlockOrNil]
      /\ byHeight \in [Account -> [Height -> BlockOrNil]]
  BY BlockFacts DEF TypeInv, LedgerTypeOK, DiskTypeOK
<1>2. PICK n \in -1..MaxHeight : n = HeadHeight(a) /\ n \in Int
  BY <1>1, HeadFacts
<1>3. BlockHeight[b] = n + 1 /\ PreHash[b] = head[a] /\ n + 1 \in Height /\ b # Nil
  BY <1>2, BlockFacts DEF NextToHead
<1>4. head'[a] = b /\ HeadHeight(a)' = n + 1
  BY <1>1, <1>3 DEF Put, HeadHeight
<1>5. \A h \in Height : byHeight'[a][h] = IF h = n + 1 THEN b ELSE byHeight[a][h]
  BY <1>1, <1>3 DEF Put
<1>6. \A h \in Height : h \in Int
  BY DEF Height
<1>7. \A h \in Height : byHeight[a][h] # Nil <=> h <= n
  BY <1>2 DEF Linked
<1>8. \A h \in Height : byHeight'[a][h] # Nil <=> h <= n + 1
  BY <1>2, <1>3, <1>5, <1>6, <1>7
<1>9. byHeight'[a][n + 1] = b
  BY <1>3, <1>5
<1>10. ASSUME NEW h \in 1..(n + 1)
       PROVE  PreHash[byHeight'[a][h]] = byHeight'[a][h - 1]
  <2>1. h \in Height /\ h - 1 \in Height /\ h - 1 # n + 1
    BY <1>2, <1>3, BodyAssumption DEF Height
  <2>2. byHeight'[a][h - 1] = byHeight[a][h - 1]
    BY <1>5, <2>1
  <2>3. CASE h = n + 1
    <3>1. n # -1 /\ head[a] # Nil
      BY <1>1, <1>2, <2>1, <2>3, HeadFacts DEF Height
    <3>2. byHeight[a][n] = head[a]
      BY <1>2, <3>1 DEF Linked
    <3> QED
      BY <1>2, <1>3, <1>9, <2>2, <2>3, <3>2
  <2>4. CASE h # n + 1
    <3>1. h \in 1..n
      BY <1>2, <2>4
    <3>2. byHeight'[a][h] = byHeight[a][h]
      BY <1>5, <2>1, <2>4
    <3> QED
      BY <1>2, <2>2, <3>1, <3>2 DEF Linked
  <2> QED
    BY <2>3, <2>4
<1> QED
  BY <1>4, <1>8, <1>9, <1>10 DEF Linked

LEMMA LinkedStep ==
    ASSUME TypeInv, DiskInv, Effect, NEW a \in Account, Sound(a)'
    PROVE  Linked(a)'
<1>1. Sound(a) /\ Linked(a)
  BY AccountEffect DEF DiskInv
<1>2. ASSUME NEW s \in Slot, NEW b \in ABlock, Puts(s, b), Body[b].signer = a
      PROVE  Linked(a)'
  <2>1. NextToHead(b)
    BY <1>1, <1>2 DEF DiskInv, ProcLinked, Puts
  <2> QED
    BY <1>1, <1>2, <2>1, PutLinked DEF Puts
<1> QED
  BY <1>1, <1>2, AccountEffect, KeptLinked

LEMMA ProcLinkedStep ==
    ASSUME TypeInv, DiskInv, Effect, NEW t \in Slot
    PROVE  ProcLinked(ProcAt(t))'
<1>1. head \in [Account -> BlockOrNil]
  BY DEF TypeInv, LedgerTypeOK, DiskTypeOK
<1>2. CASE ProcAt(t)' = ProcAt(t) /\ ProcAt(t).pc \in {"verified", "put"}
  <2>1. PICK b \in ABlock : b = ProcAt(t).block
    BY <1>2, SlotType
  <2>2. PICK a \in Account : a = Body[b].signer
    BY BlockFacts
  <2>3. SUFFICES ASSUME Sound(a)'
                 PROVE  /\ ProcAt(t).pc = "verified" => NextToHead(b)'
                        /\ ProcAt(t).pc = "put" => head'[a] = b
    BY <1>2, <2>1, <2>2 DEF ProcLinked
  <2>4. Sound(a)
    BY <2>3, AccountEffect
  <2>5. ASSUME NEW s \in Slot, NEW c \in ABlock, Puts(s, c), Body[c].signer = a
        PROVE  FALSE
    <3>1. Busy(ProcAt(s), a) /\ Busy(ProcAt(t), a)
      BY <1>2, <2>1, <2>2, <2>5 DEF Busy, Puts
    <3>2. s = t
      BY <3>1 DEF DiskInv, Mutex
    <3> QED
      BY <1>2, <2>5, <3>2 DEF Puts
  <2>6. head'[a] = head[a]
    BY <2>3, <2>5, AccountEffect
  <2>7. ProcLinked(ProcAt(t))
    BY DEF DiskInv
  <2> QED
    BY <2>1, <2>2, <2>4, <2>6, <2>7 DEF ProcLinked, NextToHead, HeadHeight
<1>3. CASE ProcAt(t)' = ProcAt(t) /\ ProcAt(t).pc \notin {"verified", "put"}
  BY <1>3 DEF ProcLinked
<1>4. CASE Moves(t)
  BY <1>4 DEF ProcLinked, Moves
<1>5. ASSUME NEW b \in ABlock, Verifies(t, b)
      PROVE  ProcLinked(ProcAt(t))'
  <2>1. NextToHead(b)
    BY <1>5, VerifiedNext DEF Verifies
  <2>2. NextToHead(b)'
    BY <1>5, <2>1 DEF Verifies, NextToHead, HeadHeight
  <2> QED
    BY <1>5, <2>2 DEF ProcLinked, Verifies
<1>6. ASSUME NEW b \in ABlock, Puts(t, b)
      PROVE  ProcLinked(ProcAt(t))'
  <2>1. head'[Body[b].signer] = b
    BY <1>1, <1>6, BlockFacts DEF Puts, Put
  <2> QED
    BY <1>6, <2>1 DEF ProcLinked, Puts
<1>7. ASSUME NEW b \in ABlock, Notifies(t, b)
      PROVE  ProcLinked(ProcAt(t))'
  BY <1>7 DEF ProcLinked, Notifies
<1> QED
  BY <1>2, <1>3, <1>4, <1>5, <1>6, <1>7, ProcEffect

LEMMA DiskInvStep ==
    ASSUME TypeInv, DiskInv, Effect
    PROVE  DiskInv'
<1>1. Mutex'
  BY MutexStep DEF DiskInv
<1>2. \A a \in Account : Sound(a)' => Linked(a)'
  BY LinkedStep
<1>3. \A s \in Slot : ProcLinked(ProcAt(s))'
  BY ProcLinkedStep
<1> QED
  BY <1>1, <1>2, <1>3 DEF DiskInv


-----------------------------------------------------------------------------
(***************************************************************************)
(* The snapshot points                                                     *)
(***************************************************************************)
PointsOf(a, p) ==
    /\ \A i \in DOMAIN p : AtHeight(a, p[i].aHeight) = p[i].aHash
    /\ \A i, j \in DOMAIN p : i < j => p[i].sHeight < p[j].sHeight /\ p[i].aHeight <= p[j].aHeight

\* What a step can do to the points of an account.
PointsEffect(a) ==
    \/ points'[a] = points[a]
    \/ points'[a] = <<>>
    \/ \E k \in 0..Len(points[a]) : points'[a] = SubSeq(points[a], 1, k)
    \/ /\ UNCHANGED byHeight
       /\ \E sb \in SBlock : \E h \in KeyRec :
             h.addr = a /\ PointValid(sb, h) /\ points'[a] = Append(points[a], Point(sb, h))

LEMMA PushEffect ==
    ASSUME TypeInv, NEW a \in Account, SnapshotInsert
    PROVE  PointsEffect(a)
<1>1. stail < Len(Branch[branch]) /\ InsertSnapshotBlock(NextSnapshot) /\ UNCHANGED byHeight
  BY DEF SnapshotInsert, CanSnapshot
<1>2. PICK sb \in SBlock : sb = NextSnapshot
  BY <1>1, NextSnapshotFacts DEF TypeInv
<1>3. CASE Pushed(sb, a) = {}
  BY <1>1, <1>2, <1>3 DEF InsertSnapshotBlock, PointsEffect
<1>4. CASE Pushed(sb, a) # {}
  <2>1. PICK i \in Pushed(sb, a) : i = CHOOSE j \in Pushed(sb, a) : TRUE
    BY <1>4
  <2>2. i \in DOMAIN SBody[sb].accounts /\ SBody[sb].accounts[i].addr = a
        /\ SBody[sb].accounts \in Seq(KeyRec)
    BY BodyAssumption DEF Pushed, KeyRec
  <2>3. i \notin Refused(sb)
    <3>1. \A j \in Refused(sb) : i < j
      BY DEF Pushed
    <3>2. i \in Int
      BY <2>2
    <3> QED
      BY <3>1, <3>2
  <2>4. PICK h \in KeyRec : h = SBody[sb].accounts[i]
    BY <2>2
  <2>5. PointValid(sb, h) /\ h.addr = a
    BY <2>2, <2>3, <2>4 DEF Refused
  <2>6. points'[a] = Append(points[a], Point(sb, h))
    BY <1>1, <1>2, <1>4, <2>1, <2>4 DEF InsertSnapshotBlock
  <2> QED
    BY <1>1, <2>5, <2>6 DEF PointsEffect
<1> QED
  BY <1>3, <1>4

LEMMA PointsEffectStep ==
    ASSUME TypeInv, Next, NEW x \in Account
    PROVE  PointsEffect(x)
<1>1. CASE \E a \in Account : SelfPendingAc(a)
  BY <1>1 DEF SelfPendingAc, PointsEffect, goVars, dataVars, diskVars
<1>2. CASE \E a \in Account : SelfAcMiss(a)
  BY <1>2 DEF SelfAcMiss, PointsEffect, goVars, dataVars, diskVars
<1>3. CASE \E a \in Account : SelfAcStore(a)
  BY <1>3 DEF SelfAcStore, PointsEffect, TypeInv, LedgerTypeOK, DiskTypeOK
<1>4. CASE \E b \in ABlock : CompactExtend(b)
  BY <1>4 DEF CompactExtend, PointsEffect, goVars, dataVars, diskVars
<1>5. CASE \E b \in ABlock : CompactFork(b)
  BY <1>5 DEF CompactFork, PointsEffect, goVars, dataVars, diskVars
<1>6. CASE \E g \in Caller : \E b \in Local : MakeBlock(g, b)
  BY <1>6 DEF MakeBlock, PointsEffect, goVars, dataVars, diskVars
<1>7. CASE \E g \in Caller : AddDirectVerify(g)
  BY <1>7 DEF AddDirectVerify, PointsEffect, goVars, dataVars, diskVars
<1>8. CASE \E g \in Caller : AddDirectInsert(g)
  BY <1>8 DEF AddDirectInsert, PointsEffect, goVars, dataVars, diskVars
<1>9. CASE \E g \in Caller : AddDirectRefuse(g)
  BY <1>9 DEF AddDirectRefuse, PointsEffect, goVars, dataVars, diskVars
<1>10. CASE \E g \in Caller : AddDirectNotify(g)
  BY <1>10 DEF AddDirectNotify, PointsEffect, goVars, dataVars, diskVars
<1>11. CASE \E a \in Account : TryInsertPanics(a)
  BY <1>11 DEF TryInsertPanics, PointsEffect, goVars, dataVars, diskVars
<1>12. CASE \E a \in Account : TryInsertVerify(a)
  BY <1>12 DEF TryInsertVerify, PointsEffect, goVars, dataVars, diskVars
<1>13. CASE \E a \in Account : TryInsertPending(a)
  BY <1>13 DEF TryInsertPending, PointsEffect, goVars, dataVars, diskVars
<1>14. CASE TryInsertWrite
  BY <1>14 DEF TryInsertWrite, PointsEffect, goVars, dataVars, diskVars
<1>15. CASE TryInsertRefuse
  BY <1>15 DEF TryInsertRefuse, PointsEffect, goVars, dataVars, diskVars
<1>16. CASE TryInsertNotify
  BY <1>16 DEF TryInsertNotify, PointsEffect, goVars, dataVars, diskVars
<1>17. CASE SnapshotInsert
  BY <1>17, PushEffect
<1>18. CASE SnapshotPending
  BY <1>18 DEF SnapshotPending, PointsEffect, goVars, dataVars, diskVars
<1>19. CASE SnapshotFail
  BY <1>19 DEF SnapshotFail, PointsEffect, goVars, dataVars, diskVars
<1>20. CASE \E br \in DOMAIN Branch : SnapshotFork(br)
  BY <1>20 DEF SnapshotFork, PointsEffect, goVars, dataVars, diskVars
<1>21. CASE \E a \in Account : UnLockAccount(a)
  <2>1. PICK a \in Account : UnLockAccount(a)
    BY <1>21
  <2>2. \/ points' = points
        \/ \E k \in 0..Len(points[a]) : points' = [points EXCEPT ![a] = SubSeq(points[a], 1, k)]
    BY <2>1 DEF UnLockAccount
  <2>3. points \in [Account -> Seq(PointRec)]
    BY DEF TypeInv, LedgerTypeOK, DiskTypeOK
  <2>4. points'[x] = points[x] \/ (x = a /\ \E k \in 0..Len(points[a]) : points'[x] = SubSeq(points[x], 1, k))
    BY <2>2, <2>3
  <2> QED
    BY <2>4 DEF PointsEffect
<1>22. CASE \E a \in Account : Rollback(a)
  BY <1>22 DEF Rollback, PointsEffect, goVars, dataVars, diskVars
<1>23. CASE ForkAccounts
  BY <1>23 DEF ForkAccounts, PointsEffect, goVars, dataVars, diskVars
<1>24. CASE WaitRollback
  BY <1>24 DEF WaitRollback, PointsEffect, goVars, dataVars, diskVars
<1>25. CASE RollbackBlock
  BY <1>25 DEF RollbackBlock, PointsEffect, goVars, dataVars, diskVars
<1>26. CASE RollbackEnd
  BY <1>26 DEF RollbackEnd, PointsEffect, goVars, dataVars, diskVars
<1>27. CASE ForkKeys
  BY <1>27 DEF ForkKeys, PointsEffect, goVars, dataVars, diskVars
<1>28. CASE ForkAccountTo
  BY <1>28 DEF ForkAccountTo, PointsEffect, goVars, dataVars, diskVars
<1>29. CASE ModifyCheck
  BY <1>29 DEF ModifyCheck, PointsEffect, goVars, dataVars, diskVars
<1>30. CASE ModifyRefer
  BY <1>30 DEF ModifyRefer, PointsEffect, goVars, dataVars, diskVars
<1>31. CASE ModifyCurrent
  BY <1>31 DEF ModifyCurrent, PointsEffect, goVars, dataVars, diskVars
<1>32. CASE FailEnd
  BY <1>32 DEF FailEnd, PointsEffect, goVars, dataVars, diskVars
<1>33. CASE ForkEnd
  BY <1>33 DEF ForkEnd, PointsEffect, goVars, dataVars, diskVars
<1>34. CASE \E p \in Procs : NotifyPanics(p)
  BY <1>34 DEF NotifyPanics, PointsEffect, goVars, dataVars, diskVars
<1>35. CASE \E a \in Account : TryInsertEnd(a)
  BY <1>35 DEF TryInsertEnd, PointsEffect, goVars, dataVars, diskVars
<1> QED
  BY <1>1, <1>2, <1>3, <1>4, <1>5, <1>6, <1>7, <1>8, <1>9, <1>10, <1>11, <1>12,
     <1>13, <1>14, <1>15, <1>16, <1>17, <1>18, <1>19, <1>20, <1>21, <1>22, <1>23,
     <1>24, <1>25, <1>26, <1>27, <1>28, <1>29, <1>30, <1>31, <1>32, <1>33, <1>34,
     <1>35
  DEF Next, Pools, Callers, Inserter, Snapshots, Forks

\* What a chain that lost nothing has on disk stays there.
LEMMA DiskStays ==
    ASSUME TypeInv, DiskInv, Effect, NEW a \in Account, Sound(a)', NEW h \in Height,
           byHeight[a][h] # Nil
    PROVE  byHeight'[a][h] = byHeight[a][h]
<1>1. ASSUME NEW s \in Slot, NEW b \in ABlock, Puts(s, b), Body[b].signer = a
      PROVE  byHeight'[a][h] = byHeight[a][h]
  <2>1. Sound(a) /\ Linked(a) /\ NextToHead(b)
    BY <1>1, AccountEffect DEF DiskInv, ProcLinked, Puts
  <2>2. byHeight \in [Account -> [Height -> BlockOrNil]] /\ head \in [Account -> BlockOrNil]
    BY DEF TypeInv, LedgerTypeOK, DiskTypeOK
  <2>3. h <= HeadHeight(a) /\ HeadHeight(a) \in Int /\ h \in Int
    BY <2>1, <2>2, HeadFacts DEF Linked, Height
  <2>4. BlockHeight[b] = HeadHeight(a) + 1
    BY <1>1, <2>1 DEF NextToHead
  <2>5. h # BlockHeight[b]
    BY <2>3, <2>4
  <2> QED
    BY <1>1, <2>2, <2>5, BlockFacts DEF Puts, Put
<1> QED
  BY <1>1, AccountEffect

LEMMA PointsKept ==
    ASSUME TypeInv, DiskInv, Effect, NEW a \in Account, Sound(a)', NEW p \in Seq(PointRec),
           PointsOf(a, p)
    PROVE  PointsOf(a, p)'
<1>1. ASSUME NEW i \in DOMAIN p
      PROVE  AtHeight(a, p[i].aHeight)' = p[i].aHash
  <2>1. p[i] \in PointRec
    OBVIOUS
  <2>2. PICK h \in Height : h = p[i].aHeight
    BY <2>1 DEF PointRec
  <2>3. p[i].aHash \in ABlock /\ p[i].aHash # Nil
    BY <2>1, BlockFacts DEF PointRec
  <2>4. byHeight[a][h] = p[i].aHash
    BY <1>1, <2>2 DEF PointsOf, AtHeight
  <2>5. byHeight'[a][h] = p[i].aHash
    BY <2>3, <2>4, DiskStays
  <2> QED
    BY <2>2, <2>5 DEF AtHeight
<1> QED
  BY <1>1 DEF PointsOf

LEMMA PointsPrefix ==
    ASSUME NEW a, NEW p \in Seq(PointRec), NEW k \in 0..Len(p), PointsOf(a, p)
    PROVE  PointsOf(a, SubSeq(p, 1, k))
<1>1. DOMAIN SubSeq(p, 1, k) = 1..k /\ 1..k \subseteq DOMAIN p
  OBVIOUS
<1>2. \A i \in 1..k : SubSeq(p, 1, k)[i] = p[i]
  OBVIOUS
<1> QED
  BY <1>1, <1>2 DEF PointsOf

\* The point that is pushed lies above the others and names a block on disk.
LEMMA PointsPushed ==
    ASSUME TypeInv, NEW a \in Account, PointsOf(a, points[a]), NEW sb \in SBlock, NEW h \in KeyRec,
           h.addr = a, PointValid(sb, h)
    PROVE  PointsOf(a, Append(points[a], Point(sb, h)))
<1>1. PICK p \in Seq(PointRec) : p = points[a]
  BY DEF TypeInv, LedgerTypeOK, DiskTypeOK
<1>2. h.block \in ABlock /\ SHeight(sb) \in Nat /\ BlockHeight[h.block] \in Int
  BY BodyAssumption, BlockFacts DEF KeyRec, SHeight
<1>3. PICK q : q = Point(sb, h)
  OBVIOUS
<1>4. q.sHeight = SHeight(sb) /\ q.aHeight = BlockHeight[h.block] /\ q.aHash = h.block
  BY <1>3 DEF Point
<1>5. AtHeight(a, q.aHeight) = q.aHash
  BY <1>4 DEF PointValid
<1>6. p # <<>> => q.sHeight > p[Len(p)].sHeight /\ q.aHeight >= p[Len(p)].aHeight
  BY <1>1, <1>4 DEF PointValid
<1>7. \A i \in DOMAIN p : p[i].sHeight \in Int /\ p[i].aHeight \in Int
  <2>1. \A i \in DOMAIN p : p[i] \in PointRec
    OBVIOUS
  <2> QED
    BY <2>1 DEF PointRec, Height
<1>8. PointsOf(a, p)
  BY <1>1
<1>9. \A i \in DOMAIN p : p[i].sHeight < q.sHeight /\ p[i].aHeight <= q.aHeight
  <2>1. TAKE i \in DOMAIN p
  <2>2. p # <<>> /\ Len(p) \in DOMAIN p /\ i <= Len(p)
    OBVIOUS
  <2>3. i = Len(p) \/ i < Len(p)
    BY <2>2
  <2>4. p[i].sHeight <= p[Len(p)].sHeight /\ p[i].aHeight <= p[Len(p)].aHeight
    BY <1>7, <1>8, <2>2, <2>3 DEF PointsOf
  <2>5. q.sHeight \in Int /\ q.aHeight \in Int
    BY <1>2, <1>4
  <2> QED
    BY <1>6, <1>7, <2>2, <2>4, <2>5
<1>10. PICK r : r = Append(p, q)
  OBVIOUS
<1>11. DOMAIN r = 1..Len(p) + 1 /\ DOMAIN p = 1..Len(p) /\ Len(p) \in Nat
  BY <1>10
<1>12. \A i \in DOMAIN r : r[i] = IF i = Len(p) + 1 THEN q ELSE p[i]
  BY <1>10
<1>13. \A i \in DOMAIN r : i # Len(p) + 1 => i \in DOMAIN p
  BY <1>11
<1>14. \A i \in DOMAIN r : AtHeight(a, r[i].aHeight) = r[i].aHash
  BY <1>5, <1>8, <1>12, <1>13 DEF PointsOf
<1>15. \A i, j \in DOMAIN r : i < j =>
           r[i].sHeight < r[j].sHeight /\ r[i].aHeight <= r[j].aHeight
  <2>1. SUFFICES ASSUME NEW i \in DOMAIN r, NEW j \in DOMAIN r, i < j
                 PROVE  r[i].sHeight < r[j].sHeight /\ r[i].aHeight <= r[j].aHeight
    OBVIOUS
  <2>2. i # Len(p) + 1 /\ i \in DOMAIN p
    BY <1>11, <2>1
  <2>3. r[i] = p[i]
    BY <1>12, <2>2
  <2>4. CASE j = Len(p) + 1
    BY <1>9, <1>12, <2>2, <2>3, <2>4
  <2>5. CASE j # Len(p) + 1
    BY <1>8, <1>12, <1>13, <2>1, <2>2, <2>3, <2>5 DEF PointsOf
  <2> QED
    BY <2>4, <2>5
<1> QED
  BY <1>1, <1>3, <1>10, <1>14, <1>15 DEF PointsOf

LEMMA PointsStep ==
    ASSUME TypeInv, DiskInv, PointsConfirm, Next, Effect
    PROVE  PointsConfirm'
<1>1. SUFFICES ASSUME NEW a \in Account, Sound(a)', NEW r, r = points'[a]
               PROVE  PointsOf(a, r)'
  BY DEF PointsConfirm, PointsOf
<1>2. PICK p \in Seq(PointRec) : p = points[a]
  BY DEF TypeInv, LedgerTypeOK, DiskTypeOK
<1>3. PointsOf(a, p)
  BY <1>1, <1>2, AccountEffect DEF PointsConfirm, PointsOf
<1>4. PointsEffect(a)
  BY PointsEffectStep
<1>5. PointsOf(a, p)'
  BY <1>1, <1>3, PointsKept
<1>6. CASE r = p
  BY <1>5, <1>6 DEF PointsOf
<1>7. CASE r = <<>>
  BY <1>7 DEF PointsOf
<1>8. ASSUME NEW k \in 0..Len(p), r = SubSeq(p, 1, k)
      PROVE  PointsOf(a, r)'
  <2>1. SubSeq(p, 1, k) \in Seq(PointRec)
    OBVIOUS
  <2>2. PointsOf(a, SubSeq(p, 1, k))'
    BY <1>1, <1>3, <2>1, PointsPrefix, PointsKept
  <2> QED
    BY <1>8, <2>2 DEF PointsOf
<1>9. ASSUME UNCHANGED byHeight, NEW sb \in SBlock, NEW h \in KeyRec, h.addr = a,
             PointValid(sb, h), r = Append(p, Point(sb, h))
      PROVE  PointsOf(a, r)'
  <2>1. PointsOf(a, Append(p, Point(sb, h)))
    BY <1>2, <1>3, <1>9, PointsPushed
  <2>2. PointsOf(a, r)
    BY <1>9, <2>1
  <2> QED
    BY <1>9, <2>2 DEF PointsOf, AtHeight
<1> QED
  BY <1>1, <1>2, <1>4, <1>6, <1>7, <1>8, <1>9 DEF PointsEffect

\* The last point of a chain that lost nothing is not above its head.
LEMMA TopPointFacts ==
    ASSUME TypeInv, DiskInv, PointsConfirm, NEW a \in Account, Sound(a)
    PROVE  TopPoint(a) <= HeadHeight(a) /\ TopPoint(a) \in Int
<1>1. PICK p \in Seq(PointRec) : p = points[a]
  BY DEF TypeInv, LedgerTypeOK, DiskTypeOK
<1>2. HeadHeight(a) \in -1..MaxHeight /\ HeadHeight(a) \in Int
  BY HeadFacts DEF TypeInv, LedgerTypeOK, DiskTypeOK
<1>3. CASE p = <<>>
  BY <1>1, <1>2, <1>3 DEF TopPoint
<1>4. CASE p # <<>>
  <2>1. PICK i \in DOMAIN p : i = Len(p)
    BY <1>4
  <2>2. p[i] \in PointRec
    OBVIOUS
  <2>3. PICK h \in Height : h = p[i].aHeight /\ h \in Int
    BY <2>2 DEF PointRec, Height
  <2>4. byHeight[a][h] = p[i].aHash /\ p[i].aHash # Nil
    BY <1>1, <2>2, <2>3, BlockFacts DEF PointsConfirm, AtHeight, PointRec
  <2>5. h <= HeadHeight(a)
    BY <2>4 DEF DiskInv, Linked
  <2>6. TopPoint(a) = h
    BY <1>1, <1>4, <2>1, <2>3 DEF TopPoint
  <2> QED
    BY <2>3, <2>5, <2>6
<1> QED
  BY <1>3, <1>4

LEMMA ConfirmedStep ==
    ASSUME TypeInv, DiskInv, PointsConfirm, Effect, NEW a \in Account, NEW h \in Height,
           h <= TopPoint(a), AtHeight(a, h)' # AtHeight(a, h)
    PROVE  TopPoint(a)' < h \/ (~Sound(a) /\ AtHeight(a, h)' # Nil)
<1>1. byHeight'[a][h] # byHeight[a][h] /\ h \in Int
  BY DEF AtHeight, Height
<1>2. byHeight \in [Account -> [Height -> BlockOrNil]] /\ head \in [Account -> BlockOrNil]
      /\ points[a] \in Seq(PointRec)
  BY DEF TypeInv, LedgerTypeOK, DiskTypeOK
<1>3. ASSUME NEW s \in Slot, NEW b \in ABlock, Puts(s, b)
      PROVE  ~Sound(a) /\ AtHeight(a, h)' # Nil
  <2>1. a = Body[b].signer /\ h = BlockHeight[b] /\ byHeight'[a][h] = b
    BY <1>1, <1>2, <1>3, BlockFacts DEF Puts, Put
  <2>2. ASSUME Sound(a)
        PROVE  FALSE
    <3>1. NextToHead(b)
      BY <1>3, <2>1, <2>2 DEF DiskInv, ProcLinked, Puts
    <3>2. h = HeadHeight(a) + 1 /\ HeadHeight(a) \in Int
      BY <1>2, <2>1, <3>1, HeadFacts DEF NextToHead
    <3>3. TopPoint(a) <= HeadHeight(a) /\ TopPoint(a) \in Int
      BY <2>2, TopPointFacts
    <3> QED
      BY <1>1, <3>2, <3>3
  <2> QED
    BY <2>1, <2>2, BlockFacts DEF AtHeight
<1>4. ASSUME NEW x \in Account, Spoils(x)
      PROVE  FALSE
  <2>1. TopPoint(a) < h
    BY <1>1, <1>4 DEF Spoils
  <2>2. TopPoint(a) \in Int
    <3>1. CASE points[a] = <<>>
      BY <3>1 DEF TopPoint
    <3>2. CASE points[a] # <<>>
      <4>1. points[a][Len(points[a])] \in PointRec
        BY <1>2, <3>2
      <4> QED
        BY <3>2, <4>1 DEF TopPoint, PointRec, Height
    <3> QED
      BY <3>1, <3>2
  <2> QED
    BY <1>1, <2>1, <2>2
<1>5. CASE UNCHANGED byHeight
  BY <1>1, <1>5
<1> QED
  BY <1>3, <1>4, <1>5 DEF Effect, Quiet, Moves, Verifies, Notifies

-----------------------------------------------------------------------------
(***************************************************************************)
(* Receipts.  A receipt is backed from the moment it is verified: its      *)
(* sent block is on disk, and stays there while the sender's chain loses   *)
(* nothing; and while it is verified and not yet written, rMu keeps other  *)
(* receipts of the account out.                                            *)
(***************************************************************************)
Backed(r) ==
    /\ OnDisk(Body[r].source) \/ ~Sound(Body[Body[r].source].signer)
    /\ Body[r].modified + Body[Body[r].source].modified = 0

FirstReceipt(r) == \A q \in ABlock : Receives(q, Body[r].source) => BlockHeight[q] = 0

DiskReceipts ==
    \A r \in ABlock : OnDisk(r) /\ Body[r].blockType = "RECEIVED" => Backed(r)

ReceiptsOnce ==
    \A r, q \in ABlock :
        /\ Receives(r, Body[r].source) /\ Receives(q, Body[r].source)
        /\ r # q /\ Sound(Body[r].signer)
        => BlockHeight[r] = 0 \/ BlockHeight[q] = 0

ProcReceipts(p) ==
    p.pc \in {"verified", "put"} /\ Body[p.block].blockType = "RECEIVED" =>
        /\ Backed(p.block)
        /\ p.pc = "verified" /\ Sound(Body[p.block].signer) /\ BlockHeight[p.block] # 0 =>
              FirstReceipt(p.block)

ReceiptInv == /\ DiskReceipts /\ ReceiptsOnce
              /\ \A s \in Slot : ProcReceipts(ProcAt(s))

LEMMA OnDiskIs ==
    ASSUME NEW b \in ABlock
    PROVE  OnDisk(b) <=> byHeight[Body[b].signer][BlockHeight[b]] = b
BY BlockFacts DEF OnDisk, AtHeight

LEMMA OnDiskAfter ==
    ASSUME NEW b \in ABlock
    PROVE  OnDisk(b)' <=> byHeight'[Body[b].signer][BlockHeight[b]] = b
BY BlockFacts DEF OnDisk, AtHeight

\* A block is new on disk only if somebody has just written it.
LEMMA NewOnDisk ==
    ASSUME TypeInv, Effect, NEW x \in ABlock, OnDisk(x)', ~OnDisk(x)
    PROVE  \E s \in Slot : Puts(s, x)
<1>1. PICK a \in Account, h \in Height : a = Body[x].signer /\ h = BlockHeight[x]
  BY BlockFacts
<1>2. byHeight'[a][h] = x /\ byHeight[a][h] # x
  BY <1>1, OnDiskIs, OnDiskAfter
<1>3. byHeight \in [Account -> [Height -> BlockOrNil]]
  BY DEF TypeInv, LedgerTypeOK, DiskTypeOK
<1>4. CASE UNCHANGED byHeight
  BY <1>2, <1>4
<1>5. ASSUME NEW y \in Account, Spoils(y)
      PROVE  FALSE
  BY <1>2, <1>5, BlockFacts DEF Spoils
<1>6. ASSUME NEW s \in Slot, NEW b \in ABlock, Puts(s, b)
      PROVE  b = x
  BY <1>1, <1>2, <1>3, <1>6, BlockFacts DEF Puts, Put
<1> QED
  BY <1>4, <1>5, <1>6 DEF Effect, Quiet, Moves, Verifies, Notifies

LEMMA OnDiskStays ==
    ASSUME TypeInv, DiskInv, Effect, NEW x \in ABlock, OnDisk(x), Sound(Body[x].signer)'
    PROVE  OnDisk(x)'
<1>1. PICK a \in Account, h \in Height : a = Body[x].signer /\ h = BlockHeight[x]
  BY BlockFacts
<1>2. byHeight[a][h] = x /\ x # Nil
  BY <1>1, OnDiskIs, BlockFacts
<1>3. byHeight'[a][h] = x
  BY <1>1, <1>2, DiskStays
<1> QED
  BY <1>1, <1>3, OnDiskAfter

LEMMA BackedStays ==
    ASSUME TypeInv, DiskInv, Effect, NEW r \in ABlock, Body[r].blockType = "RECEIVED", Backed(r)
    PROVE  Backed(r)'
<1>1. PICK b \in ABlock : b = Body[r].source
  BY ReceiptFacts
<1>2. PICK a \in Account : a = Body[b].signer
  BY BlockFacts
<1>3. (OnDisk(b) \/ ~Sound(a)) /\ Body[r].modified + Body[b].modified = 0
  BY <1>1, <1>2 DEF Backed
<1>4. OnDisk(b)' \/ ~Sound(a)'
  BY <1>2, <1>3, OnDiskStays, AccountEffect
<1> QED
  BY <1>1, <1>2, <1>3, <1>4 DEF Backed

LEMMA FoundFields ==
    ASSUME NEW x
    PROVE  /\ [hole |-> x = Nil, block |-> x].hole <=> x = Nil
           /\ [hole |-> x = Nil, block |-> x].block = x
           /\ ~[hole |-> FALSE, block |-> Nil].hole
OBVIOUS

\* The search for a receipt that finds nothing has seen every height.
LEMMA NoReceipt ==
    ASSUME NEW a, NEW b, ~Receipt(a, b).hole, Receipt(a, b).block = Nil,
           NEW h \in 1..HeadHeight(a)
    PROVE  ~(Body[AtHeight(a, h)].blockType = "RECEIVED" /\ Body[AtHeight(a, h)].source = b)
<1> DEFINE hit == {i \in 1..HeadHeight(a) :
                      \/ AtHeight(a, i) = Nil
                      \/ /\ Body[AtHeight(a, i)].blockType = "RECEIVED"
                         /\ Body[AtHeight(a, i)].source = b}
<1>1. Receipt(a, b) = IF hit = {} THEN [hole |-> FALSE, block |-> Nil]
                      ELSE [hole |-> AtHeight(a, Max(hit)) = Nil, block |-> AtHeight(a, Max(hit))]
  BY DEF Receipt
<1>2. hit = {}
  <2> HIDE DEF hit
  <2>1. SUFFICES ASSUME hit # {}
                 PROVE  FALSE
    OBVIOUS
  <2>2. PICK x : x = AtHeight(a, Max(hit))
    OBVIOUS
  <2>3. Receipt(a, b) = [hole |-> x = Nil, block |-> x]
    BY <1>1, <2>1, <2>2
  <2> QED
    BY <2>3, FoundFields
<1> QED
  BY <1>2

\* It follows a nil pointer only where a block was lost.
LEMMA HoleSpoiled ==
    ASSUME TypeInv, DiskInv, NEW a \in Account, NEW b, Receipt(a, b).hole
    PROVE  ~Sound(a)
<1> DEFINE hit == {i \in 1..HeadHeight(a) :
                      \/ AtHeight(a, i) = Nil
                      \/ /\ Body[AtHeight(a, i)].blockType = "RECEIVED"
                         /\ Body[AtHeight(a, i)].source = b}
<1>1. Receipt(a, b) = IF hit = {} THEN [hole |-> FALSE, block |-> Nil]
                      ELSE [hole |-> AtHeight(a, Max(hit)) = Nil, block |-> AtHeight(a, Max(hit))]
  BY DEF Receipt
<1>2. HeadHeight(a) \in Int /\ HeadHeight(a) \in -1..MaxHeight
  BY HeadFacts DEF TypeInv, LedgerTypeOK, DiskTypeOK
<1>3. hit \subseteq 1..HeadHeight(a)
  OBVIOUS
<1> HIDE DEF hit
<1>4. hit # {} /\ AtHeight(a, Max(hit)) = Nil
  <2>1. hit # {}
    BY <1>1, FoundFields
  <2>2. PICK x : x = AtHeight(a, Max(hit))
    OBVIOUS
  <2>3. Receipt(a, b) = [hole |-> x = Nil, block |-> x]
    BY <1>1, <2>1, <2>2
  <2> QED
    BY <2>1, <2>2, <2>3, FoundFields
<1>5. 1 \in Int
  OBVIOUS
<1>6. Max(hit) \in 1..HeadHeight(a)
  BY <1>2, <1>3, <1>4, <1>5, MaxOfInterval
<1>7. PICK m \in Height : m = Max(hit) /\ m <= HeadHeight(a)
  BY <1>2, <1>6, BodyAssumption DEF Height
<1>8. byHeight[a][m] = Nil
  BY <1>4, <1>7 DEF AtHeight
<1> QED
  BY <1>7, <1>8 DEF DiskInv, Linked

\* A receipt on a chain that lost nothing lies at or below the head.
LEMMA ReceiptBelowHead ==
    ASSUME TypeInv, DiskInv, NEW q \in ABlock, NEW b, Receives(q, b), Sound(Body[q].signer)
    PROVE  /\ BlockHeight[q] <= HeadHeight(Body[q].signer)
           /\ AtHeight(Body[q].signer, BlockHeight[q]) = q
<1>1. PICK a \in Account, h \in Height : a = Body[q].signer /\ h = BlockHeight[q] /\ q # Nil
  BY BlockFacts
<1>2. byHeight[a][h] = q
  BY <1>1, OnDiskIs DEF Receives
<1> QED
  BY <1>1, <1>2 DEF DiskInv, Linked, AtHeight

LEMMA OnlyFirst ==
    ASSUME TypeInv, DiskInv, NEW a \in Account, Sound(a), NEW b \in ABlock,
           ~Receipt(a, b).hole, Receipt(a, b).block = Nil,
           NEW q \in ABlock, Receives(q, b), Body[q].signer = a
    PROVE  BlockHeight[q] = 0
<1>1. SUFFICES ASSUME BlockHeight[q] # 0
               PROVE  FALSE
  OBVIOUS
<1>2. BlockHeight[q] <= HeadHeight(a) /\ AtHeight(a, BlockHeight[q]) = q
  BY ReceiptBelowHead
<1>3. BlockHeight[q] \in 1..HeadHeight(a)
  <2>1. BlockHeight[q] \in Int /\ BlockHeight[q] >= 0 /\ HeadHeight(a) \in Int
    BY BlockFacts, HeadFacts DEF TypeInv, LedgerTypeOK, DiskTypeOK
  <2> QED
    BY <1>1, <1>2, <2>1
<1> QED
  BY <1>2, <1>3, NoReceipt DEF Receives

LEMMA VerifiedReceipt ==
    ASSUME TypeInv, DiskInv, NEW r \in ABlock, Body[r].blockType = "RECEIVED",
           VerifyAccount(r) = "SUCCESS", ~VerifyPanics(r)
    PROVE  /\ Backed(r)
           /\ Sound(Body[r].signer) /\ BlockHeight[r] # 0 => FirstReceipt(r)
<1>1. VerifySelf(r) = "SUCCESS" /\ VerifyFrom(r) = "SUCCESS"
  BY VerifiedNext
<1>2. PICK b \in ABlock : b = Body[r].source /\ Body[b].to = Body[r].signer
                          /\ Body[r].to = Body[r].signer
  BY ReceiptFacts
<1>3. PICK a \in Account : a = Body[r].signer
  BY BlockFacts
<1>4. Backed(r)
  <2>1. AtHeight(Body[b].signer, BlockHeight[b]) = b /\ Body[b].modified + Body[r].modified = 0
    BY <1>1, <1>2 DEF VerifyFrom
  <2>2. Body[b].modified \in Int /\ Body[r].modified \in Int
    BY BlockFacts
  <2> QED
    BY <1>2, <2>1, <2>2 DEF Backed, OnDisk
<1>5. ASSUME Sound(a), BlockHeight[r] # 0
      PROVE  FirstReceipt(r)
  <2>1. Receipt(a, b).block = Nil
    BY <1>1, <1>2, <1>3, <1>5 DEF VerifySelf
  <2>2. BlockHeight[r] > 0
    BY <1>5, BlockFacts
  <2>3. ~Receipt(a, b).hole
    BY <1>2, <1>3, <2>2 DEF VerifyPanics
  <2>4. ASSUME NEW q \in ABlock, Receives(q, b)
        PROVE  Body[q].signer = a
    BY <1>2, <1>3, <2>4, ReceiptFacts DEF Receives
  <2> QED
    BY <1>2, <1>5, <2>1, <2>3, <2>4, OnlyFirst DEF FirstReceipt
<1> QED
  BY <1>3, <1>4, <1>5

LEMMA DiskReceiptsStep ==
    ASSUME TypeInv, DiskInv, ReceiptInv, Effect
    PROVE  DiskReceipts'
<1>1. SUFFICES ASSUME NEW r \in ABlock, OnDisk(r)', Body[r].blockType = "RECEIVED"
               PROVE  Backed(r)'
  BY DEF DiskReceipts
<1>2. Backed(r)
  <2>1. CASE OnDisk(r)
    BY <1>1, <2>1 DEF ReceiptInv, DiskReceipts
  <2>2. CASE ~OnDisk(r)
    <3>1. PICK s \in Slot : Puts(s, r)
      BY <1>1, <2>2, NewOnDisk
    <3> QED
      BY <1>1, <3>1 DEF ReceiptInv, ProcReceipts, Puts
  <2> QED
    BY <2>1, <2>2
<1> QED
  BY <1>1, <1>2, BackedStays

\* Of two receipts of one block, the one that was just written is the first
\* block of the account, or the other one is.
LEMMA WrittenOnce ==
    ASSUME TypeInv, DiskInv, ReceiptInv, Effect, NEW r \in ABlock, NEW q \in ABlock, r # q,
           NEW s \in Slot, Puts(s, r), Body[r].blockType = "RECEIVED",
           Body[q].blockType = "RECEIVED", Body[q].source = Body[r].source,
           OnDisk(q)', Sound(Body[r].signer)
    PROVE  BlockHeight[r] = 0 \/ BlockHeight[q] = 0
<1>1. OnDisk(q)
  <2>1. SUFFICES ASSUME NEW t \in Slot, Puts(t, q)
                 PROVE  FALSE
    BY NewOnDisk
  <2>2. s # t => ProcAt(t)' = ProcAt(t)
    BY DEF Puts, Others
  <2> QED
    BY <2>1, <2>2 DEF Puts
<1>2. ProcReceipts(ProcAt(s)) /\ ProcAt(s).pc = "verified" /\ ProcAt(s).block = r
  BY DEF ReceiptInv, Puts
<1>3. BlockHeight[r] # 0 => FirstReceipt(r)
  BY <1>2 DEF ProcReceipts
<1>4. Receives(q, Body[r].source)
  BY <1>1 DEF Receives
<1> QED
  BY <1>3, <1>4 DEF FirstReceipt

LEMMA ReceiptsOnceStep ==
    ASSUME TypeInv, DiskInv, ReceiptInv, Effect
    PROVE  ReceiptsOnce'
<1>1. SUFFICES ASSUME NEW r \in ABlock, NEW q \in ABlock,
                      Receives(r, Body[r].source)', Receives(q, Body[r].source)',
                      r # q, Sound(Body[r].signer)'
               PROVE  BlockHeight[r] = 0 \/ BlockHeight[q] = 0
  BY DEF ReceiptsOnce
<1>2. /\ OnDisk(r)' /\ OnDisk(q)' /\ Body[r].blockType = "RECEIVED"
      /\ Body[q].blockType = "RECEIVED" /\ Body[q].source = Body[r].source
  BY <1>1 DEF Receives
<1>3. Body[q].signer = Body[r].signer
  BY <1>2, ReceiptFacts
<1>4. Sound(Body[r].signer)
  BY <1>1, AccountEffect, BlockFacts
<1>5. CASE OnDisk(r) /\ OnDisk(q)
  BY <1>1, <1>2, <1>4, <1>5 DEF ReceiptInv, ReceiptsOnce, Receives
<1>6. CASE ~OnDisk(r)
  BY <1>1, <1>2, <1>4, <1>6, NewOnDisk, WrittenOnce
<1>7. CASE ~OnDisk(q)
  BY <1>1, <1>2, <1>3, <1>4, <1>7, NewOnDisk, WrittenOnce
<1> QED
  BY <1>5, <1>6, <1>7

LEMMA ProcReceiptsStep ==
    ASSUME TypeInv, DiskInv, ReceiptInv, Effect, NEW t \in Slot
    PROVE  ProcReceipts(ProcAt(t))'
<1>1. CASE /\ ProcAt(t)' = ProcAt(t) /\ ProcAt(t).pc \in {"verified", "put"}
           /\ Body[ProcAt(t).block].blockType = "RECEIVED"
  <2>1. PICK r \in ABlock : r = ProcAt(t).block
    BY <1>1, SlotType
  <2>2. PICK a \in Account : a = Body[r].signer
    BY BlockFacts
  <2>3. Backed(r)'
    BY <1>1, <2>1, BackedStays DEF ReceiptInv, ProcReceipts
  <2>4. ASSUME ProcAt(t).pc = "verified", Sound(a)', BlockHeight[r] # 0,
               NEW q \in ABlock, Receives(q, Body[r].source)'
        PROVE  BlockHeight[q] = 0
    <3>1. Sound(a)
      BY <2>4, AccountEffect
    <3>2. FirstReceipt(r)
      BY <1>1, <2>1, <2>2, <2>4, <3>1 DEF ReceiptInv, ProcReceipts
    <3>3. Body[q].signer = a /\ Body[q].blockType = "RECEIVED" /\ Body[q].source = Body[r].source
          /\ OnDisk(q)'
      BY <1>1, <2>1, <2>2, <2>4, ReceiptFacts DEF Receives
    <3>4. OnDisk(q)
      <4>1. SUFFICES ASSUME NEW s \in Slot, Puts(s, q)
                     PROVE  FALSE
        BY <3>3, NewOnDisk
      <4>2. Busy(ProcAt(s), a) /\ Busy(ProcAt(t), a)
        BY <1>1, <2>1, <2>2, <3>3, <4>1 DEF Busy, Puts
      <4>3. s = t
        BY <4>2 DEF DiskInv, Mutex
      <4> QED
        BY <1>1, <4>1, <4>3 DEF Puts
    <3> QED
      BY <3>2, <3>3, <3>4 DEF FirstReceipt, Receives
  <2> QED
    BY <1>1, <2>1, <2>2, <2>3, <2>4 DEF ProcReceipts, FirstReceipt
<1>2. CASE /\ ProcAt(t)' = ProcAt(t)
           /\ ~(ProcAt(t).pc \in {"verified", "put"} /\ Body[ProcAt(t).block].blockType = "RECEIVED")
  BY <1>2 DEF ProcReceipts
<1>3. CASE Moves(t)
  BY <1>3 DEF ProcReceipts, Moves
<1>4. ASSUME NEW r \in ABlock, Verifies(t, r)
      PROVE  ProcReceipts(ProcAt(t))'
  <2>1. SUFFICES ASSUME Body[r].blockType = "RECEIVED"
                 PROVE  Backed(r)' /\ (Sound(Body[r].signer)' /\ BlockHeight[r] # 0 => FirstReceipt(r)')
    BY <1>4 DEF ProcReceipts, Verifies
  <2>2. Backed(r) /\ (Sound(Body[r].signer) /\ BlockHeight[r] # 0 => FirstReceipt(r))
    BY <1>4, <2>1, VerifiedReceipt DEF Verifies
  <2>3. byHeight' = byHeight /\ spoiled' = spoiled
    BY <1>4 DEF Verifies
  <2>4. Backed(r)'
    BY <2>1, <2>2, BackedStays
  <2>5. FirstReceipt(r)' <=> FirstReceipt(r)
    BY <2>3 DEF FirstReceipt, Receives, OnDisk, AtHeight
  <2> QED
    BY <2>2, <2>3, <2>4, <2>5 DEF Sound
<1>5. ASSUME NEW r \in ABlock, Puts(t, r)
      PROVE  ProcReceipts(ProcAt(t))'
  <2>1. Body[r].blockType = "RECEIVED" => Backed(r)
    BY <1>5 DEF ReceiptInv, ProcReceipts, Puts
  <2>2. Body[r].blockType = "RECEIVED" => Backed(r)'
    BY <2>1, BackedStays
  <2> QED
    BY <1>5, <2>2 DEF ProcReceipts, Puts
<1>6. ASSUME NEW r \in ABlock, Notifies(t, r)
      PROVE  ProcReceipts(ProcAt(t))'
  BY <1>6 DEF ProcReceipts, Notifies
<1> QED
  BY <1>1, <1>2, <1>3, <1>4, <1>5, <1>6, ProcEffect

LEMMA ReceiptInvStep ==
    ASSUME TypeInv, DiskInv, ReceiptInv, Effect
    PROVE  ReceiptInv'
<1>1. \A s \in Slot : ProcReceipts(ProcAt(s))'
  BY ProcReceiptsStep
<1> QED
  BY <1>1, DiskReceiptsStep, ReceiptsOnceStep DEF ReceiptInv

LEMMA ReceiptInvSuffices ==
    ASSUME ReceiptInv
    PROVE  ReceiptsBacked
<1>1. SUFFICES ASSUME NEW r \in ABlock, NEW b \in ABlock, Receives(r, b)
               PROVE  /\ OnDisk(b) \/ ~Sound(Body[b].signer)
                      /\ Body[r].modified + Body[b].modified = 0
                      /\ \A q \in ABlock : Receives(q, b) /\ q # r =>
                            \/ ~Sound(Body[r].signer)
                            \/ BlockHeight[q] = 0 \/ BlockHeight[r] = 0
  BY DEF ReceiptsBacked
<1>2. Backed(r) /\ Body[r].source = b
  BY <1>1 DEF ReceiptInv, DiskReceipts, Receives
<1>3. \A q \in ABlock : Receives(q, b) /\ q # r =>
          ~Sound(Body[r].signer) \/ BlockHeight[q] = 0 \/ BlockHeight[r] = 0
  BY <1>1, <1>2 DEF ReceiptInv, ReceiptsOnce
<1> QED
  BY <1>2, <1>3 DEF Backed

-----------------------------------------------------------------------------
(***************************************************************************)
(* The request pool has heard of what is on disk, except for the blocks    *)
(* whose insertion is not yet over.                                        *)
(***************************************************************************)
PutOf(b) == \E s \in Slot : ProcAt(s).pc = "put" /\ ProcAt(s).block = b
Heard(b) == OnDisk(b) /\ Body[b].blockType = "SEND" /\ ~PutOf(b)
HeardReceipt(b) == \E r \in ABlock : Receives(r, b) /\ ~PutOf(r)

ReqsKnown == \A b \in ABlock : OnDisk(b) /\ Body[b].blockType = "SEND" => reqs[b] # -1 \/ PutOf(b)

ReqState(b) ==
    /\ HeardReceipt(b) => Heard(b)
    /\ reqs[b] = IF ~Heard(b) THEN -1 ELSE IF HeardReceipt(b) THEN 1 ELSE 2

ReqInv == /\ ReqsKnown
          /\ spoiled = {} => \A b \in ABlock : ReqState(b)

\* The request pool drops no entry.
LEMMA ReqsStay ==
    ASSUME TypeInv, Effect, NEW b \in ABlock, reqs[b] # -1
    PROVE  reqs'[b] # -1
<1>1. reqs \in [ABlock -> -1..2]
  BY DEF TypeInv, LedgerTypeOK, DiskTypeOK
<1>2. ASSUME NEW c \in ABlock
      PROVE  BlockInsert(c)[b] # -1 /\ BlockRollback(c)[b] # -1
  <2>1. CASE Body[c].blockType = "SEND"
    BY <1>1, <2>1 DEF BlockInsert, BlockRollback
  <2>2. CASE Body[c].blockType = "RECEIVED"
    BY <1>1, <2>2, ReceiptFacts DEF BlockInsert, BlockRollback
  <2>3. CASE Body[c].blockType \notin {"SEND", "RECEIVED"}
    BY <2>3 DEF BlockInsert, BlockRollback
  <2> QED
    BY <2>1, <2>2, <2>3
<1>3. reqs' = reqs \/ \E c \in ABlock : reqs' = BlockInsert(c) \/ reqs' = BlockRollback(c)
  BY DEF Effect, Quiet, Moves, Verifies, Puts, Notifies, Spoils
<1> QED
  BY <1>2, <1>3

\* Who is between writing a block and telling the request pool.
LEMMA PutOfKept ==
    ASSUME NEW t \in Slot, Others(t), ProcAt(t).pc # "put", ProcAt(t)'.pc # "put", NEW b
    PROVE  PutOf(b)' <=> PutOf(b)
<1>1. ASSUME NEW s \in Slot
      PROVE  (ProcAt(s)'.pc = "put" /\ ProcAt(s)'.block = b) <=> (ProcAt(s).pc = "put" /\ ProcAt(s).block = b)
  BY DEF Others
<1> QED
  BY <1>1 DEF PutOf

LEMMA PutOfSame ==
    ASSUME AllProcs, NEW b
    PROVE  PutOf(b)' <=> PutOf(b)
BY DEF AllProcs, PutOf

LEMMA PutOfPut ==
    ASSUME NEW t \in Slot, NEW c \in ABlock, Puts(t, c), NEW b
    PROVE  PutOf(b)' <=> PutOf(b) \/ b = c
<1>1. ProcAt(t).pc = "verified" /\ ProcAt(t)'.pc = "put" /\ ProcAt(t)'.block = c
  BY DEF Puts
<1>2. \A s \in Slot : s # t => ProcAt(s)' = ProcAt(s)
  BY DEF Puts, Others
<1>3. ASSUME PutOf(b)' PROVE PutOf(b) \/ b = c
  <2>1. PICK s \in Slot : ProcAt(s)'.pc = "put" /\ ProcAt(s)'.block = b
    BY <1>3 DEF PutOf
  <2> QED
    BY <1>1, <1>2, <2>1 DEF PutOf
<1>4. ASSUME PutOf(b) PROVE PutOf(b)'
  <2>1. PICK s \in Slot : ProcAt(s).pc = "put" /\ ProcAt(s).block = b
    BY <1>4 DEF PutOf
  <2>2. ProcAt(s)' = ProcAt(s)
    BY <1>1, <1>2, <2>1
  <2> QED
    BY <2>1, <2>2 DEF PutOf
<1>5. ASSUME b = c PROVE PutOf(b)'
  BY <1>1, <1>5 DEF PutOf
<1> QED
  BY <1>3, <1>4, <1>5

LEMMA PutOfNotified ==
    ASSUME TypeInv, Mutex, NEW t \in Slot, NEW c \in ABlock, Notifies(t, c), NEW b \in ABlock
    PROVE  PutOf(c) /\ (PutOf(b)' <=> PutOf(b) /\ b # c)
<1>1. ProcAt(t).pc = "put" /\ ProcAt(t).block = c /\ ProcAt(t)'.pc # "put"
  BY DEF Notifies
<1>2. \A s \in Slot : s # t => ProcAt(s)' = ProcAt(s)
  BY DEF Notifies, Others
<1>3. ASSUME NEW s \in Slot, ProcAt(s).pc = "put", ProcAt(s).block = c
      PROVE  s = t
  <2>1. Busy(ProcAt(s), Body[c].signer) /\ Busy(ProcAt(t), Body[c].signer)
    BY <1>1, <1>3 DEF Busy
  <2> QED
    BY <2>1, BlockFacts DEF Mutex
<1>4. ASSUME PutOf(b)' PROVE PutOf(b) /\ b # c
  <2>1. PICK s \in Slot : ProcAt(s)'.pc = "put" /\ ProcAt(s)'.block = b
    BY <1>4 DEF PutOf
  <2>2. s # t /\ ProcAt(s)' = ProcAt(s)
    BY <1>1, <1>2, <2>1
  <2> QED
    BY <1>3, <2>1, <2>2 DEF PutOf
<1>5. ASSUME PutOf(b), b # c PROVE PutOf(b)'
  <2>1. PICK s \in Slot : ProcAt(s).pc = "put" /\ ProcAt(s).block = b
    BY <1>5 DEF PutOf
  <2>2. ProcAt(s)' = ProcAt(s)
    BY <1>1, <1>2, <1>5, <2>1
  <2> QED
    BY <2>1, <2>2 DEF PutOf
<1> QED
  BY <1>1, <1>4, <1>5 DEF PutOf

LEMMA ReqsKnownStep ==
    ASSUME TypeInv, DiskInv, ReqsKnown, Effect
    PROVE  ReqsKnown'
<1>1. SUFFICES ASSUME NEW b \in ABlock, OnDisk(b)', Body[b].blockType = "SEND", ~PutOf(b)'
               PROVE  reqs'[b] # -1
  BY DEF ReqsKnown
<1>2. ASSUME NEW t \in Slot, NEW c \in ABlock, Notifies(t, c)
      PROVE  b = c => reqs'[b] # -1
  <2>1. b = c => reqs' = [reqs EXCEPT ![b] = 2]
    BY <1>1, <1>2 DEF Notifies, BlockInsert
  <2> QED
    BY <2>1 DEF TypeInv, LedgerTypeOK, DiskTypeOK
<1>3. OnDisk(b)
  <2>1. SUFFICES ASSUME NEW s \in Slot, Puts(s, b)
                 PROVE  FALSE
    BY <1>1, NewOnDisk
  <2> QED
    BY <1>1, <2>1, PutOfPut
<1>4. reqs[b] # -1 \/ PutOf(b)
  BY <1>1, <1>3 DEF ReqsKnown
<1>5. CASE PutOf(b)
  <2>1. PICK s \in Slot : ProcAt(s).pc = "put" /\ ProcAt(s).block = b
    BY <1>5 DEF PutOf
  <2>2. ProcAt(s)' # ProcAt(s)
    BY <1>1, <2>1 DEF PutOf
  <2>3. Moves(s) \/ \E c \in ABlock : Verifies(s, c) \/ Puts(s, c) \/ Notifies(s, c)
    BY <2>2, ProcEffect
  <2>4. PICK c \in ABlock : Notifies(s, c)
    BY <2>1, <2>3 DEF Moves, Verifies, Puts
  <2>5. b = c
    BY <2>1, <2>4 DEF Notifies
  <2> QED
    BY <1>2, <2>4, <2>5
<1> QED
  BY <1>4, <1>5, ReqsStay

\* Nothing that ReqState reads has changed.
LEMMA ReqStateKept ==
    ASSUME NEW b \in ABlock, ReqState(b), UNCHANGED <<byHeight, reqs>>,
           \A x \in ABlock : PutOf(x)' <=> PutOf(x)
    PROVE  ReqState(b)'
<1>1. \A x \in ABlock : OnDisk(x)' <=> OnDisk(x)
  BY DEF OnDisk, AtHeight
<1>2. Heard(b)' <=> Heard(b)
  BY <1>1 DEF Heard
<1>3. HeardReceipt(b)' <=> HeardReceipt(b)
  BY <1>1 DEF HeardReceipt, Receives
<1> QED
  BY <1>2, <1>3 DEF ReqState

\* A block that is written is not heard of yet.
LEMMA ReqStatePut ==
    ASSUME TypeInv, DiskInv, NEW t \in Slot, NEW c \in ABlock, Puts(t, c),
           Sound(Body[c].signer), NEW b \in ABlock, ReqState(b)
    PROVE  ReqState(b)'
<1>1. PICK a \in Account, h \in Height : a = Body[c].signer /\ h = BlockHeight[c]
  BY BlockFacts
<1>2. byHeight \in [Account -> [Height -> BlockOrNil]] /\ head \in [Account -> BlockOrNil]
  BY DEF TypeInv, LedgerTypeOK, DiskTypeOK
<1>3. NextToHead(c) /\ Linked(a)
  BY <1>1 DEF DiskInv, ProcLinked, Puts
<1>4. byHeight[a][h] = Nil
  <2>1. h = HeadHeight(a) + 1 /\ HeadHeight(a) \in Int
    BY <1>1, <1>2, <1>3, HeadFacts DEF NextToHead
  <2>2. ~(h <= HeadHeight(a))
    BY <2>1
  <2> QED
    BY <1>3, <2>2 DEF Linked
<1>5. ~OnDisk(c)
  BY <1>1, <1>4, OnDiskIs, BlockFacts
<1>6. ASSUME NEW x \in ABlock
      PROVE  OnDisk(x)' <=> OnDisk(x) \/ x = c
  <2>1. byHeight'[Body[x].signer][BlockHeight[x]] =
            IF Body[x].signer = a /\ BlockHeight[x] = h THEN c
            ELSE byHeight[Body[x].signer][BlockHeight[x]]
    BY <1>1, <1>2, BlockFacts DEF Puts, Put
  <2> QED
    BY <1>1, <1>4, <2>1, OnDiskIs, OnDiskAfter, BlockFacts
<1>7. \A x \in ABlock : PutOf(x)' <=> PutOf(x) \/ x = c
  BY PutOfPut
<1>8. Heard(b)' <=> Heard(b)
  BY <1>5, <1>6, <1>7 DEF Heard
<1>9. HeardReceipt(b)' <=> HeardReceipt(b)
  BY <1>5, <1>6, <1>7 DEF HeardReceipt, Receives
<1>10. reqs' = reqs
  BY DEF Puts
<1> QED
  BY <1>8, <1>9, <1>10 DEF ReqState

LEMMA ReqStateNotified ==
    ASSUME TypeInv, DiskInv, NEW t \in Slot, NEW c \in ABlock, Notifies(t, c),
           Sound(Body[c].signer), \A x \in ABlock : ReqState(x), NEW b \in ABlock
    PROVE  ReqState(b)'
<1>1. PICK a \in Account : a = Body[c].signer
  BY BlockFacts
<1>2. reqs \in [ABlock -> -1..2]
  BY DEF TypeInv, LedgerTypeOK, DiskTypeOK
<1>3. OnDisk(c)
  <2>1. head[a] = c /\ Linked(a)
    BY <1>1 DEF DiskInv, ProcLinked, Notifies
  <2>2. HeadHeight(a) = BlockHeight[c] /\ head[a] # Nil
    BY <2>1, BlockFacts DEF HeadHeight
  <2> QED
    BY <1>1, <2>1, <2>2, OnDiskIs DEF Linked
<1>4. \A x \in ABlock : OnDisk(x)' <=> OnDisk(x)
  BY DEF OnDisk, AtHeight, Notifies
<1>5. PutOf(c) /\ \A x \in ABlock : PutOf(x)' <=> PutOf(x) /\ x # c
  BY PutOfNotified DEF DiskInv
<1>6. Heard(b)' <=> Heard(b) \/ (b = c /\ Body[c].blockType = "SEND")
  BY <1>3, <1>4, <1>5 DEF Heard
<1>7. HeardReceipt(b)' <=> HeardReceipt(b) \/ (Body[c].blockType = "RECEIVED" /\ Body[c].source = b)
  <2>1. ASSUME HeardReceipt(b)'
        PROVE  HeardReceipt(b) \/ (Body[c].blockType = "RECEIVED" /\ Body[c].source = b)
    <3>1. PICK r \in ABlock : Receives(r, b)' /\ ~PutOf(r)'
      BY <2>1 DEF HeardReceipt
    <3> QED
      BY <1>4, <1>5, <3>1 DEF HeardReceipt, Receives
  <2>2. ASSUME HeardReceipt(b)
        PROVE  HeardReceipt(b)'
    <3>1. PICK r \in ABlock : Receives(r, b) /\ ~PutOf(r)
      BY <2>2 DEF HeardReceipt
    <3> QED
      BY <1>4, <1>5, <3>1 DEF HeardReceipt, Receives
  <2>3. ASSUME Body[c].blockType = "RECEIVED", Body[c].source = b
        PROVE  HeardReceipt(b)'
    BY <1>3, <1>4, <1>5, <2>3 DEF HeardReceipt, Receives
  <2> QED
    BY <2>1, <2>2, <2>3
<1>8. ReqState(b) /\ ~Heard(c) /\ (HeardReceipt(c) => Heard(c))
  BY <1>5 DEF ReqState, Heard
<1>9. CASE Body[c].blockType = "SEND"
  <2>1. reqs'[b] = IF b = c THEN 2 ELSE reqs[b]
    BY <1>2, <1>9 DEF Notifies, BlockInsert
  <2> QED
    BY <1>6, <1>7, <1>8, <1>9, <2>1 DEF ReqState
<1>10. CASE Body[c].blockType = "RECEIVED"
  <2>1. PICK d \in ABlock : d = Body[c].source
    BY <1>10, ReceiptFacts
  <2>2. reqs'[b] = IF b = d THEN 1 ELSE reqs[b]
    BY <1>2, <1>10, <2>1 DEF Notifies, BlockInsert
  <2>3. reqs[d] # -1
    BY <1>10, <2>1 DEF Notifies, Unheard, NoReq, ReqOf
  <2>4. Heard(d)
    BY <2>3 DEF ReqState
  <2> QED
    BY <1>6, <1>7, <1>8, <1>10, <2>1, <2>2, <2>4 DEF ReqState
<1>11. Body[c].blockType \in {"SEND", "RECEIVED"}
  BY SlotType, BlockFacts DEF Notifies, ProcShape, BlockType
<1> QED
  BY <1>9, <1>10, <1>11

LEMMA ReqInvStep ==
    ASSUME TypeInv, DiskInv, ReqInv, Effect
    PROVE  ReqInv'
<1>1. SUFFICES ASSUME spoiled' = {}, NEW b \in ABlock
               PROVE  ReqState(b)'
  BY ReqsKnownStep DEF ReqInv
<1>2. spoiled = {} /\ \A a \in Account : ~Spoils(a)
  BY <1>1 DEF Effect, Quiet, Moves, Verifies, Puts, Notifies, Spoils
<1>3. \A x \in ABlock : ReqState(x) /\ Sound(Body[x].signer)
  BY <1>2 DEF ReqInv, Sound
<1>4. CASE Quiet
  BY <1>3, <1>4, PutOfSame, ReqStateKept DEF Quiet
<1>5. ASSUME NEW s \in Slot, Moves(s)
      PROVE  ReqState(b)'
  <2>1. \A x \in ABlock : PutOf(x)' <=> PutOf(x)
    BY <1>5, PutOfKept DEF Moves
  <2> QED
    BY <1>3, <1>5, <2>1, ReqStateKept DEF Moves
<1>6. ASSUME NEW s \in Slot, NEW c \in ABlock, Verifies(s, c)
      PROVE  ReqState(b)'
  <2>1. \A x \in ABlock : PutOf(x)' <=> PutOf(x)
    BY <1>6, PutOfKept DEF Verifies
  <2> QED
    BY <1>3, <1>6, <2>1, ReqStateKept DEF Verifies
<1>7. ASSUME NEW s \in Slot, NEW c \in ABlock, Puts(s, c)
      PROVE  ReqState(b)'
  BY <1>3, <1>7, ReqStatePut
<1>8. ASSUME NEW s \in Slot, NEW c \in ABlock, Notifies(s, c)
      PROVE  ReqState(b)'
  BY <1>3, <1>8, ReqStateNotified
<1> QED
  BY <1>2, <1>4, <1>5, <1>6, <1>7, <1>8 DEF Effect

LEMMA ReqInvSuffices ==
    ASSUME TypeInv, ReqInv
    PROVE  RequestsOpen
<1>1. SUFFICES ASSUME spoiled = {}, \A a \in Account : ~Writing(a)
               PROVE  \A a \in Account :
                        ListRequest(a) = {b \in ABlock : /\ OnDisk(b)
                                             /\ Body[b].blockType = "SEND" /\ Body[b].to = a
                                             /\ ~\E r \in ABlock : Receives(r, b)}
  BY DEF RequestsOpen
<1>2. ASSUME NEW b \in ABlock
      PROVE  ~PutOf(b)
  <2>1. SUFFICES ASSUME NEW s \in Slot, ProcAt(s).pc = "put", ProcAt(s).block = b
                 PROVE  FALSE
    BY DEF PutOf
  <2>2. Busy(ProcAt(s), Body[b].signer) /\ Body[b].signer \in Account
    BY <2>1, BlockFacts DEF Busy
  <2> QED
    BY <1>1, <2>2, RMuSlots DEF Writing
<1>3. ASSUME NEW b \in ABlock
      PROVE  reqs[b] \in {0, 2} <=> OnDisk(b) /\ Body[b].blockType = "SEND"
                                    /\ ~\E r \in ABlock : Receives(r, b)
  <2>1. ReqState(b)
    BY <1>1 DEF ReqInv
  <2>2. Heard(b) <=> OnDisk(b) /\ Body[b].blockType = "SEND"
    BY <1>2 DEF Heard
  <2>3. HeardReceipt(b) <=> \E r \in ABlock : Receives(r, b)
    BY <1>2 DEF HeardReceipt
  <2> QED
    BY <2>1, <2>2, <2>3 DEF ReqState
<1> QED
  BY <1>3 DEF ListRequest

-----------------------------------------------------------------------------
(***************************************************************************)
(* The account pools.  No chain of a pool starts above the disk's head, no *)
(* chain has a gap, the current chain starts at the head except while a    *)
(* block is being written or the pool is being switched, and loopTryInsert *)
(* inserts the lowest block of the current chain.                          *)
(***************************************************************************)
Putting(a) == \E s \in Slot : ProcAt(s).pc = "put" /\ Body[ProcAt(s).block].signer = a

Contig(k) == \A h \in Height : k.tailHeight < h /\ h <= k.headHeight => k.heightBlocks[h] # Nil

AtDisk(a) == Current(a).tailHeight = HeadHeight(a) /\ Current(a).tailHash \in {head[a], Nil}

\* "next" comes after the block has left the chain.
Below == IF inserter.pc = "next" THEN BlockHeight[inserter.block]
         ELSE BlockHeight[inserter.block] - 1

InsertsNext(a) == inserter.chain = current[a] /\ Current(a).tailHeight = Below

PoolInvOf(a) ==
    Sound(a) =>
        /\ \A c \in 1..Len(chains[a]) : chains[a][c].tailHeight <= HeadHeight(a)
        /\ a \notin strayed =>
              /\ \A c \in 1..Len(chains[a]) : Contig(chains[a][c])
              /\ HasPool(a) /\ ~Putting(a) /\ ~Switching(a) => AtDisk(a)
              /\ Busy(inserter, a) => InsertsNext(a)

RollbackBelow == snap.pc = "rollback" /\ Sound(snap.acc) => snap.height <= HeadHeight(snap.acc)

PoolInv == RollbackBelow /\ \A a \in Account : PoolInvOf(a)

\* The head of a chain that loses nothing only rises, and stays where it is
\* unless a block is being written.
LEMMA HeadRises ==
    ASSUME TypeInv, DiskInv, Effect, NEW a \in Account, Sound(a)'
    PROVE  /\ HeadHeight(a) \in Int /\ HeadHeight(a)' \in Int
           /\ HeadHeight(a) <= HeadHeight(a)'
           /\ ~Putting(a)' => head'[a] = head[a] /\ HeadHeight(a)' = HeadHeight(a)
<1>1. head \in [Account -> BlockOrNil]
  BY DEF TypeInv, LedgerTypeOK, DiskTypeOK
<1>2. PICK n \in Int : n = HeadHeight(a)
  BY <1>1, HeadFacts
<1>3. CASE head'[a] = head[a]
  <2>1. HeadHeight(a)' = HeadHeight(a)
    BY <1>3 DEF HeadHeight
  <2> QED
    BY <1>2, <1>3, <2>1
<1>4. ASSUME NEW s \in Slot, NEW b \in ABlock, Puts(s, b), Body[b].signer = a
      PROVE  HeadHeight(a)' = n + 1 /\ Putting(a)'
  <2>1. NextToHead(b)
    BY <1>4, AccountEffect DEF DiskInv, ProcLinked, Puts
  <2>2. head'[a] = b
    BY <1>1, <1>4 DEF Puts, Put
  <2>3. HeadHeight(a)' = BlockHeight[b]
    BY <2>2, BlockFacts DEF HeadHeight
  <2>4. Putting(a)'
    BY <1>4 DEF Putting, Puts
  <2> QED
    BY <1>2, <1>4, <2>1, <2>3, <2>4 DEF NextToHead
<1> QED
  BY <1>2, <1>3, <1>4, AccountEffect

\* What most steps leave of an account's pool.
Calm(a) ==
    /\ a \in strayed => a \in strayed'
    /\ Switching(a) => Switching(a)'
    /\ Putting(a) => Putting(a)'
    /\ \A c \in 1..Len(chains'[a]) :
          \/ c \in 1..Len(chains[a]) /\ chains'[a][c] = chains[a][c]
          \/ /\ Sound(a)' => chains'[a][c].tailHeight <= HeadHeight(a)
             /\ Sound(a)' /\ a \notin strayed => Contig(chains'[a][c])
    /\ current'[a] = current[a]
    /\ \/ HasPool(a) => /\ Current(a)'.tailHeight = Current(a).tailHeight
                        /\ Current(a)'.tailHash = Current(a).tailHash
       \/ a \in strayed'
       \/ Switching(a)' /\ ~Busy(inserter, a)'
    /\ Busy(inserter, a)' =>
          \/ /\ Busy(inserter, a) /\ inserter'.chain = inserter.chain /\ Below' = Below
          \/ InsertsNext(a)'
          \/ ~Sound(a)' \/ a \in strayed'

LEMMA ContigSame ==
    ASSUME NEW k, NEW m, m = k, Contig(k)
    PROVE  Contig(m)
BY DEF Contig

LEMMA CalmKeeps ==
    ASSUME TypeInv, TypeInv', DiskInv, Effect, NEW a \in Account, PoolInvOf(a), Calm(a)
    PROVE  PoolInvOf(a)'
<1>1. SUFFICES ASSUME Sound(a)'
               PROVE  /\ \A c \in 1..Len(chains'[a]) : chains'[a][c].tailHeight <= HeadHeight(a)'
                      /\ a \notin strayed' =>
                            /\ \A c \in 1..Len(chains'[a]) : Contig(chains'[a][c])
                            /\ HasPool(a)' /\ ~Putting(a)' /\ ~Switching(a)' => AtDisk(a)'
                            /\ Busy(inserter, a)' => InsertsNext(a)'
  BY DEF PoolInvOf, Contig
<1>2. Sound(a)
  BY <1>1, AccountEffect
<1>3. /\ HeadHeight(a) \in Int /\ HeadHeight(a)' \in Int /\ HeadHeight(a) <= HeadHeight(a)'
      /\ ~Putting(a)' => head'[a] = head[a] /\ HeadHeight(a)' = HeadHeight(a)
  BY <1>1, HeadRises
<1>4. ASSUME NEW c \in 1..Len(chains'[a])
      PROVE  chains'[a][c].tailHeight <= HeadHeight(a)'
  <2>1. chains'[a][c].tailHeight <= HeadHeight(a)
    BY <1>1, <1>2 DEF Calm, PoolInvOf
  <2>2. chains'[a] \in Seq(ChainRec)
    BY DEF TypeInv, LedgerTypeOK, PoolTypeOK
  <2>3. chains'[a][c] \in ChainRec
    BY <2>2
  <2>4. chains'[a][c].tailHeight \in Int
    BY <2>3 DEF ChainRec
  <2> QED
    BY <1>3, <2>1, <2>4
<1>5. ASSUME a \notin strayed', NEW c \in 1..Len(chains'[a])
      PROVE  Contig(chains'[a][c])
  <2>1. a \notin strayed
    BY <1>5 DEF Calm
  <2>2. CASE c \in 1..Len(chains[a]) /\ chains'[a][c] = chains[a][c]
    <3>1. Contig(chains[a][c])
      BY <1>2, <2>1, <2>2 DEF PoolInvOf
    <3> QED
      BY <2>2, <3>1, ContigSame
  <2>3. CASE ~(c \in 1..Len(chains[a]) /\ chains'[a][c] = chains[a][c])
    BY <1>1, <2>1, <2>3 DEF Calm
  <2> QED
    BY <2>2, <2>3
<1>6. ASSUME a \notin strayed', HasPool(a)', ~Putting(a)', ~Switching(a)'
      PROVE  AtDisk(a)'
  <2>1. a \notin strayed /\ HasPool(a) /\ ~Putting(a) /\ ~Switching(a)
    BY <1>6 DEF Calm, HasPool
  <2>2. AtDisk(a)
    BY <1>2, <2>1 DEF PoolInvOf
  <2>3. /\ Current(a)'.tailHeight = Current(a).tailHeight
        /\ Current(a)'.tailHash = Current(a).tailHash
    BY <1>6, <2>1 DEF Calm
  <2> QED
    BY <1>3, <1>6, <2>2, <2>3 DEF AtDisk
<1>7. ASSUME a \notin strayed', Busy(inserter, a)', ~InsertsNext(a)'
      PROVE  FALSE
  <2>1. /\ Busy(inserter, a) /\ inserter'.chain = inserter.chain /\ Below' = Below
        /\ a \notin strayed /\ current'[a] = current[a]
    BY <1>1, <1>7 DEF Calm
  <2>2. InsertsNext(a)
    BY <1>2, <2>1 DEF PoolInvOf
  <2>3. HasPool(a)
    BY <2>1 DEF Busy, TypeInv, LedgerTypeOK, ProcTypeOK
  <2>4. Current(a)'.tailHeight = Current(a).tailHeight
    BY <1>7, <2>3 DEF Calm
  <2> QED
    BY <1>7, <2>1, <2>2, <2>4 DEF InsertsNext
<1> QED
  BY <1>4, <1>5, <1>6, <1>7

LEMMA SamePool ==
    ASSUME NEW a, chains'[a] = chains[a], current'[a] = current[a]
    PROVE  /\ \A c \in 1..Len(chains'[a]) : c \in 1..Len(chains[a]) /\ chains'[a][c] = chains[a][c]
           /\ Current(a)'.tailHeight = Current(a).tailHeight
           /\ Current(a)'.tailHash = Current(a).tailHash
BY DEF Current

LEMMA PuttingSame ==
    ASSUME AllProcs, NEW a
    PROVE  Putting(a) => Putting(a)'
BY DEF AllProcs, Putting

LEMMA PuttingKept ==
    ASSUME NEW t \in Slot, Others(t), ProcAt(t).pc # "put", NEW a
    PROVE  Putting(a) => Putting(a)'
<1>1. SUFFICES ASSUME NEW s \in Slot, ProcAt(s).pc = "put", Body[ProcAt(s).block].signer = a
               PROVE  Putting(a)'
  BY DEF Putting
<1>2. ProcAt(s)' = ProcAt(s)
  BY <1>1 DEF Others
<1> QED
  BY <1>1, <1>2 DEF Putting

LEMMA KeptCalm ==
    ASSUME NEW a, chains'[a] = chains[a], current'[a] = current[a],
           UNCHANGED <<strayed, snap, caller, inserter>>
    PROVE  Calm(a)
<1>1. Putting(a) => Putting(a)'
  BY SameProcs, PuttingSame
<1>2. Switching(a) => Switching(a)'
  BY DEF Switching, Key
<1>3. (Busy(inserter, a)' => Busy(inserter, a)) /\ Below' = Below
  BY DEF Busy, Below
<1> QED
  BY <1>1, <1>2, <1>3, SamePool DEF Calm

LEMMA UnswitchedCalm ==
    ASSUME NEW a, chains'[a] = chains[a], current'[a] = current[a],
           UNCHANGED <<strayed, caller, inserter>>, ~Switching(a)
    PROVE  Calm(a)
<1>1. Putting(a) => Putting(a)'
  BY SameProcs, PuttingSame
<1>2. (Busy(inserter, a)' => Busy(inserter, a)) /\ Below' = Below
  BY DEF Busy, Below
<1> QED
  BY <1>1, <1>2, SamePool DEF Calm

LEMMA SnapCalm ==
    ASSUME NEW a, chains'[a] = chains[a], current'[a] = current[a],
           UNCHANGED <<strayed, caller, inserter>>, snap.pc # "refer"
    PROVE  Calm(a)
BY UnswitchedCalm DEF Switching

LEMMA CallerCalm ==
    ASSUME TypeInv, NEW a \in Account, UNCHANGED <<chains, current, strayed, snap, inserter>>,
           NEW g \in Caller, caller[g].pc # "put", \E p : caller' = [caller EXCEPT ![g] = p]
    PROVE  Calm(a)
<1>1. Putting(a) => Putting(a)'
  BY CallerMoves, PuttingKept
<1>2. Switching(a) => Switching(a)'
  BY DEF Switching, Key
<1>3. (Busy(inserter, a)' => Busy(inserter, a)) /\ Below' = Below
  BY DEF Busy, Below
<1> QED
  BY <1>1, <1>2, <1>3, SamePool DEF Calm

LEMMA InserterCalm ==
    ASSUME NEW a, UNCHANGED <<chains, current, strayed, snap, caller>>,
           inserter.pc # "put",
           Busy(inserter, a)' => \/ /\ Busy(inserter, a) /\ inserter'.chain = inserter.chain
                                    /\ Below' = Below
                                 \/ InsertsNext(a)'
                                 \/ ~Sound(a)' \/ a \in strayed'
    PROVE  Calm(a)
<1>1. Putting(a) => Putting(a)'
  BY InserterMoves, PuttingKept
<1>2. Switching(a) => Switching(a)'
  BY DEF Switching, Key
<1> QED
  BY <1>1, <1>2, SamePool DEF Calm

\* The block that loopTryInsert takes is the one above the tail of the current
\* chain, also when it is not the first of its walk.
LEMMA TryAtTail ==
    ASSUME NEW a \in Account, PoolInvOf(a), Sound(a), a \notin strayed
    PROVE  TryChain(a) = current[a] /\ TryHeight(a) = Current(a).tailHeight + 1
<1>1. CASE AtNext(a)
  <2>1. InsertsNext(a)
    BY <1>1 DEF PoolInvOf, AtNext, Busy
  <2> QED
    BY <1>1, <2>1 DEF InsertsNext, Below, TryChain, TryHeight, AtNext
<1>2. CASE ~AtNext(a)
  BY <1>2 DEF TryChain, TryHeight
<1> QED
  BY <1>1, <1>2

LEMMA VerifyCalm ==
    ASSUME TypeInv, NEW x \in Account, PoolInvOf(x), NEW a \in Account, TryInsertVerify(a)
    PROVE  Calm(x)
<1>1. /\ inserter.pc # "put" /\ UNCHANGED <<chains, current, spoiled, strayed, snap, caller>>
      /\ inserter' = [pc |-> "verified", block |-> NextOf(a), chain |-> TryChain(a), version |-> version]
      /\ NextOf(a) # Nil /\ HasPool(a)
  BY DEF TryInsertVerify, CanTryInsert, AtNext, dataVars, poolVars
<1>2. TryChain(a) \in 1..Len(chains[a]) /\ Current(a) \in ChainRec
  BY <1>1, TryChainThere, CurrentFacts, TypeParts
<1>3. PICK b \in ABlock : b = NextOf(a) /\ IsOf(b, a, TryHeight(a))
  BY <1>1, <1>2, OwnBlockFacts, TypeParts DEF NextOf, IsOf
<1>4. Current(a).tailHeight \in Int /\ Current(a)' = Current(a)
  BY <1>1, <1>2 DEF ChainRec, Current
<1>5. ASSUME Busy(inserter, x)', Sound(x)', x \notin strayed'
      PROVE  InsertsNext(x)'
  <2>1. x = a
    BY <1>1, <1>3, <1>5 DEF Busy, IsOf
  <2>2. Sound(a) /\ a \notin strayed
    BY <1>1, <1>5, <2>1 DEF Sound
  <2>3. TryChain(a) = current[a] /\ TryHeight(a) = Current(a).tailHeight + 1
    BY <2>1, <2>2, TryAtTail
  <2>4. Current(a).tailHeight = BlockHeight[b] - 1
    BY <1>3, <1>4, <2>3 DEF IsOf
  <2>5. inserter'.pc = "verified" /\ inserter'.block = b /\ inserter'.chain = current[a]
    BY <1>1, <1>3, <2>3
  <2> QED
    BY <1>1, <1>4, <2>1, <2>4, <2>5 DEF InsertsNext, Below
<1> QED
  BY <1>1, <1>5, InserterCalm

\* A new chain at the head.
LEMMA ChainAtFields ==
    ASSUME NEW a
    PROVE  /\ ChainAt(head[a]).tailHeight = HeadHeight(a) /\ ChainAt(head[a]).tailHash = head[a]
           /\ ChainAt(head[a]).headHeight = HeadHeight(a)
BY DEF ChainAt, HeadHeight

LEMMA EmptyContig ==
    ASSUME NEW k, k.tailHeight = k.headHeight, k.tailHeight \in Int
    PROVE  Contig(k)
BY DEF Contig, Height

LEMMA AppendedPool ==
    ASSUME TypeInv, NEW a \in Account, NEW k, chains'[a] = Append(chains[a], k)
    PROVE  /\ Len(chains[a]) \in Nat /\ Len(chains'[a]) = Len(chains[a]) + 1
           /\ chains'[a][Len(chains[a]) + 1] = k
           /\ \A c \in 1..Len(chains'[a]) : c # Len(chains[a]) + 1 =>
                 c \in 1..Len(chains[a]) /\ chains'[a][c] = chains[a][c]
<1>1. PICK q \in Seq(ChainRec) : q = chains[a]
  BY DEF TypeInv, LedgerTypeOK, PoolTypeOK
<1>2. chains'[a] = Append(q, k)
  BY <1>1
<1> QED
  BY <1>1, <1>2

LEMMA ReplacedPool ==
    ASSUME TypeInv, NEW a \in Account, NEW d \in 1..Len(chains[a]), NEW k,
           chains'[a] = [chains[a] EXCEPT ![d] = k]
    PROVE  /\ \A c \in 1..Len(chains'[a]) :
                 c \in 1..Len(chains[a]) /\ chains'[a][c] = (IF c = d THEN k ELSE chains[a][c])
           /\ chains'[a][d] = k
<1>1. PICK q \in Seq(ChainRec) : q = chains[a]
  BY DEF TypeInv, LedgerTypeOK, PoolTypeOK
<1>2. chains'[a] = [q EXCEPT ![d] = k]
  BY <1>1
<1> QED
  BY <1>1, <1>2

\* The current chain becomes an empty one at the head.
LEMMA CurrentAtHead ==
    ASSUME TypeInv, NEW a \in Account, PoolInvOf(a), head'[a] = head[a], Sound(a)' => Sound(a),
           a \in strayed => a \in strayed', ~Busy(inserter, a)', NEW n, NEW k,
           k.tailHeight = HeadHeight(a), k.tailHash = head[a], k.headHeight = HeadHeight(a),
           current'[a] = n, chains'[a][n] = k,
           \A c \in 1..Len(chains'[a]) :
               c # n => c \in 1..Len(chains[a]) /\ chains'[a][c] = chains[a][c]
    PROVE  PoolInvOf(a)'
<1>2. HeadHeight(a) \in Int /\ HeadHeight(a)' = HeadHeight(a)
  BY HeadFacts DEF TypeInv, LedgerTypeOK, DiskTypeOK, HeadHeight
<1>4. Contig(k)
  BY <1>2, EmptyContig
<1>6. Current(a)' = k
  BY DEF Current
<1>7. SUFFICES ASSUME Sound(a)'
               PROVE  /\ \A c \in 1..Len(chains'[a]) : chains'[a][c].tailHeight <= HeadHeight(a)'
                      /\ a \notin strayed' =>
                            /\ \A c \in 1..Len(chains'[a]) : Contig(chains'[a][c])
                            /\ AtDisk(a)'
  BY DEF PoolInvOf, Contig
<1>8. ASSUME NEW c \in 1..Len(chains'[a])
      PROVE  chains'[a][c].tailHeight <= HeadHeight(a)'
  <2>1. CASE c = n
    BY <1>2, <2>1
  <2>2. CASE c # n
    BY <1>2, <1>7, <2>2 DEF PoolInvOf
  <2> QED
    BY <2>1, <2>2
<1>9. ASSUME a \notin strayed', NEW c \in 1..Len(chains'[a])
      PROVE  Contig(chains'[a][c])
  <2>1. CASE c = n
    BY <1>4, <2>1, ContigSame
  <2>2. CASE c # n
    <3>1. Contig(chains[a][c]) /\ chains'[a][c] = chains[a][c]
      BY <1>7, <1>9, <2>2 DEF PoolInvOf
    <3> QED
      BY <3>1, ContigSame
  <2> QED
    BY <2>1, <2>2
<1>10. AtDisk(a)'
  BY <1>2, <1>6 DEF AtDisk
<1> QED
  BY <1>8, <1>9, <1>10

LEMMA NewCurrentKeeps ==
    ASSUME TypeInv, NEW a \in Account, PoolInvOf(a), NewCurrent(a), head'[a] = head[a],
           Sound(a)' => Sound(a), a \in strayed => a \in strayed', ~Busy(inserter, a)'
    PROVE  PoolInvOf(a)'
<1>1. PICK k : k = ChainAt(head[a])
  OBVIOUS
<1>2. PICK n : n = Len(chains[a]) + 1
  OBVIOUS
<1>3. chains'[a] = Append(chains[a], k) /\ current'[a] = n
  BY <1>1, <1>2 DEF NewCurrent, TypeInv, LedgerTypeOK, PoolTypeOK
<1>4. k.tailHeight = HeadHeight(a) /\ k.tailHash = head[a] /\ k.headHeight = HeadHeight(a)
  BY <1>1, ChainAtFields
<1>5. /\ chains'[a][n] = k
      /\ \A c \in 1..Len(chains'[a]) : c # n => c \in 1..Len(chains[a]) /\ chains'[a][c] = chains[a][c]
  BY <1>2, <1>3, AppendedPool
<1> QED
  BY <1>3, <1>4, <1>5, CurrentAtHead

LEMMA FreshPool ==
    ASSUME TypeInv, NEW a \in Account, PoolInvOf(a), SelfPendingAc(a)
    PROVE  PoolInvOf(a)'
<1>1. ~HasPool(a) /\ NewCurrent(a) /\ UNCHANGED <<head, spoiled, strayed, inserter>>
  BY DEF SelfPendingAc, goVars
<1>2. ~Busy(inserter, a)
  BY <1>1 DEF Busy, TypeInv, LedgerTypeOK, ProcTypeOK
<1>3. ~Busy(inserter, a)' /\ (Sound(a)' => Sound(a))
  BY <1>1, <1>2 DEF Busy, Sound
<1> QED
  BY <1>1, <1>3, NewCurrentKeeps

\* A chain that gets a block at its head.
LEMMA AddHeadContig ==
    ASSUME NEW b \in ABlock, NEW k \in ChainRec, Contig(k), k.headHeight = BlockHeight[b] - 1
    PROVE  Contig(AddHead(k, b))
<1>1. PICK m : m = AddHead(k, b)
  OBVIOUS
<1>2. /\ m.tailHeight = k.tailHeight /\ m.headHeight = BlockHeight[b]
      /\ m.heightBlocks = [k.heightBlocks EXCEPT ![BlockHeight[b]] = b]
  BY <1>1, AddHeadFields
<1>3. k.heightBlocks \in [Height -> BlockOrNil]
  BY DEF ChainRec
<1>4. BlockHeight[b] \in Height /\ BlockHeight[b] \in Int /\ b # Nil
  BY BlockFacts
<1>5. ASSUME NEW h \in Height, k.tailHeight < h, h <= BlockHeight[b]
      PROVE  m.heightBlocks[h] # Nil
  <2>1. CASE h = BlockHeight[b]
    BY <1>2, <1>3, <1>4, <2>1
  <2>2. CASE h # BlockHeight[b]
    <3>1. h <= k.headHeight
      BY <1>4, <1>5, <2>2 DEF Height
    <3>2. k.heightBlocks[h] # Nil
      BY <1>5, <3>1 DEF Contig
    <3> QED
      BY <1>2, <1>3, <2>2, <3>2
  <2> QED
    BY <2>1, <2>2
<1> QED
  BY <1>1, <1>2, <1>5 DEF Contig

LEMMA ExtendCalm ==
    ASSUME TypeInv, TypeInv', PoolInv, DiskInv, Effect, NEW x \in Account, NEW b \in ABlock, CompactExtend(b)
    PROVE  Calm(x)
<1>1. PICK a \in Account : a = Body[b].signer
  BY BlockFacts
<1>2. PICK c \in Ends(b) :
          chains' = [chains EXCEPT ![a] = [@ EXCEPT ![c] = AddHead(chains[a][c], b)]]
  BY <1>1 DEF CompactExtend
<1>3. UNCHANGED <<current, strayed, snap, caller, inserter>>
  BY DEF CompactExtend, goVars
<1>4. c \in 1..Len(chains[a]) /\ chains[a][c].headHeight = BlockHeight[b] - 1
      /\ chains[a][c] \in ChainRec
  <2>1. c \in DOMAIN chains[a] /\ chains[a][c].headHeight = BlockHeight[b] - 1
    BY <1>1 DEF Ends
  <2>2. PICK q \in Seq(ChainRec) : q = chains[a]
    BY DEF TypeInv, LedgerTypeOK, PoolTypeOK
  <2> QED
    BY <2>1, <2>2
<1>5. PICK m : m = AddHead(chains[a][c], b)
  OBVIOUS
<1>6. chains'[a] = [chains[a] EXCEPT ![c] = m] /\ \A y \in Account : y # a => chains'[y] = chains[y]
  BY <1>2, <1>5 DEF TypeInv, LedgerTypeOK, PoolTypeOK
<1>7. m.tailHeight = chains[a][c].tailHeight /\ m.tailHash = chains[a][c].tailHash
  BY <1>4, <1>5, AddHeadFields
<1>8. /\ \A d \in 1..Len(chains'[a]) :
            d \in 1..Len(chains[a]) /\ chains'[a][d] = (IF d = c THEN m ELSE chains[a][d])
      /\ chains'[a][c] = m
      /\ \A y \in Account : y # a => chains'[y] = chains[y]
  BY <1>4, <1>6, ReplacedPool
<1>9. CASE x # a
  BY <1>3, <1>8, <1>9, KeptCalm
<1>10. CASE x = a
  <2>1. Sound(a)' => m.tailHeight <= HeadHeight(a) /\ (a \notin strayed => Contig(m))
    <3>1. SUFFICES ASSUME Sound(a)
                   PROVE  m.tailHeight <= HeadHeight(a) /\ (a \notin strayed => Contig(m))
      BY AccountEffect
    <3>2. a \notin strayed => Contig(chains[a][c])
      BY <1>4, <3>1 DEF PoolInv, PoolInvOf
    <3> QED
      BY <1>4, <1>5, <1>7, <3>1, <3>2, AddHeadContig DEF PoolInv, PoolInvOf
  <2>2. \A d \in 1..Len(chains'[a]) :
            \/ d \in 1..Len(chains[a]) /\ chains'[a][d] = chains[a][d]
            \/ /\ Sound(a)' => chains'[a][d].tailHeight <= HeadHeight(a)
               /\ Sound(a)' /\ a \notin strayed => Contig(chains'[a][d])
    BY <1>8, <2>1, ContigSame
  <2>3. HasPool(a) => /\ Current(a)'.tailHeight = Current(a).tailHeight
                      /\ Current(a)'.tailHash = Current(a).tailHash
    <3>1. SUFFICES ASSUME HasPool(a)
                   PROVE  /\ chains'[a][current[a]].tailHeight = chains[a][current[a]].tailHeight
                          /\ chains'[a][current[a]].tailHash = chains[a][current[a]].tailHash
      BY <1>3 DEF Current
    <3>2. current'[a] \in 1..Len(chains'[a])
      BY <1>3, <3>1 DEF TypeInv, LedgerTypeOK, PoolTypeOK, HasPool
    <3>3. chains'[a][current[a]] = (IF current[a] = c THEN m ELSE chains[a][current[a]])
      BY <1>3, <1>8, <3>2
    <3> QED
      BY <1>7, <3>3
  <2>4. Putting(a) => Putting(a)'
    BY <1>3, SameProcs, PuttingSame
  <2>5. Switching(a) => Switching(a)'
    BY <1>3 DEF Switching, Key
  <2>6. (Busy(inserter, a)' => Busy(inserter, a)) /\ Below' = Below
    BY <1>3 DEF Busy, Below
  <2> QED
    BY <1>3, <1>10, <2>2, <2>3, <2>4, <2>5, <2>6 DEF Calm
<1> QED
  BY <1>9, <1>10

LEMMA ForkOfContig ==
    ASSUME NEW b \in ABlock, NEW n
    PROVE  Contig(ForkOf(b, n)) /\ ForkOf(b, n).tailHeight = BlockHeight[b] - 1
<1>1. BlockHeight[b] \in Int /\ b # Nil
  BY BlockFacts
<1>2. PICK k : k = ForkOf(b, n)
  OBVIOUS
<1>3. k.tailHeight = BlockHeight[b] - 1 /\ k.headHeight = BlockHeight[b]
      /\ k.heightBlocks = [h \in Height |-> IF h = BlockHeight[b] THEN b ELSE Nil]
  BY <1>2 DEF ForkOf
<1>4. ASSUME NEW h \in Height, k.tailHeight < h, h <= k.headHeight
      PROVE  h = BlockHeight[b]
  BY <1>1, <1>3, <1>4 DEF Height
<1> QED
  BY <1>1, <1>2, <1>3, <1>4 DEF Contig

LEMMA ForkCalm ==
    ASSUME TypeInv, PoolInv, NEW x \in Account, NEW b \in ABlock, CompactFork(b)
    PROVE  Calm(x)
<1>1. PICK a \in Account : a = Body[b].signer
  BY BlockFacts
<1>2. /\ BlockHeight[b] - 1 <= HeadHeight(a) /\ HasPool(a)
      /\ chains' = [chains EXCEPT ![a] = Append(@, ForkOf(b, current[a]))]
      /\ UNCHANGED <<current, strayed, snap, caller, inserter>>
  BY <1>1 DEF CompactFork, Arrived, goVars
<1>3. PICK k : k = ForkOf(b, current[a])
  OBVIOUS
<1>4. Contig(k) /\ k.tailHeight <= HeadHeight(a)
  BY <1>2, <1>3, ForkOfContig
<1>5. PICK n : n = Len(chains[a]) + 1
  OBVIOUS
<1>6. /\ chains'[a][n] = k /\ Len(chains[a]) \in Nat /\ Len(chains'[a]) = n
      /\ \A c \in 1..Len(chains'[a]) : c # n => c \in 1..Len(chains[a]) /\ chains'[a][c] = chains[a][c]
      /\ \A y \in Account : y # a => chains'[y] = chains[y]
  <2>1. chains'[a] = Append(chains[a], k) /\ \A y \in Account : y # a => chains'[y] = chains[y]
    BY <1>2, <1>3 DEF TypeInv, LedgerTypeOK, PoolTypeOK
  <2>2. chains'[a] = Append(chains[a], k)
    BY <2>1
  <2> QED
    BY <1>5, <2>1, <2>2, AppendedPool
<1>7. CASE x # a
  BY <1>2, <1>6, <1>7, KeptCalm
<1>8. CASE x = a
  <2>1. \A c \in 1..Len(chains'[a]) :
            \/ c \in 1..Len(chains[a]) /\ chains'[a][c] = chains[a][c]
            \/ /\ Sound(a)' => chains'[a][c].tailHeight <= HeadHeight(a)
               /\ Sound(a)' /\ a \notin strayed => Contig(chains'[a][c])
    BY <1>4, <1>6, ContigSame
  <2>2. Current(a)' = Current(a)
    <3>1. current[a] \in 1..Len(chains[a])
      BY <1>2, CurrentFacts, TypeParts
    <3>2. current[a] \in 1..Len(chains'[a]) /\ current[a] # n
      BY <1>5, <1>6, <3>1
    <3> QED
      BY <1>2, <1>6, <3>2 DEF Current
  <2>3. Putting(a) => Putting(a)'
    BY <1>2, SameProcs, PuttingSame
  <2>4. Switching(a) => Switching(a)'
    BY <1>2 DEF Switching, Key
  <2>5. (Busy(inserter, a)' => Busy(inserter, a)) /\ Below' = Below
    BY <1>2 DEF Busy, Below
  <2> QED
    BY <1>2, <1>8, <2>1, <2>2, <2>3, <2>4, <2>5 DEF Calm
<1> QED
  BY <1>7, <1>8

\* insertNotify: the current chain follows the disk.
LEMMA FollowKeeps ==
    ASSUME TypeInv, NEW a \in Account, HasPool(a), PoolInvOf(a), InsertNotify(a), head'[a] = head[a],
           Sound(a)' => Sound(a), a \in strayed => a \in strayed', ~Busy(inserter, a)'
    PROVE  PoolInvOf(a)'
<1>1. CASE ~Follows(a)
  BY <1>1, NewCurrentKeeps DEF InsertNotify
<1>2. CASE Follows(a)
  <2>1. current[a] \in 1..Len(chains[a]) /\ Current(a) \in ChainRec
    BY CurrentFacts, TypeParts
  <2>2. PICK k : k = [Current(a) EXCEPT !.tailHeight = HeadHeight(a), !.tailHash = head[a],
                                        !.headHeight = HeadHeight(a), !.headHash = head[a]]
    OBVIOUS
  <2>3. k.tailHeight = HeadHeight(a) /\ k.tailHash = head[a] /\ k.headHeight = HeadHeight(a)
    BY <2>1, <2>2 DEF ChainRec
  <2>4. chains'[a] = [chains[a] EXCEPT ![current[a]] = k] /\ current' = current
    BY <1>2, <2>2 DEF InsertNotify, TypeInv, LedgerTypeOK, PoolTypeOK
  <2>5. /\ \A c \in 1..Len(chains'[a]) :
              c \in 1..Len(chains[a]) /\ chains'[a][c] = (IF c = current[a] THEN k ELSE chains[a][c])
        /\ chains'[a][current[a]] = k
    BY <2>1, <2>4, ReplacedPool
  <2>6. \A c \in 1..Len(chains'[a]) :
            c # current[a] => c \in 1..Len(chains[a]) /\ chains'[a][c] = chains[a][c]
    BY <2>5
  <2>7. current'[a] = current[a]
    BY <2>4
  <2> QED
    BY <2>3, <2>5, <2>6, <2>7, CurrentAtHead
<1> QED
  BY <1>1, <1>2

LEMMA PuttingOther ==
    ASSUME NEW t \in Slot, Others(t), NEW a, Body[ProcAt(t).block].signer # a
    PROVE  Putting(a) => Putting(a)'
<1>1. SUFFICES ASSUME NEW s \in Slot, ProcAt(s).pc = "put", Body[ProcAt(s).block].signer = a
               PROVE  Putting(a)'
  BY DEF Putting
<1>2. ProcAt(s)' = ProcAt(s)
  BY <1>1 DEF Others
<1> QED
  BY <1>1, <1>2 DEF Putting

LEMMA OtherSlots ==
    /\ <<"inserter", Nil>> \in Slot /\ ProcAt(<<"inserter", Nil>>) = inserter
    /\ \A g \in Caller : /\ <<"caller", g>> \in Slot /\ ProcAt(<<"caller", g>>) = caller[g]
                         /\ <<"caller", g>> # <<"inserter", Nil>>
BY DEF Slot, ProcAt

LEMMA CallerNotifyKeeps ==
    ASSUME TypeInv, TypeInv', DiskInv, Effect, NEW x \in Account, PoolInvOf(x),
           NEW g \in Caller, AddDirectNotify(g)
    PROVE  PoolInvOf(x)'
<1>1. /\ caller[g].pc = "put" /\ InsertNotify(Body[caller[g].block].signer)
      /\ caller' = [caller EXCEPT ![g] = Idle]
      /\ UNCHANGED <<head, spoiled, strayed, inserter, snap>>
  BY DEF AddDirectNotify
<1>2. PICK b \in ABlock : b = caller[g].block /\ HasPool(Body[b].signer)
  BY <1>1 DEF TypeInv, LedgerTypeOK, ProcTypeOK
<1>3. PICK a \in Account : a = Body[b].signer
  BY BlockFacts
<1>4. HasPool(a) /\ InsertNotify(a) /\ Busy(caller[g], a)
  BY <1>1, <1>2, <1>3 DEF Busy
<1>5. CASE x = a
  <2>1. ~Busy(inserter, a)
    BY <1>4, OtherSlots DEF DiskInv, Mutex
  <2>2. ~Busy(inserter, a)' /\ (Sound(a)' => Sound(a))
    BY <1>1, <2>1 DEF Busy, Sound
  <2> QED
    BY <1>1, <1>4, <1>5, <2>2, FollowKeeps
<1>6. CASE x # a
  <2>1. chains'[x] = chains[x] /\ current'[x] = current[x]
    BY <1>4, <1>6 DEF InsertNotify, NewCurrent, TypeInv, LedgerTypeOK, PoolTypeOK
  <2>2. PICK s \in Slot : Others(s) /\ ProcAt(s) = caller[g]
    BY <1>1, CallerMoves
  <2>3. Putting(x) => Putting(x)'
    BY <1>2, <1>3, <1>6, <2>2, PuttingOther
  <2>4. Switching(x) => Switching(x)'
    BY <1>1 DEF Switching, Key
  <2>5. (Busy(inserter, x)' => Busy(inserter, x)) /\ Below' = Below
    BY <1>1 DEF Busy, Below
  <2>6. Calm(x)
    BY <1>1, <2>1, <2>3, <2>4, <2>5, SamePool DEF Calm
  <2> QED
    BY <2>6, CalmKeeps
<1> QED
  BY <1>5, <1>6

\* The lowest block leaves a chain.
LEMMA RemoveTailContig ==
    ASSUME NEW b \in ABlock, NEW k \in ChainRec, Contig(k), k.tailHeight < BlockHeight[b]
    PROVE  Contig(RemoveTail(k, b))
<1>1. PICK m : m = RemoveTail(k, b)
  OBVIOUS
<1>2. /\ m.tailHeight = BlockHeight[b] /\ m.headHeight = k.headHeight
      /\ m.heightBlocks = [k.heightBlocks EXCEPT ![BlockHeight[b]] = Nil]
  BY <1>1, RemoveTailFields
<1>3. k.heightBlocks \in [Height -> BlockOrNil] /\ k.tailHeight \in Int
  BY DEF ChainRec
<1>4. BlockHeight[b] \in Height /\ BlockHeight[b] \in Int
  BY BlockFacts
<1>5. ASSUME NEW h \in Height, BlockHeight[b] < h, h <= k.headHeight
      PROVE  m.heightBlocks[h] # Nil
  <2>1. k.tailHeight < h /\ h # BlockHeight[b]
    BY <1>3, <1>4, <1>5 DEF Height
  <2>2. k.heightBlocks[h] # Nil
    BY <1>5, <2>1 DEF Contig
  <2> QED
    BY <1>2, <1>3, <2>1, <2>2
<1> QED
  BY <1>1, <1>2, <1>5 DEF Contig

\* A block enters a chain below its lowest one.
LEMMA AddTailContig ==
    ASSUME NEW b \in ABlock, NEW k \in ChainRec, Contig(k), k.tailHeight = BlockHeight[b]
    PROVE  Contig(AddTail(k, b))
<1>1. PICK m : m = AddTail(k, b)
  OBVIOUS
<1>2. /\ m.tailHeight = BlockHeight[b] - 1 /\ m.headHeight = k.headHeight
      /\ m.heightBlocks = [k.heightBlocks EXCEPT ![BlockHeight[b]] = b]
  BY <1>1, AddTailFields
<1>3. k.heightBlocks \in [Height -> BlockOrNil] /\ k.tailHeight \in Int
  BY DEF ChainRec
<1>4. BlockHeight[b] \in Height /\ BlockHeight[b] \in Int /\ b # Nil
  BY BlockFacts
<1>5. ASSUME NEW h \in Height, BlockHeight[b] - 1 < h, h <= k.headHeight
      PROVE  m.heightBlocks[h] # Nil
  <2>1. CASE h = BlockHeight[b]
    BY <1>2, <1>3, <1>4, <2>1
  <2>2. CASE h # BlockHeight[b]
    <3>1. k.tailHeight < h
      BY <1>4, <1>5, <2>2 DEF Height
    <3>2. k.heightBlocks[h] # Nil
      BY <1>5, <3>1 DEF Contig
    <3> QED
      BY <1>2, <1>3, <2>2, <3>2
  <2> QED
    BY <2>1, <2>2
<1> QED
  BY <1>1, <1>2, <1>5 DEF Contig

LEMMA InserterNotifyKeeps ==
    ASSUME TypeInv, TypeInv', DiskInv, Effect, NEW x \in Account, PoolInvOf(x), TryInsertNotify
    PROVE  PoolInvOf(x)'
<1>1. PICK b \in ABlock : b = inserter.block /\ inserter.pc = "put"
  BY DEF TryInsertNotify, TypeInv, LedgerTypeOK, ProcTypeOK
<1>2. PICK a \in Account : a = Body[b].signer
  BY BlockFacts
<1>3. PICK d \in 1..Len(chains[a]) : d = inserter.chain
  <2>1. inserter.chain \in 1..Len(chains[Body[inserter.block].signer])
    BY <1>1, TypeParts DEF ProcsOK
  <2> QED
    BY <1>1, <1>2, <2>1
<1>4. PICK k : k = RemoveTail(chains[a][d], b)
  OBVIOUS
<1>5. /\ chains'[a] = [chains[a] EXCEPT ![d] = k]
      /\ \A y \in Account : y # a => chains'[y] = chains[y]
      /\ inserter' = [inserter EXCEPT !.pc = "next"]
      /\ UNCHANGED <<head, current, spoiled, strayed, caller, snap>>
  <2>1. /\ chains' = [chains EXCEPT ![a] = [@ EXCEPT ![d] = k]]
        /\ inserter' = [inserter EXCEPT !.pc = "next"]
        /\ UNCHANGED <<head, current, spoiled, strayed, caller, snap>>
    BY <1>1, <1>2, <1>3, <1>4 DEF TryInsertNotify
  <2>2. chains \in [Account -> Seq(ChainRec)]
    BY DEF TypeInv, LedgerTypeOK, PoolTypeOK
  <2> QED
    BY <2>1, <2>2
<1>6. chains[a][d] \in ChainRec
  <2>1. chains \in [Account -> Seq(ChainRec)]
    BY DEF TypeInv, LedgerTypeOK, PoolTypeOK
  <2> QED
    BY <1>3, <2>1
<1>7. /\ \A c \in 1..Len(chains'[a]) :
            c \in 1..Len(chains[a]) /\ chains'[a][c] = (IF c = d THEN k ELSE chains[a][c])
      /\ chains'[a][d] = k
      /\ \A y \in Account : y # a => chains'[y] = chains[y]
  BY <1>3, <1>5, ReplacedPool
<1>8. inserter'.pc = "next" /\ inserter'.block = b /\ inserter'.chain = d
  BY <1>1, <1>3, <1>5 DEF TypeInv, LedgerTypeOK, Proc
<1>9. CASE x # a
  <2>1. PICK s \in Slot : Others(s) /\ ProcAt(s) = inserter
    BY <1>5, InserterMoves
  <2>2. Putting(x) => Putting(x)'
    BY <1>1, <1>2, <1>9, <2>1, PuttingOther
  <2>3. Switching(x) => Switching(x)'
    BY <1>5 DEF Switching, Key
  <2>4. ~Busy(inserter, x)'
    BY <1>2, <1>8, <1>9 DEF Busy
  <2>5. Calm(x)
    BY <1>5, <1>7, <1>9, <2>2, <2>3, <2>4, SamePool DEF Calm
  <2> QED
    BY <2>5, CalmKeeps
<1>10. CASE x = a
  <2>1. SUFFICES ASSUME Sound(a)
                 PROVE  /\ \A c \in 1..Len(chains'[a]) : chains'[a][c].tailHeight <= HeadHeight(a)
                        /\ a \notin strayed =>
                              /\ \A c \in 1..Len(chains'[a]) : Contig(chains'[a][c])
                              /\ AtDisk(a)'
                              /\ InsertsNext(a)'
    BY <1>5, <1>10 DEF PoolInvOf, Sound, Contig, HeadHeight
  <2>2. head[a] = b
    BY <1>1, <1>2, <2>1, OtherSlots DEF DiskInv, ProcLinked
  <2>3. HeadHeight(a) = BlockHeight[b] /\ BlockHeight[b] \in Int /\ HeadHeight(a)' = HeadHeight(a)
    BY <1>5, <2>2, BlockFacts DEF HeadHeight
  <2>4. k.tailHeight = BlockHeight[b] /\ k.tailHash = b
    BY <1>4, <1>6, RemoveTailFields
  <2>5. \A c \in 1..Len(chains[a]) : chains[a][c].tailHeight <= HeadHeight(a)
    BY <1>10, <2>1 DEF PoolInvOf
  <2>6. ASSUME NEW c \in 1..Len(chains'[a])
        PROVE  chains'[a][c].tailHeight <= HeadHeight(a)
    BY <1>7, <2>3, <2>4, <2>5
  <2>7. ASSUME a \notin strayed
        PROVE  d = current[a] /\ Contig(k) /\ \A c \in 1..Len(chains[a]) : Contig(chains[a][c])
    <3>1. Busy(inserter, a)
      BY <1>1, <1>2 DEF Busy
    <3>2. InsertsNext(a) /\ \A c \in 1..Len(chains[a]) : Contig(chains[a][c])
      BY <1>10, <2>1, <2>7, <3>1 DEF PoolInvOf
    <3>3. d = current[a] /\ chains[a][d].tailHeight = BlockHeight[b] - 1
      BY <1>1, <1>3, <3>2 DEF InsertsNext, Below, Current
    <3>4. Contig(chains[a][d]) /\ chains[a][d].tailHeight < BlockHeight[b]
      BY <2>3, <3>2, <3>3
    <3> QED
      BY <1>4, <1>6, <3>2, <3>3, <3>4, RemoveTailContig
  <2>8. ASSUME a \notin strayed, NEW c \in 1..Len(chains'[a])
        PROVE  Contig(chains'[a][c])
    BY <1>7, <2>7, <2>8, ContigSame
  <2>9. ASSUME a \notin strayed
        PROVE  AtDisk(a)'
    <3>1. Current(a)' = k
      BY <1>5, <1>7, <2>7, <2>9 DEF Current
    <3> QED
      BY <1>5, <2>2, <2>3, <2>4, <3>1 DEF AtDisk
  <2>10. ASSUME a \notin strayed
         PROVE  InsertsNext(a)'
    <3>1. Current(a)' = k /\ d = current'[a]
      BY <1>5, <1>7, <2>7, <2>10 DEF Current
    <3> QED
      BY <1>8, <2>4, <3>1 DEF InsertsNext, Below
  <2> QED
    BY <2>6, <2>8, <2>9, <2>10
<1> QED
  BY <1>9, <1>10

\* modifyRefer leaves no chain above the head, and makes no gap.
LEMMA ReferFields ==
    ASSUME NEW k \in ChainRec, NEW n
    PROVE  LET m == [k EXCEPT !.referChain = n]
           IN  m.tailHeight = k.tailHeight /\ (Contig(k) => Contig(m))
<1>1. PICK m : m = [k EXCEPT !.referChain = n]
  OBVIOUS
<1>2. m.tailHeight = k.tailHeight /\ m.headHeight = k.headHeight /\ m.heightBlocks = k.heightBlocks
  BY <1>1 DEF ChainRec
<1>3. Contig(k) => Contig(m)
  BY <1>2 DEF Contig
<1> QED
  BY <1>1, <1>2, <1>3

LEMMA TurnedContig ==
    ASSUME TypeInv, NEW a \in Account, NEW to \in 1..Len(chains[a]),
           chains[a][to].referChain # Disk,
           \A d \in 1..Len(chains[a]) : chains[a][d].tailHeight <= HeadHeight(a),
           NEW r, r = Turned(a, to), NEW c \in 1..Len(chains[a])
    PROVE  /\ r[c].tailHeight <= HeadHeight(a)
           /\ (\A d \in 1..Len(chains[a]) : Contig(chains[a][d])) => Contig(r[c])
<1>0. PoolOK
  BY TypeParts
<1>1. chains[a] \in Seq(ChainRec)
  BY <1>0 DEF PoolOK, PoolTypeOK
<1>2. PICK from \in 1..Len(chains[a]) : from = chains[a][to].referChain
  <2>1. chains[a][to].referChain \in 0..Len(chains[a]) /\ chains[a][to].referChain # 0
        /\ Len(chains[a]) \in Nat
    BY <1>0, <1>1 DEF PoolOK, PoolTypeOK, Disk
  <2> QED
    BY <2>1
<1>3. PICK t \in ChainRec : t = chains[a][to]
  BY <1>1
<1>4. PICK f \in ChainRec : f = chains[a][from]
  BY <1>1
<1>5. PICK b : b = HandedOver(a, to)
  OBVIOUS
<1>6. PICK upper : upper = IF b = Nil THEN t ELSE AddTail(t, b)
  OBVIOUS
<1>7. PICK lower : lower = IF b = Nil THEN f ELSE RemoveTail(f, b)
  OBVIOUS
<1>8. r[c] = IF c = from THEN [lower EXCEPT !.referChain = to]
             ELSE IF c = to THEN [upper EXCEPT !.referChain = f.referChain]
             ELSE chains[a][c]
  BY <1>1, <1>2, <1>3, <1>4, <1>5, <1>6, <1>7 DEF Turned
<1>9. HeadHeight(a) \in Int /\ t.tailHeight \in Int /\ f.tailHeight \in Int
      /\ t.tailHeight <= HeadHeight(a) /\ f.tailHeight <= HeadHeight(a)
  <2>1. HeadHeight(a) \in Int
    BY HeadFacts DEF TypeInv, LedgerTypeOK, DiskTypeOK
  <2>2. t.tailHeight \in Int /\ f.tailHeight \in Int
    BY DEF ChainRec
  <2> QED
    BY <1>3, <1>4, <2>1, <2>2
<1>10. b # Nil => /\ b \in ABlock /\ BlockHeight[b] = t.tailHeight
                  /\ t.tailHeight > f.tailHeight
  BY <1>0, <1>2, <1>3, <1>4, <1>5, OwnBlockFacts DEF HandedOver, IsOf
<1>11. /\ upper \in ChainRec /\ upper.tailHeight <= HeadHeight(a)
       /\ Contig(t) => Contig(upper)
  <2>1. CASE b = Nil
    BY <1>6, <1>9, <2>1
  <2>2. CASE b # Nil
    <3>1. upper = AddTail(t, b) /\ b \in ABlock /\ BlockHeight[b] = t.tailHeight
      BY <1>6, <1>10, <2>2
    <3>2. upper.tailHeight = BlockHeight[b] - 1
      BY <3>1, AddTailFields
    <3>3. upper \in ChainRec
      <4>1. Shaped(a, t)
        BY <1>0, <1>3 DEF PoolOK, ChainShape
      <4>2. Body[b].signer = a /\ (BlockHeight[b] = 0 => GenesisOf[a] = Nil)
        BY <1>0, <1>2, <1>3, <1>5, <2>2, OwnBlockFacts DEF HandedOver, IsOf
      <4> QED
        BY <3>1, <4>1, <4>2, AddTailGood
    <3>4. Contig(t) => Contig(upper)
      BY <3>1, AddTailContig
    <3>5. upper.tailHeight <= HeadHeight(a)
      BY <1>9, <3>1, <3>2
    <3> QED
      BY <3>3, <3>4, <3>5
  <2> QED
    BY <2>1, <2>2
<1>12. /\ lower \in ChainRec /\ lower.tailHeight <= HeadHeight(a)
       /\ Contig(f) => Contig(lower)
  <2>1. CASE b = Nil
    BY <1>7, <1>9, <2>1
  <2>2. CASE b # Nil
    <3>1. lower = RemoveTail(f, b) /\ b \in ABlock /\ BlockHeight[b] = t.tailHeight
          /\ f.tailHeight < BlockHeight[b]
      BY <1>7, <1>9, <1>10, <2>2
    <3>2. lower.tailHeight = BlockHeight[b]
      BY <3>1, RemoveTailFields
    <3>3. lower \in ChainRec
      <4>1. Shaped(a, f)
        BY <1>0, <1>4 DEF PoolOK, ChainShape
      <4> QED
        BY <3>1, <4>1, RemoveTailGood
    <3>4. Contig(f) => Contig(lower)
      BY <3>1, RemoveTailContig
    <3>5. lower.tailHeight <= HeadHeight(a)
      BY <1>9, <3>1, <3>2
    <3> QED
      BY <3>3, <3>4, <3>5
  <2> QED
    BY <2>1, <2>2
<1>13. CASE c = from
  <2>1. r[c] = [lower EXCEPT !.referChain = to]
    BY <1>8, <1>13
  <2>2. r[c].tailHeight = lower.tailHeight /\ (Contig(lower) => Contig(r[c]))
    BY <1>12, <2>1, ReferFields
  <2> QED
    BY <1>4, <1>12, <2>2, ContigSame
<1>14. CASE c # from /\ c = to
  <2>0. PICK n : n = f.referChain
    OBVIOUS
  <2>1. r[c] = [upper EXCEPT !.referChain = n]
    BY <1>8, <1>14, <2>0
  <2>2. r[c].tailHeight = upper.tailHeight /\ (Contig(upper) => Contig(r[c]))
    BY <1>11, <2>1, ReferFields
  <2> QED
    BY <1>3, <1>11, <2>2, ContigSame
<1>15. CASE c # from /\ c # to
  BY <1>8, <1>15, ContigSame
<1> QED
  BY <1>13, <1>14, <1>15

\* The account that a fork is switching.
LEMMA SwitchFacts ==
    ASSUME TypeInv, snap.pc = "refer"
    PROVE  Key.addr \in Account /\ snap.chain \in 1..Len(chains[Key.addr])
<1>1. snap.keys # <<>> /\ snap.chain \in 1..Len(chains[Key.addr])
  BY DEF TypeInv, LedgerTypeOK, ForkTypeOK
<1> QED
  BY <1>1, KeyFacts DEF TypeInv

LEMMA ReferCalm ==
    ASSUME TypeInv, TypeInv', PoolInv, DiskInv, Effect, NEW x \in Account, ModifyRefer
    PROVE  Calm(x)
<1>1. snap.pc = "refer" /\ chains[Key.addr][snap.chain].referChain # Disk
      /\ UNCHANGED <<current, snap, caller, inserter>>
  BY DEF ModifyRefer, goVars
<1>2. PICK a \in Account : a = Key.addr
  BY <1>1, SwitchFacts
<1>3. PICK to \in 1..Len(chains[a]) : to = snap.chain
  BY <1>1, <1>2, SwitchFacts
<1>4. CASE HandsNil(a, to)
  <2>1. UNCHANGED <<chains, strayed>>
    BY <1>2, <1>3, <1>4 DEF ModifyRefer
  <2> QED
    BY <1>1, <2>1, KeptCalm
<1>5. CASE ~HandsNil(a, to)
  <2>1. chains' = [chains EXCEPT ![a] = Turned(a, to)]
        /\ strayed' = (IF RMuFree(a) THEN strayed ELSE strayed \cup {a})
    BY <1>2, <1>3, <1>5 DEF ModifyRefer
  <2>2. chains'[a] = Turned(a, to) /\ \A y \in Account : y # a => chains'[y] = chains[y]
    BY <2>1 DEF TypeInv, LedgerTypeOK, PoolTypeOK
  <2>3. Putting(x) => Putting(x)'
    BY <1>1, SameProcs, PuttingSame
  <2>4. Switching(x)' <=> Switching(x)
    BY <1>1 DEF Switching, Key
  <2>5. (Busy(inserter, x)' <=> Busy(inserter, x)) /\ Below' = Below
    BY <1>1 DEF Busy, Below
  <2>6. CASE x # a
    BY <1>1, <2>1, <2>2, <2>3, <2>4, <2>5, <2>6, SamePool DEF Calm
  <2>7. CASE x = a
    <3>1. ASSUME NEW c \in 1..Len(chains'[a])
          PROVE  /\ Sound(a)' => chains'[a][c].tailHeight <= HeadHeight(a)
                 /\ Sound(a)' /\ a \notin strayed => Contig(chains'[a][c])
      <4>1. c \in 1..Len(chains[a])
        <5>1. PICK q \in Seq(ChainRec) : q = chains[a]
          BY DEF TypeInv, LedgerTypeOK, PoolTypeOK
        <5>2. PICK r \in Seq(ChainRec) : r = chains'[a]
          <6>1. chains' \in [Account -> Seq(ChainRec)]
            BY DEF TypeInv, LedgerTypeOK, PoolTypeOK
          <6> QED
            BY <6>1
        <5>3. DOMAIN r = DOMAIN q
          BY <2>2, <5>1, <5>2 DEF Turned
        <5> QED
          BY <5>1, <5>2, <5>3
      <4>2. Sound(a)' => Sound(a)
        BY AccountEffect
      <4>3. PICK r : r = Turned(a, to)
        OBVIOUS
      <4>4. chains'[a] = r
        BY <2>2, <4>3
      <4>5. chains[a][to].referChain # Disk
        BY <1>1, <1>2, <1>3
      <4>6. Sound(a) => /\ \A d \in 1..Len(chains[a]) : chains[a][d].tailHeight <= HeadHeight(a)
                        /\ a \notin strayed => \A d \in 1..Len(chains[a]) : Contig(chains[a][d])
        BY DEF PoolInv, PoolInvOf
      <4>7. Sound(a) => /\ r[c].tailHeight <= HeadHeight(a)
                        /\ a \notin strayed => Contig(r[c])
        BY <4>1, <4>3, <4>5, <4>6, TurnedContig
      <4> QED
        BY <4>2, <4>4, <4>7
    <3>2. Switching(a)'
      BY <1>1, <1>2, <2>4, <2>7 DEF Switching
    <3>3. a \in strayed' \/ ~Busy(inserter, a)'
      BY <2>1, <2>5, <2>7 DEF RMuFree
    <3> QED
      BY <1>1, <2>1, <2>3, <2>4, <2>5, <2>7, <3>1, <3>2, <3>3 DEF Calm
  <2> QED
    BY <2>6, <2>7
<1> QED
  BY <1>4, <1>5

\* currentModifyToChain ends at the disk's head, or the pool has strayed.
LEMMA ModifyCurrentKeeps ==
    ASSUME TypeInv, TypeInv', PoolInv, DiskInv, Effect, NEW x \in Account, ModifyCurrent
    PROVE  PoolInvOf(x)'
<1>1. snap.pc = "refer" /\ UNCHANGED <<head, chains, spoiled, caller, inserter>>
  BY DEF ModifyCurrent, diskVars
<1>2. PICK a \in Account : a = Key.addr
  BY <1>1, SwitchFacts
<1>3. PICK to \in 1..Len(chains[a]) : to = snap.chain
  BY <1>1, <1>2, SwitchFacts
<1>4. current' = [current EXCEPT ![a] = to]
      /\ strayed' = (IF Strays(a, to) THEN strayed \cup {a} ELSE strayed)
  BY <1>2, <1>3 DEF ModifyCurrent
<1>5. /\ current'[a] = to
      /\ \A y \in Account : y # a => current'[y] = current[y] /\ (y \in strayed' <=> y \in strayed)
      /\ a \notin strayed' => a \notin strayed /\ ~Strays(a, to)
  BY <1>4 DEF TypeInv, LedgerTypeOK, PoolTypeOK
<1>6. PoolInvOf(x)
  BY DEF PoolInv
<1>7. CASE x # a
  <2>1. ~Switching(x)
    BY <1>2, <1>7 DEF Switching
  <2>2. Putting(x) => Putting(x)'
    BY <1>1, SameProcs, PuttingSame
  <2>3. (Busy(inserter, x)' => Busy(inserter, x)) /\ Below' = Below
    BY <1>1 DEF Busy, Below
  <2>4. Calm(x)
    BY <1>1, <1>5, <1>7, <2>1, <2>2, <2>3, SamePool DEF Calm
  <2> QED
    BY <1>6, <2>4, CalmKeeps
<1>8. CASE x = a
  <2>1. SUFFICES ASSUME Sound(a)
                 PROVE  /\ \A c \in 1..Len(chains[a]) : chains[a][c].tailHeight <= HeadHeight(a)
                        /\ a \notin strayed' =>
                              /\ \A c \in 1..Len(chains[a]) : Contig(chains[a][c])
                              /\ AtDisk(a)'
                              /\ ~Busy(inserter, a)'
    BY <1>1, <1>8 DEF PoolInvOf, Sound, Contig, HeadHeight
  <2>2. /\ \A c \in 1..Len(chains[a]) : chains[a][c].tailHeight <= HeadHeight(a)
        /\ a \notin strayed => \A c \in 1..Len(chains[a]) : Contig(chains[a][c])
    BY <1>6, <1>8, <2>1 DEF PoolInvOf
  <2>3. ASSUME a \notin strayed'
        PROVE  /\ chains[a][to].tailHeight = HeadHeight(a)
               /\ chains[a][to].tailHash \in {head[a], Nil}
               /\ ~Busy(inserter, a)
    BY <1>5, <2>3 DEF Strays, RMuFree
  <2>4. Current(a)' = chains[a][to] /\ HeadHeight(a)' = HeadHeight(a)
        /\ (Busy(inserter, a)' <=> Busy(inserter, a))
    BY <1>1, <1>5 DEF Current, HeadHeight, Busy
  <2>5. a \notin strayed' => AtDisk(a)' /\ ~Busy(inserter, a)'
    BY <1>1, <2>3, <2>4 DEF AtDisk
  <2> QED
    BY <1>5, <2>2, <2>5
<1> QED
  BY <1>7, <1>8

\* What a step can do to a fork that rolls an account back.
SnapEffect == \/ snap' = snap
              \/ snap'.pc # "rollback"
              \/ \E a \in Account : Rollback(a)
              \/ RollbackBlock

LEMMA SnapEffectStep ==
    ASSUME TypeInv, Next
    PROVE  SnapEffect
<1>0. snap \in Fork
  BY DEF TypeInv, LedgerTypeOK, ForkTypeOK
<1>1. CASE \E a \in Account : SelfPendingAc(a)
  BY <1>1 DEF SelfPendingAc, SnapEffect, goVars
<1>2. CASE \E a \in Account : SelfAcMiss(a)
  BY <1>2 DEF SelfAcMiss, SnapEffect, goVars
<1>3. CASE \E a \in Account : SelfAcStore(a)
  BY <1>3 DEF SelfAcStore, SnapEffect, goVars
<1>4. CASE \E b \in ABlock : CompactExtend(b)
  BY <1>4 DEF CompactExtend, SnapEffect, goVars
<1>5. CASE \E b \in ABlock : CompactFork(b)
  BY <1>5 DEF CompactFork, SnapEffect, goVars
<1>6. CASE \E g \in Caller : \E b \in Local : MakeBlock(g, b)
  BY <1>6 DEF MakeBlock, SnapEffect, goVars
<1>7. CASE \E g \in Caller : AddDirectVerify(g)
  BY <1>7 DEF AddDirectVerify, SnapEffect, goVars
<1>8. CASE \E g \in Caller : AddDirectInsert(g)
  BY <1>8 DEF AddDirectInsert, SnapEffect, goVars
<1>9. CASE \E g \in Caller : AddDirectRefuse(g)
  BY <1>9 DEF AddDirectRefuse, SnapEffect, goVars
<1>10. CASE \E g \in Caller : AddDirectNotify(g)
  BY <1>10 DEF AddDirectNotify, SnapEffect, goVars
<1>11. CASE \E a \in Account : TryInsertPanics(a)
  BY <1>11 DEF TryInsertPanics, SnapEffect, goVars
<1>12. CASE \E a \in Account : TryInsertVerify(a)
  BY <1>12 DEF TryInsertVerify, SnapEffect, goVars
<1>13. CASE \E a \in Account : TryInsertPending(a)
  BY <1>13 DEF TryInsertPending, SnapEffect, goVars
<1>14. CASE TryInsertWrite
  BY <1>14 DEF TryInsertWrite, SnapEffect, goVars
<1>15. CASE TryInsertRefuse
  BY <1>15 DEF TryInsertRefuse, SnapEffect, goVars
<1>16. CASE TryInsertNotify
  BY <1>16 DEF TryInsertNotify, SnapEffect, goVars
<1>17. CASE SnapshotInsert
  BY <1>17 DEF SnapshotInsert, SnapEffect, goVars
<1>18. CASE SnapshotPending
  BY <1>18 DEF SnapshotPending, SnapEffect, goVars
<1>19. CASE SnapshotFail
  <2>1. PICK h : snap' = [NoFork EXCEPT !.pc = "key", !.keys = <<h>>]
    BY <1>19 DEF SnapshotFail
  <2>2. snap'.pc = "key"
    BY <2>1 DEF NoFork
  <2> QED
    BY <2>2 DEF SnapEffect
<1>20. ASSUME NEW br \in DOMAIN Branch, SnapshotFork(br)
       PROVE  SnapEffect
  <2>1. SnapshotFork(br)
    BY <1>20
  <2>2. PICK n : snap' = [NoFork EXCEPT !.pc = "unlock", !.br = br, !.n = n,
                                        !.todo = {a \in Account : UnlockHeights(a, n) # {}},
                                        !.keys = SBody[Branch[br][n + 1]].accounts]
    BY <2>1 DEF SnapshotFork
  <2>3. snap'.pc = "unlock"
    BY <2>2 DEF NoFork
  <2> QED
    BY <2>3 DEF SnapEffect
<1>21. CASE \E a \in Account : UnLockAccount(a)
  <2>1. snap.pc = "unlock" /\ (snap' = NoFork \/ \E t : snap' = [snap EXCEPT !.todo = t])
    BY <1>21 DEF UnLockAccount
  <2>2. snap'.pc # "rollback"
    BY <2>1, <1>0 DEF NoFork, Fork
  <2> QED
    BY <2>1, <2>2 DEF SnapEffect
<1>22. CASE \E a \in Account : Rollback(a)
  BY <1>22 DEF SnapEffect
<1>23. CASE ForkAccounts
  <2>1. snap.pc = "unlock" /\ (snap' = snap \/ \E t : snap' = [snap EXCEPT !.pc = "wait", !.tasks = t])
    BY <1>23 DEF ForkAccounts
  <2> QED
    BY <2>1, <1>0 DEF SnapEffect, Fork
<1>24. CASE WaitRollback
  <2>1. snap.pc = "wait" /\ (snap' = snap \/ \E w, t : snap' = [snap EXCEPT !.wait = w, !.tasks = t])
    BY <1>24 DEF WaitRollback
  <2> QED
    BY <2>1, <1>0 DEF SnapEffect, Fork
<1>25. CASE RollbackBlock
  BY <1>25 DEF SnapEffect
<1>26. CASE RollbackEnd
  <2>1. snap' = snap \/ \E e : snap' = Ended(e)
    BY <1>26 DEF RollbackEnd
  <2>2. ASSUME NEW e, snap' = Ended(e)
        PROVE  snap'.pc # "rollback"
    <3>1. CASE snap' = NoFork
      BY <3>1 DEF NoFork
    <3>2. CASE snap' = [snap EXCEPT !.pc = "wait", !.wait = [@ EXCEPT ![snap.acc] = Nil]]
      BY <1>0, <3>2 DEF Fork
    <3> QED
      BY <2>2, <3>1, <3>2 DEF Ended
  <2> QED
    BY <2>1, <2>2 DEF SnapEffect
<1>27. CASE ForkKeys
  <2>1. snap.pc = "wait" /\ snap' = [snap EXCEPT !.pc = "key"]
    BY <1>27 DEF ForkKeys, RolledBack
  <2> QED
    BY <2>1, <1>0 DEF SnapEffect, Fork
<1>28. CASE ForkAccountTo
  <2>1. \/ snap' = snap \/ snap' = KeyDone
        \/ \E c, t : snap' = [snap EXCEPT !.pc = "wait", !.chain = c, !.tasks = t]
    BY <1>28 DEF ForkAccountTo
  <2>2. snap' = KeyDone => snap'.pc = "key"
    BY <1>0 DEF KeyDone, Fork
  <2>3. ASSUME NEW c, NEW t, snap' = [snap EXCEPT !.pc = "wait", !.chain = c, !.tasks = t]
        PROVE  snap'.pc = "wait"
    BY <1>0, <2>3 DEF Fork
  <2> QED
    BY <2>1, <2>2, <2>3 DEF SnapEffect
<1>29. CASE ModifyCheck
  <2>1. snap.pc = "wait" /\ (snap' = KeyDone \/ snap' = [snap EXCEPT !.pc = "refer"])
    BY <1>29 DEF ModifyCheck, RolledBack
  <2> QED
    BY <2>1, <1>0 DEF SnapEffect, Fork, KeyDone
<1>30. CASE ModifyRefer
  BY <1>30 DEF ModifyRefer, SnapEffect, goVars
<1>31. CASE ModifyCurrent
  <2>1. snap' = KeyDone
    BY <1>31 DEF ModifyCurrent
  <2>2. snap'.pc = "key"
    BY <1>0, <2>1 DEF KeyDone, Fork
  <2> QED
    BY <2>2 DEF SnapEffect
<1>32. CASE FailEnd
  BY <1>32 DEF FailEnd, SnapEffect, NoFork
<1>33. CASE ForkEnd
  BY <1>33 DEF ForkEnd, SnapEffect, NoFork
<1>34. CASE \E p \in Procs : NotifyPanics(p)
  BY <1>34 DEF NotifyPanics, SnapEffect, goVars
<1>35. CASE \E a \in Account : TryInsertEnd(a)
  BY <1>35 DEF TryInsertEnd, SnapEffect, goVars
<1> QED
  BY <1>1, <1>2, <1>3, <1>4, <1>5, <1>6, <1>7, <1>8, <1>9, <1>10, <1>11, <1>12,
     <1>13, <1>14, <1>15, <1>16, <1>17, <1>18, <1>19, <1>20, <1>21, <1>22, <1>23,
     <1>24, <1>25, <1>26, <1>27, <1>28, <1>29, <1>30, <1>31, <1>32, <1>33, <1>34,
     <1>35
  DEF Next, Pools, Callers, Inserter, Snapshots, Forks


LEMMA RollbackBelowStep ==
    ASSUME TypeInv, TypeInv', DiskInv, PoolInv, Next, Effect
    PROVE  RollbackBelow'
<1>1. SUFFICES ASSUME snap'.pc = "rollback", Sound(snap.acc)'
               PROVE  snap'.height <= HeadHeight(snap.acc)'
  BY DEF RollbackBelow
<1>2. snap' \in Fork /\ snap'.acc \in Account
  BY <1>1 DEF TypeInv, LedgerTypeOK, ForkTypeOK
<1>3. PICK a \in Account : a = snap'.acc
  BY <1>2
<1>4. Sound(a)'
  BY <1>1, <1>3 DEF Sound
<1>5. Sound(a) /\ HeadHeight(a) \in Int /\ HeadHeight(a)' \in Int /\ HeadHeight(a) <= HeadHeight(a)'
  BY <1>4, AccountEffect, HeadRises
<1>6. snap'.height \in Int
  BY <1>2 DEF Fork
<1>7. SUFFICES snap'.height <= HeadHeight(a)
  <2>1. HeadHeight(snap.acc)' = HeadHeight(a)'
    BY <1>3 DEF HeadHeight
  <2> QED
    BY <1>5, <1>6, <2>1
<1>8. CASE snap' = snap
  BY <1>1, <1>3, <1>5, <1>8 DEF PoolInv, RollbackBelow
<1>9. CASE \E y \in Account : Rollback(y)
  <2>1. PICK y \in Account : Rollback(y)
    BY <1>9
  <2>2. snap' = [snap EXCEPT !.pc = "rollback", !.acc = y, !.height = Current(y).tailHeight]
        /\ HasPool(y)
    BY <2>1 DEF Rollback
  <2>3. snap \in Fork
    BY DEF TypeInv, LedgerTypeOK, ForkTypeOK
  <2>4. snap'.acc = y /\ snap'.height = Current(y).tailHeight
    BY <2>2, <2>3 DEF Fork
  <2>5. current[y] \in 1..Len(chains[y]) /\ Current(y) = chains[y][current[y]]
    BY <2>2, CurrentFacts, TypeParts
  <2> QED
    BY <1>3, <1>5, <2>4, <2>5 DEF PoolInv, PoolInvOf
<1>10. CASE RollbackBlock
  <2>1. spoiled' = spoiled \cup {snap.acc}
    BY <1>10 DEF RollbackBlock, RemoveChain, Delete
  <2>2. snap' = snap \/ snap' = [snap EXCEPT !.height = @ - 1]
    BY <1>10 DEF RollbackBlock
  <2>3. snap \in Fork
    BY DEF TypeInv, LedgerTypeOK, ForkTypeOK
  <2>4. snap'.acc = snap.acc
    BY <2>2, <2>3 DEF Fork
  <2> QED
    BY <1>3, <1>4, <2>1, <2>4 DEF Sound
<1> QED
  BY <1>1, <1>8, <1>9, <1>10, SnapEffectStep DEF SnapEffect

LEMMA PoolInvOfStep ==
    ASSUME TypeInv, TypeInv', DiskInv, PoolInv, Next, Effect, NEW x \in Account, PoolInvOf(x)
    PROVE  PoolInvOf(x)'
<1>1. CASE \E a \in Account : SelfPendingAc(a)
  <2>1. PICK a \in Account : SelfPendingAc(a)
    BY <1>1
  <2>2. CASE x = a
    BY <2>1, <2>2, FreshPool
  <2>3. CASE x # a
    <3>1. chains'[x] = chains[x] /\ current'[x] = current[x]
      BY <2>1, <2>3 DEF SelfPendingAc, NewCurrent, TypeInv, LedgerTypeOK, PoolTypeOK
    <3>2. UNCHANGED <<strayed, snap, caller, inserter>>
      BY <2>1 DEF SelfPendingAc, goVars
    <3> QED
      BY <3>1, <3>2, KeptCalm, CalmKeeps
  <2> QED
    BY <2>2, <2>3
<1>2. CASE \E a \in Account : SelfAcMiss(a)
  BY <1>2, KeptCalm, CalmKeeps DEF SelfAcMiss, goVars, dataVars, poolVars
<1>3. CASE \E a \in Account : SelfAcStore(a)
  BY <1>3, KeptCalm, CalmKeeps DEF SelfAcStore, goVars, dataVars, poolVars
<1>4. CASE \E b \in ABlock : CompactExtend(b)
  BY <1>4, ExtendCalm, CalmKeeps
<1>5. CASE \E b \in ABlock : CompactFork(b)
  BY <1>5, ForkCalm, CalmKeeps
<1>6. CASE \E g \in Caller : \E b \in Local : MakeBlock(g, b)
  <2>1. PICK g \in Caller : \E b \in Local : MakeBlock(g, b)
    BY <1>6
  <2>2. UNCHANGED <<chains, current, strayed, snap, inserter>> /\ caller[g].pc # "put"
        /\ \E p : caller' = [caller EXCEPT ![g] = p]
    BY <2>1 DEF MakeBlock, dataVars, poolVars
  <2> QED
    BY <2>2, CallerCalm, CalmKeeps
<1>7. CASE \E g \in Caller : AddDirectVerify(g)
  <2>1. PICK g \in Caller : AddDirectVerify(g)
    BY <1>7
  <2>2. UNCHANGED <<chains, current, strayed, snap, inserter>> /\ caller[g].pc # "put"
        /\ \E p : caller' = [caller EXCEPT ![g] = p]
    BY <2>1 DEF AddDirectVerify, dataVars, poolVars
  <2> QED
    BY <2>2, CallerCalm, CalmKeeps
<1>8. CASE \E g \in Caller : AddDirectInsert(g)
  <2>1. PICK g \in Caller : AddDirectInsert(g)
    BY <1>8
  <2>2. UNCHANGED <<chains, current, strayed, snap, inserter>> /\ caller[g].pc # "put"
        /\ \E p : caller' = [caller EXCEPT ![g] = p]
    BY <2>1 DEF AddDirectInsert, dataVars, poolVars
  <2> QED
    BY <2>2, CallerCalm, CalmKeeps
<1>9. CASE \E g \in Caller : AddDirectRefuse(g)
  <2>1. PICK g \in Caller : AddDirectRefuse(g)
    BY <1>9
  <2>2. UNCHANGED <<chains, current, strayed, snap, inserter>> /\ caller[g].pc # "put"
        /\ \E p : caller' = [caller EXCEPT ![g] = p]
    BY <2>1 DEF AddDirectRefuse, dataVars, poolVars
  <2> QED
    BY <2>2, CallerCalm, CalmKeeps
<1>10. CASE \E g \in Caller : AddDirectNotify(g)
  <2>1. PICK g \in Caller : AddDirectNotify(g)
    BY <1>10
  <2> QED
    BY <2>1, CallerNotifyKeeps
<1>11. CASE \E a \in Account : TryInsertPanics(a)
  BY <1>11, KeptCalm, CalmKeeps DEF TryInsertPanics, goVars, dataVars, poolVars
<1>12. CASE \E a \in Account : TryInsertVerify(a)
  BY <1>12, VerifyCalm, CalmKeeps
<1>13. CASE \E a \in Account : TryInsertPending(a)
  <2>1. inserter' = Idle /\ inserter.pc # "put"
        /\ UNCHANGED <<chains, current, strayed, snap, caller>>
    BY <1>13 DEF TryInsertPending, CanTryInsert, AtNext, dataVars, poolVars
  <2>2. ~Busy(inserter, x)'
    BY <2>1, IdlePc DEF Busy
  <2> QED
    BY <2>1, <2>2, InserterCalm, CalmKeeps
<1>14. CASE TryInsertWrite
  <2>1. inserter' = [inserter EXCEPT !.pc = "put"] /\ inserter.pc = "verified"
        /\ UNCHANGED <<chains, current, strayed, snap, caller>>
    BY <1>14 DEF TryInsertWrite, poolVars
  <2>2. inserter'.block = inserter.block /\ inserter'.chain = inserter.chain
    BY <2>1 DEF TypeInv, LedgerTypeOK, Proc
  <2>3. (Busy(inserter, x)' => Busy(inserter, x)) /\ Below' = Below
    BY <2>1, <2>2 DEF Busy, Below, TypeInv, LedgerTypeOK, Proc
  <2> QED
    BY <2>1, <2>2, <2>3, InserterCalm, CalmKeeps
<1>15. CASE TryInsertRefuse
  <2>1. inserter' = Idle /\ inserter.pc = "verified"
        /\ UNCHANGED <<chains, current, strayed, snap, caller>>
    BY <1>15 DEF TryInsertRefuse, dataVars, poolVars
  <2>2. ~Busy(inserter, x)'
    BY <2>1, IdlePc DEF Busy
  <2> QED
    BY <2>1, <2>2, InserterCalm, CalmKeeps
<1>16. CASE TryInsertNotify
  BY <1>16, InserterNotifyKeeps
<1>17. CASE SnapshotInsert
  BY <1>17, KeptCalm, CalmKeeps DEF SnapshotInsert, goVars, dataVars, poolVars
<1>18. CASE SnapshotPending
  BY <1>18, KeptCalm, CalmKeeps DEF SnapshotPending, goVars, dataVars, poolVars
<1>19. CASE SnapshotFail
  <2>1. UNCHANGED <<chains, current, strayed, caller, inserter>> /\ snap.pc # "refer"
    BY <1>19 DEF SnapshotFail, CanSnapshot, dataVars, poolVars
  <2> QED
    BY <2>1, SnapCalm, CalmKeeps
<1>20. CASE \E br \in DOMAIN Branch : SnapshotFork(br)
  <2>1. UNCHANGED <<chains, current, strayed, caller, inserter>> /\ snap.pc # "refer"
    BY <1>20 DEF SnapshotFork, NoReader, dataVars, poolVars
  <2> QED
    BY <2>1, SnapCalm, CalmKeeps
<1>21. CASE \E a \in Account : UnLockAccount(a)
  <2>1. UNCHANGED <<chains, current, strayed, caller, inserter>> /\ snap.pc # "refer"
    BY <1>21 DEF UnLockAccount, dataVars, poolVars
  <2> QED
    BY <2>1, SnapCalm, CalmKeeps
<1>22. CASE \E a \in Account : Rollback(a)
  <2>1. UNCHANGED <<chains, current, strayed, caller, inserter>> /\ snap.pc # "refer"
    BY <1>22 DEF Rollback, dataVars, poolVars
  <2> QED
    BY <2>1, SnapCalm, CalmKeeps
<1>23. CASE ForkAccounts
  <2>1. UNCHANGED <<chains, current, strayed, caller, inserter>> /\ snap.pc # "refer"
    BY <1>23 DEF ForkAccounts, dataVars, poolVars
  <2> QED
    BY <2>1, SnapCalm, CalmKeeps
<1>24. CASE WaitRollback
  <2>1. UNCHANGED <<chains, current, strayed, caller, inserter>> /\ snap.pc # "refer"
    BY <1>24 DEF WaitRollback, dataVars, poolVars
  <2> QED
    BY <2>1, SnapCalm, CalmKeeps
<1>25. CASE RollbackBlock
  <2>1. spoiled' = spoiled \cup {snap.acc} /\ UNCHANGED <<current, strayed, caller, inserter>>
        /\ snap.pc = "rollback"
    BY <1>25 DEF RollbackBlock, RemoveChain, Delete, Removable, More
  <2>2. CASE x = snap.acc
    BY <2>1, <2>2 DEF PoolInvOf, Sound
  <2>3. CASE x # snap.acc
    <3>1. chains'[x] = chains[x]
      BY <1>25, <2>3 DEF RollbackBlock, TypeInv, LedgerTypeOK, PoolTypeOK
    <3> QED
      BY <2>1, <3>1, SnapCalm, CalmKeeps
  <2> QED
    BY <2>2, <2>3
<1>26. CASE RollbackEnd
  <2>1. UNCHANGED <<chains, current, strayed, caller, inserter>> /\ snap.pc # "refer"
    BY <1>26 DEF RollbackEnd, dataVars, poolVars
  <2> QED
    BY <2>1, SnapCalm, CalmKeeps
<1>27. CASE ForkKeys
  <2>1. UNCHANGED <<chains, current, strayed, caller, inserter>> /\ snap.pc # "refer"
    BY <1>27 DEF ForkKeys, RolledBack, dataVars, poolVars
  <2> QED
    BY <2>1, SnapCalm, CalmKeeps
<1>28. CASE ForkAccountTo
  <2>1. UNCHANGED <<chains, current, strayed, caller, inserter>> /\ snap.pc # "refer"
    BY <1>28 DEF ForkAccountTo, dataVars, poolVars
  <2> QED
    BY <2>1, SnapCalm, CalmKeeps
<1>29. CASE ModifyCheck
  <2>1. UNCHANGED <<chains, current, strayed, caller, inserter>> /\ snap.pc # "refer"
    BY <1>29 DEF ModifyCheck, RolledBack, dataVars, poolVars
  <2> QED
    BY <2>1, SnapCalm, CalmKeeps
<1>30. CASE ModifyRefer
  BY <1>30, ReferCalm, CalmKeeps
<1>31. CASE ModifyCurrent
  BY <1>31, ModifyCurrentKeeps
<1>32. CASE FailEnd
  <2>1. UNCHANGED <<chains, current, strayed, caller, inserter>> /\ snap.pc # "refer"
    BY <1>32 DEF FailEnd, dataVars, poolVars
  <2> QED
    BY <2>1, SnapCalm, CalmKeeps
<1>33. CASE ForkEnd
  <2>1. UNCHANGED <<chains, current, strayed, caller, inserter>> /\ snap.pc # "refer"
    BY <1>33 DEF ForkEnd, dataVars, poolVars
  <2> QED
    BY <2>1, SnapCalm, CalmKeeps
<1>34. CASE \E p \in Procs : NotifyPanics(p)
  BY <1>34, KeptCalm, CalmKeeps DEF NotifyPanics, goVars, dataVars, poolVars
<1>35. CASE \E a \in Account : TryInsertEnd(a)
  <2>1. inserter' = Idle /\ inserter.pc = "next"
        /\ UNCHANGED <<chains, current, strayed, snap, caller>>
    BY <1>35 DEF TryInsertEnd, AtNext, dataVars, poolVars
  <2>2. ~Busy(inserter, x)'
    BY <2>1, IdlePc DEF Busy
  <2> QED
    BY <2>1, <2>2, InserterCalm, CalmKeeps
<1> QED
  BY <1>1, <1>2, <1>3, <1>4, <1>5, <1>6, <1>7, <1>8, <1>9, <1>10, <1>11, <1>12,
     <1>13, <1>14, <1>15, <1>16, <1>17, <1>18, <1>19, <1>20, <1>21, <1>22, <1>23,
     <1>24, <1>25, <1>26, <1>27, <1>28, <1>29, <1>30, <1>31, <1>32, <1>33, <1>34,
     <1>35
  DEF Next, Pools, Callers, Inserter, Snapshots, Forks


LEMMA PoolInvStep ==
    ASSUME TypeInv, TypeInv', DiskInv, PoolInv, Next, Effect
    PROVE  PoolInv'
<1>1. RollbackBelow'
  BY RollbackBelowStep
<1>2. ASSUME NEW x \in Account
      PROVE  PoolInvOf(x)'
  <2>1. PoolInvOf(x)
    BY DEF PoolInv
  <2> QED
    BY <2>1, PoolInvOfStep
<1> QED
  BY <1>1, <1>2 DEF PoolInv

-----------------------------------------------------------------------------
(***************************************************************************)
(* How the process ends.  Nothing runs after a panic, so that what         *)
(* explains it is looked for in the state it happened in.                  *)
(***************************************************************************)
LEMMA ProcsAre == Procs = {ProcAt(s) : s \in Slot}
<1>1. ASSUME NEW p \in Procs
      PROVE  \E s \in Slot : p = ProcAt(s)
  <2>1. CASE p = inserter
    BY <2>1, OtherSlots
  <2>2. CASE p # inserter
    <3>1. PICK g \in Caller : p = caller[g]
      BY <1>1, <2>2 DEF Procs
    <3> QED
      BY <3>1, OtherSlots
  <2> QED
    BY <2>1, <2>2
<1>2. ASSUME NEW s \in Slot
      PROVE  ProcAt(s) \in Procs
  BY DEF Slot, ProcAt, Procs
<1> QED
  BY <1>1, <1>2

LEMMA SpoiledSome ==
    ASSUME NEW a, ~Sound(a)
    PROVE  spoiled # {}
BY DEF Sound

\* The verifier's walk meets a hole.
LEMMA VerifyHole ==
    ASSUME TypeInv, DiskInv, NEW b \in ABlock, VerifyPanics(b)
    PROVE  spoiled # {}
<1>1. Body[b].to \in Account /\ Receipt(Body[b].to, Body[b].source).hole
  BY BlockFacts DEF VerifyPanics
<1> QED
  BY <1>1, HoleSpoiled, SpoiledSome

\* A chain without a gap has the block that loopTryInsert takes.
LEMMA NextThere ==
    ASSUME TypeInv, PoolInv, NEW a \in Account, CanTryInsert(a), NextOf(a) = Nil
    PROVE  spoiled # {} \/ strayed # {}
<1>1. SUFFICES ASSUME Sound(a), a \notin strayed
               PROVE  FALSE
  BY DEF Sound
<1>2. HasPool(a) /\ TryHeight(a) <= Current(a).headHeight
      /\ TryChain(a) = current[a] /\ TryHeight(a) = Current(a).tailHeight + 1
  BY <1>1, TryAtTail DEF CanTryInsert, PoolInv, Current
<1>3. PICK k \in ChainRec : k = Current(a)
  BY <1>2, CurrentFacts, TypeParts
<1>4. Contig(k)
  <2>1. current[a] \in 1..Len(chains[a]) /\ Current(a) = chains[a][current[a]]
    BY <1>2, CurrentFacts, TypeParts
  <2>2. Contig(chains[a][current[a]])
    BY <1>1, <2>1 DEF PoolInv, PoolInvOf
  <2> QED
    BY <1>3, <2>1, <2>2, ContigSame
<1>5. k.tailHeight + 1 <= k.headHeight /\ k.headHeight \in -1..MaxHeight /\ k.tailHeight \in -1..MaxHeight
  BY <1>2, <1>3 DEF ChainRec
<1>6. PICK h : h = k.tailHeight + 1
  OBVIOUS
<1>7. h \in Height /\ k.tailHeight < h /\ h <= k.headHeight
  BY <1>5, <1>6, BodyAssumption DEF Height
<1>8. k.heightBlocks[h] # Nil
  BY <1>4, <1>7 DEF Contig
<1>9. NextOf(a) = k.heightBlocks[h]
  BY <1>2, <1>3, <1>6, <1>7 DEF NextOf, OwnBlock, Current
<1> QED
  BY <1>8, <1>9

\* findAccountAboveSnapshotHeight finds nothing.
LEMMA NoBlockBelow ==
    ASSUME TypeInv, DiskInv, NEW a \in Account, NEW n \in Nat, AboveSnapshotHeight(a, n) = Nil
    PROVE  ~Sound(a) \/ head[a] = Nil \/ Refer(AtHeight(a, 0)) > n
<1>1. SUFFICES ASSUME Sound(a), head[a] # Nil, ~(Refer(AtHeight(a, 0)) > n)
               PROVE  FALSE
  OBVIOUS
<1>2. HeadHeight(a) \in Int /\ HeadHeight(a) >= 0 /\ HeadHeight(a) <= MaxHeight
  BY <1>1, HeadFacts DEF TypeInv, LedgerTypeOK, DiskTypeOK
<1>3. ASSUME NEW h \in 0..HeadHeight(a)
      PROVE  AtHeight(a, h) \in ABlock
  <2>1. h \in Height /\ h <= HeadHeight(a)
    BY <1>2, <1>3, BodyAssumption DEF Height
  <2>2. byHeight[a][h] # Nil
    BY <1>1, <2>1 DEF DiskInv, Linked
  <2>3. byHeight \in [Account -> [Height -> BlockOrNil]]
    BY DEF TypeInv, LedgerTypeOK, DiskTypeOK
  <2> QED
    BY <2>1, <2>2, <2>3, AtHeightFacts DEF BlockOrNil
<1>4. 0 \in 0..HeadHeight(a)
  BY <1>2
<1>5. Refer(AtHeight(a, 0)) <= n
  <2>1. AtHeight(a, 0) \in ABlock
    BY <1>3, <1>4
  <2>2. Body[AtHeight(a, 0)].snapshot \in SBlock
    BY <2>1, BlockFacts
  <2>3. Refer(AtHeight(a, 0)) \in Nat
    BY <2>2, BodyAssumption DEF Refer, SHeight
  <2> QED
    BY <1>1, <2>3
<1> DEFINE hit == {h \in 0..HeadHeight(a) :
                      AtHeight(a, h) = Nil \/ Refer(AtHeight(a, h)) <= n}
<1>6. hit # {} /\ hit \subseteq 0..HeadHeight(a)
  BY <1>4, <1>5
<1>7. AboveSnapshotHeight(a, n) = AtHeight(a, Max(hit))
  BY <1>6 DEF AboveSnapshotHeight
<1>8. Max(hit) \in hit
  <2>1. 0 \in Int
    OBVIOUS
  <2> HIDE DEF hit
  <2> QED
    BY <1>2, <1>6, <2>1, MaxOfInterval
<1>9. Max(hit) \in 0..HeadHeight(a)
  BY <1>6, <1>8
<1>10. AtHeight(a, Max(hit)) \in ABlock
  BY <1>3, <1>9
<1> QED
  BY <1>7, <1>10, BlockFacts

\* The search for the receipt of a sent block finds nothing.
LEMMA NoReceiptFound ==
    ASSUME TypeInv, DiskInv, NEW x \in ABlock, ~Receipt(Body[x].to, x).hole,
           Receipt(Body[x].to, x).block = Nil, NEW r \in ABlock, Receives(r, x)
    PROVE  BlockHeight[r] = 0 \/ ~Sound(Body[r].signer)
<1>1. Body[r].signer = Body[x].to
  BY ReceiptFacts DEF Receives
<1>2. Body[x].to \in Account
  BY BlockFacts
<1> QED
  BY <1>1, <1>2, OnlyFirst

LEMMA SendsFacts ==
    ASSUME NEW tasks, NEW x \in SendsOf(tasks)
    PROVE  x \in ABlock /\ OnDisk(x) /\ Body[x].blockType = "SEND" /\ Body[x].to \in Account
<1>1. PICK a \in Account : x \in Sends(a, tasks[a])
  BY DEF SendsOf
<1>2. x \in ABlock /\ OnDisk(x) /\ Body[x].blockType = "SEND"
  BY <1>1 DEF Sends
<1> QED
  BY <1>2, BlockFacts

\* rollback walks down to a height where the disk has no block.
LEMMA VictimThere ==
    ASSUME TypeInv, DiskInv, PoolInv, More, Victim = Nil
    PROVE  spoiled # {}
<1>1. PICK a \in Account : a = snap.acc /\ snap.wait[a] # Nil /\ snap.pc = "rollback"
  BY DEF More, TypeInv, LedgerTypeOK, ForkTypeOK
<1>2. snap \in Fork
  BY DEF TypeInv, LedgerTypeOK, ForkTypeOK
<1>3. snap.wait[a] \in ABlock /\ snap.height \in -1..MaxHeight
  BY <1>1, <1>2 DEF Fork, BlockOrNil
<1>4. snap.height \in Height
  BY <1>1, <1>3, BlockFacts, BodyAssumption DEF More, Height
<1>5. ASSUME Sound(a)
      PROVE  FALSE
  <2>1. snap.height <= HeadHeight(a)
    BY <1>1, <1>5 DEF PoolInv, RollbackBelow
  <2>2. byHeight[a][snap.height] # Nil
    BY <1>4, <1>5, <2>1 DEF DiskInv, Linked
  <2> QED
    BY <1>1, <1>4, <2>2 DEF Victim, AtHeight
<1> QED
  BY <1>5, SpoiledSome

\* A receipt overtakes the call for its sent block.
LEMMA UnheardExplained ==
    ASSUME TypeInv, ReceiptInv, ReqInv, NEW p \in Procs, p.pc = "put", Unheard(p.block)
    PROVE  \/ spoiled # {}
           \/ \E q \in Procs : q.pc = "put" /\ Body[q.block].blockType = "SEND"
<1>1. PICK s \in Slot : p = ProcAt(s)
  BY ProcsAre
<1>2. PICK b \in ABlock : b = p.block
  BY <1>1, SlotType
<1>3. Body[b].blockType = "RECEIVED" /\ reqs[Body[b].source] = -1
  BY <1>2 DEF Unheard, NoReq, ReqOf
<1>4. Backed(b)
  BY <1>1, <1>2, <1>3 DEF ReceiptInv, ProcReceipts
<1>5. PICK x \in ABlock : x = Body[b].source /\ Body[x].blockType = "SEND"
  BY <1>3, ReceiptFacts
<1>6. CASE ~Sound(Body[x].signer)
  BY <1>6, SpoiledSome
<1>7. CASE OnDisk(x)
  <2>1. PICK t \in Slot : ProcAt(t).pc = "put" /\ ProcAt(t).block = x
    BY <1>3, <1>5, <1>7 DEF ReqInv, ReqsKnown, PutOf
  <2>2. ProcAt(t) \in Procs
    BY ProcsAre
  <2> QED
    BY <1>5, <2>1, <2>2
<1> QED
  BY <1>4, <1>5, <1>6, <1>7 DEF Backed

\* The steps that follow a nil pointer, or any other step.  Whether a chain
\* has its head is a matter of the chains it refers to, one after the other,
\* which is not followed here.
Panics ==
    \/ panic' \in {"", "no head"}
    \/ panic' = "hole" /\ spoiled' # {}
    \/ panic' = "no request" /\ spoiled' # {}
    \/ /\ panic' = "no request" /\ UNCHANGED <<caller, inserter>>
       /\ \E q \in Procs : q.pc = "put" /\ Body[q.block].blockType = "SEND"
    \/ /\ panic' = "no receipt" /\ UNCHANGED <<diskVars, spoiled>>
       /\ \E b \in ABlock : /\ OnDisk(b) /\ Body[b].blockType = "SEND"
                            /\ \A r \in ABlock : Receives(r, b) =>
                                  BlockHeight[r] = 0 \/ ~Sound(Body[r].signer)
    \/ /\ panic' = "no block" /\ UNCHANGED <<diskVars, poolVars, spoiled, snap>>
       /\ \E a \in Account : /\ HasPool(a)
                             /\ ~Sound(a) \/ head[a] = Nil \/ Refer(AtHeight(a, 0)) > snap.n
    \/ /\ panic' = "gap" /\ UNCHANGED <<spoiled, strayed, snap>>
       /\ spoiled # {} \/ strayed # {} \/ snap.pc = "refer"

LEMMA PanicsStep ==
    ASSUME TypeInv, DiskInv, ReceiptInv, ReqInv, PoolInv, Next
    PROVE  Panics
<1>1. CASE \E a \in Account : SelfPendingAc(a)
  <2>1. panic = "" /\ panic' = panic
    BY <1>1 DEF SelfPendingAc, Running, dataVars
  <2> QED
    BY <2>1 DEF Panics
<1>2. CASE \E a \in Account : SelfAcMiss(a)
  <2>1. panic = "" /\ panic' = panic
    BY <1>2 DEF SelfAcMiss, Running, dataVars
  <2> QED
    BY <2>1 DEF Panics
<1>3. CASE \E a \in Account : SelfAcStore(a)
  <2>1. panic = "" /\ panic' = panic
    BY <1>3 DEF SelfAcStore, Running, dataVars
  <2> QED
    BY <2>1 DEF Panics
<1>4. CASE \E b \in ABlock : CompactExtend(b)
  <2>1. panic = "" /\ panic' = panic
    BY <1>4 DEF CompactExtend, Arrived, Running, dataVars
  <2> QED
    BY <2>1 DEF Panics
<1>5. CASE \E b \in ABlock : CompactFork(b)
  <2>1. panic = "" /\ panic' = panic
    BY <1>5 DEF CompactFork, Arrived, Running, dataVars
  <2> QED
    BY <2>1 DEF Panics
<1>6. CASE \E g \in Caller : \E b \in Local : MakeBlock(g, b)
  <2>1. panic = "" /\ panic' = panic
    BY <1>6 DEF MakeBlock, Running, dataVars
  <2> QED
    BY <2>1 DEF Panics
<1>7. CASE \E g \in Caller : AddDirectVerify(g)
  <2>1. PICK g \in Caller : AddDirectVerify(g)
    BY <1>7
  <2>2. PICK b \in ABlock : b = caller[g].block
    BY <2>1 DEF AddDirectVerify, TypeInv, LedgerTypeOK, ProcTypeOK
  <2>3. panic' = (IF VerifyPanics(b) THEN "hole" ELSE "") /\ spoiled' = spoiled
    BY <2>1, <2>2 DEF AddDirectVerify
  <2> QED
    BY <2>3, VerifyHole DEF Panics
<1>8. CASE \E g \in Caller : AddDirectInsert(g)
  <2>1. panic = "" /\ panic' = panic
    BY <1>8 DEF AddDirectInsert, Running, dataVars
  <2> QED
    BY <2>1 DEF Panics
<1>9. CASE \E g \in Caller : AddDirectRefuse(g)
  <2>1. panic = "" /\ panic' = panic
    BY <1>9 DEF AddDirectRefuse, Running, dataVars
  <2> QED
    BY <2>1 DEF Panics
<1>10. CASE \E g \in Caller : AddDirectNotify(g)
  <2>1. panic = "" /\ panic' = panic
    BY <1>10 DEF AddDirectNotify, Running, dataVars
  <2> QED
    BY <2>1 DEF Panics
<1>11. CASE \E a \in Account : TryInsertPanics(a)
  <2>1. PICK a \in Account : TryInsertPanics(a)
    BY <1>11
  <2>2. CanTryInsert(a) /\ UNCHANGED <<spoiled, strayed, snap>>
    BY <2>1 DEF TryInsertPanics, goVars
  <2>3. CASE NextOf(a) = Nil
    BY <2>1, <2>2, <2>3, NextThere DEF Panics, TryInsertPanics
  <2>4. CASE NextOf(a) # Nil
    <3>1. VerifyPanics(NextOf(a)) /\ panic' = "hole"
      BY <2>1, <2>4 DEF TryInsertPanics
    <3>2. NextOf(a) \in ABlock
      <4>1. TryChain(a) \in 1..Len(chains[a]) /\ PoolOK
        BY <2>2, TryChainThere, TypeParts DEF CanTryInsert
      <4> QED
        BY <2>4, <4>1, OwnBlockFacts DEF NextOf, IsOf
    <3> QED
      BY <2>2, <3>1, <3>2, VerifyHole DEF Panics
  <2> QED
    BY <2>3, <2>4
<1>12. CASE \E a \in Account : TryInsertVerify(a)
  <2>1. panic = "" /\ panic' = panic
    BY <1>12 DEF TryInsertVerify, CanTryInsert, Running, dataVars
  <2> QED
    BY <2>1 DEF Panics
<1>13. CASE \E a \in Account : TryInsertPending(a)
  <2>1. panic = "" /\ panic' = panic
    BY <1>13 DEF TryInsertPending, CanTryInsert, Running, dataVars
  <2> QED
    BY <2>1 DEF Panics
<1>14. CASE TryInsertWrite
  <2>1. panic = "" /\ panic' = panic
    BY <1>14 DEF TryInsertWrite, Running, dataVars
  <2> QED
    BY <2>1 DEF Panics
<1>15. CASE TryInsertRefuse
  <2>1. panic = "" /\ panic' = panic
    BY <1>15 DEF TryInsertRefuse, Running, dataVars
  <2> QED
    BY <2>1 DEF Panics
<1>16. CASE TryInsertNotify
  <2>1. panic = "" /\ panic' = panic
    BY <1>16 DEF TryInsertNotify, Running, dataVars
  <2> QED
    BY <2>1 DEF Panics
<1>17. CASE SnapshotInsert
  <2>1. panic = "" /\ panic' = panic
    BY <1>17 DEF SnapshotInsert, CanSnapshot, Running, dataVars
  <2> QED
    BY <2>1 DEF Panics
<1>18. CASE SnapshotPending
  <2>1. panic = "" /\ panic' = panic
    BY <1>18 DEF SnapshotPending, CanSnapshot, Running, dataVars
  <2> QED
    BY <2>1 DEF Panics
<1>19. CASE SnapshotFail
  <2>1. panic = "" /\ panic' = panic
    BY <1>19 DEF SnapshotFail, CanSnapshot, Running, dataVars
  <2> QED
    BY <2>1 DEF Panics
<1>20. CASE \E br \in DOMAIN Branch : SnapshotFork(br)
  <2>1. panic = "" /\ panic' = panic
    BY <1>20 DEF SnapshotFork, Running, dataVars
  <2> QED
    BY <2>1 DEF Panics
<1>21. CASE \E a \in Account : UnLockAccount(a)
  <2>1. panic = "" /\ panic' = panic
    BY <1>21 DEF UnLockAccount, Running, dataVars
  <2> QED
    BY <2>1 DEF Panics
<1>22. CASE \E a \in Account : Rollback(a)
  <2>1. panic = "" /\ panic' = panic
    BY <1>22 DEF Rollback, Running, dataVars
  <2> QED
    BY <2>1 DEF Panics
<1>23. CASE ForkAccounts
  <2>1. UNCHANGED <<diskVars, poolVars, spoiled>>
    BY <1>23 DEF ForkAccounts
  <2>2. CASE \E a \in Touched(snap.n) : AboveSnapshotHeight(a, snap.n) = Nil
    <3>1. PICK a \in Touched(snap.n) : AboveSnapshotHeight(a, snap.n) = Nil
      BY <2>2
    <3>2. a \in Account /\ HasPool(a)
      BY DEF Touched
    <3>3. snap.n \in Nat
      BY DEF TypeInv, LedgerTypeOK, ForkTypeOK, Fork
    <3>4. ~Sound(a) \/ head[a] = Nil \/ Refer(AtHeight(a, 0)) > snap.n
      BY <3>1, <3>2, <3>3, NoBlockBelow
    <3>5. panic' = "no block" /\ UNCHANGED snap
      BY <1>23, <3>1, <3>2 DEF ForkAccounts
    <3> QED
      BY <2>1, <3>2, <3>4, <3>5 DEF Panics
  <2>3. CASE ~\E a \in Touched(snap.n) : AboveSnapshotHeight(a, snap.n) = Nil
    <3>1. \A a \in Touched(snap.n) : a \in Account
      BY DEF Touched
    <3>2. panic' = panic
      BY <1>23, <2>3, <3>1 DEF ForkAccounts
    <3> QED
      BY <1>23, <3>2 DEF Panics, ForkAccounts, Running
  <2> QED
    BY <2>2, <2>3
<1>24. CASE WaitRollback
  <2>1. UNCHANGED <<diskVars, spoiled>> /\ panic = ""
    BY <1>24 DEF WaitRollback, Running
  <2> DEFINE sends == SendsOf(snap.tasks)
  <2>2. CASE \E x \in sends : Receipt(Body[x].to, x).hole
    <3>1. PICK x \in sends : Receipt(Body[x].to, x).hole
      BY <2>2
    <3>2. spoiled # {}
      BY <3>1, SendsFacts, HoleSpoiled, SpoiledSome
    <3>3. panic' = "hole"
      BY <1>24, <2>2 DEF WaitRollback
    <3> QED
      BY <2>1, <3>2, <3>3 DEF Panics
  <2>3. CASE /\ ~\E x \in sends : Receipt(Body[x].to, x).hole
             /\ \E x \in sends : Receipt(Body[x].to, x).block = Nil
    <3>1. PICK x \in sends : Receipt(Body[x].to, x).block = Nil
      BY <2>3
    <3>2. ~Receipt(Body[x].to, x).hole
      BY <2>3
    <3>3. x \in ABlock /\ OnDisk(x) /\ Body[x].blockType = "SEND"
      BY SendsFacts
    <3>4. \A r \in ABlock : Receives(r, x) => BlockHeight[r] = 0 \/ ~Sound(Body[r].signer)
      BY <3>1, <3>2, <3>3, NoReceiptFound
    <3>5. panic' = "no receipt"
      BY <1>24, <2>3 DEF WaitRollback
    <3> QED
      BY <2>1, <3>3, <3>4, <3>5 DEF Panics
  <2>4. CASE /\ ~\E x \in sends : Receipt(Body[x].to, x).hole
             /\ ~\E x \in sends : Receipt(Body[x].to, x).block = Nil
    <3>1. panic' = panic
      BY <1>24, <2>4 DEF WaitRollback
    <3> QED
      BY <2>1, <3>1 DEF Panics
  <2> QED
    BY <2>2, <2>3, <2>4
<1>25. CASE RollbackBlock
  <2>1. panic = "" /\ spoiled' = spoiled \cup {snap.acc} /\ (panic' = "no request" \/ panic' = panic)
    BY <1>25 DEF RollbackBlock, RemoveChain, Delete, Running
  <2> QED
    BY <2>1 DEF Panics
<1>26. CASE RollbackEnd
  <2>1. panic = "" /\ spoiled' = spoiled
        /\ (panic' = panic \/ (panic' = "hole" /\ More /\ Victim = Nil))
    BY <1>26 DEF RollbackEnd, Running
  <2> QED
    BY <2>1, VictimThere DEF Panics
<1>27. CASE ForkKeys
  <2>1. panic = "" /\ panic' = panic
    BY <1>27 DEF ForkKeys, Running, dataVars
  <2> QED
    BY <2>1 DEF Panics
<1>28. CASE ForkAccountTo
  <2>1. panic = "" /\ panic' \in {panic, "no head"}
    BY <1>28 DEF ForkAccountTo, Running
  <2> QED
    BY <2>1 DEF Panics
<1>29. CASE ModifyCheck
  <2>1. panic = "" /\ panic' = panic
    BY <1>29 DEF ModifyCheck, Running, dataVars
  <2> QED
    BY <2>1 DEF Panics
<1>30. CASE ModifyRefer
  <2>1. panic = "" /\ snap.pc = "refer" /\ UNCHANGED <<spoiled, snap>>
        /\ (panic' = panic \/ (panic' = "gap" /\ strayed' = strayed))
    BY <1>30 DEF ModifyRefer, Running, goVars
  <2> QED
    BY <2>1 DEF Panics
<1>31. CASE ModifyCurrent
  <2>1. panic = "" /\ panic' = panic
    BY <1>31 DEF ModifyCurrent, Running, dataVars
  <2> QED
    BY <2>1 DEF Panics
<1>32. CASE FailEnd
  <2>1. panic = "" /\ panic' = panic
    BY <1>32 DEF FailEnd, Running, dataVars
  <2> QED
    BY <2>1 DEF Panics
<1>33. CASE ForkEnd
  <2>1. panic = "" /\ panic' = panic
    BY <1>33 DEF ForkEnd, Running, dataVars
  <2> QED
    BY <2>1 DEF Panics
<1>34. CASE \E p \in Procs : NotifyPanics(p)
  <2>1. PICK p \in Procs : NotifyPanics(p)
    BY <1>34
  <2>2. p.pc = "put" /\ Unheard(p.block) /\ panic' = "no request"
        /\ UNCHANGED <<spoiled, caller, inserter>>
    BY <2>1 DEF NotifyPanics, goVars
  <2>3. \/ spoiled # {}
        \/ \E q \in Procs : q.pc = "put" /\ Body[q.block].blockType = "SEND"
    BY <2>2, UnheardExplained
  <2> QED
    BY <2>2, <2>3 DEF Panics
<1>35. CASE \E a \in Account : TryInsertEnd(a)
  <2>1. panic = "" /\ panic' = panic
    BY <1>35 DEF TryInsertEnd, Running, dataVars
  <2> QED
    BY <2>1 DEF Panics
<1> QED
  BY <1>1, <1>2, <1>3, <1>4, <1>5, <1>6, <1>7, <1>8, <1>9, <1>10, <1>11, <1>12,
     <1>13, <1>14, <1>15, <1>16, <1>17, <1>18, <1>19, <1>20, <1>21, <1>22, <1>23,
     <1>24, <1>25, <1>26, <1>27, <1>28, <1>29, <1>30, <1>31, <1>32, <1>33, <1>34,
     <1>35
  DEF Next, Pools, Callers, Inserter, Snapshots, Forks


LEMMA SameDisk ==
    ASSUME UNCHANGED <<diskVars, spoiled>>, NEW b
    PROVE  /\ OnDisk(b)' <=> OnDisk(b)
           /\ \A r : Receives(r, b)' <=> Receives(r, b)
           /\ \A a : (Sound(a)' <=> Sound(a)) /\ head'[a] = head[a] /\ AtHeight(a, 0)' = AtHeight(a, 0)
BY DEF diskVars, OnDisk, Receives, Sound, AtHeight

LEMMA PanicsExplainedStep ==
    ASSUME Panics, panic' # "no head"
    PROVE  PanicsExplained'
<1>1. CASE panic' = ""
  BY <1>1 DEF PanicsExplained
<1>2. CASE panic' = "hole" /\ spoiled' # {}
  BY <1>2 DEF PanicsExplained
<1>3. CASE panic' = "no request" /\ spoiled' # {}
  BY <1>3 DEF PanicsExplained
<1>4. CASE /\ panic' = "no request" /\ UNCHANGED <<caller, inserter>>
           /\ \E q \in Procs : q.pc = "put" /\ Body[q.block].blockType = "SEND"
  <2>1. Procs' = Procs
    BY <1>4 DEF Procs
  <2> QED
    BY <1>4, <2>1 DEF PanicsExplained
<1>5. CASE /\ panic' = "no receipt" /\ UNCHANGED <<diskVars, spoiled>>
           /\ \E b \in ABlock : /\ OnDisk(b) /\ Body[b].blockType = "SEND"
                                /\ \A r \in ABlock : Receives(r, b) =>
                                      BlockHeight[r] = 0 \/ ~Sound(Body[r].signer)
  <2>1. PICK b \in ABlock : /\ OnDisk(b) /\ Body[b].blockType = "SEND"
                            /\ \A r \in ABlock : Receives(r, b) =>
                                  BlockHeight[r] = 0 \/ ~Sound(Body[r].signer)
    BY <1>5
  <2>2. OnDisk(b)' /\ \A r \in ABlock : Receives(r, b)' =>
                         BlockHeight[r] = 0 \/ ~Sound(Body[r].signer)'
    BY <1>5, <2>1, SameDisk
  <2> QED
    BY <1>5, <2>1, <2>2 DEF PanicsExplained
<1>6. CASE /\ panic' = "no block" /\ UNCHANGED <<diskVars, poolVars, spoiled, snap>>
           /\ \E a \in Account : /\ HasPool(a)
                                 /\ ~Sound(a) \/ head[a] = Nil \/ Refer(AtHeight(a, 0)) > snap.n
  <2>1. PICK a \in Account : /\ HasPool(a)
                             /\ ~Sound(a) \/ head[a] = Nil \/ Refer(AtHeight(a, 0)) > snap.n
    BY <1>6
  <2>2. HasPool(a)' /\ (~Sound(a)' \/ head'[a] = Nil \/ Refer(AtHeight(a, 0)') > snap'.n)
    BY <1>6, <2>1, SameDisk DEF poolVars, HasPool
  <2>3. Refer(AtHeight(a, 0))' = Refer(AtHeight(a, 0)')
    BY DEF Refer, SHeight
  <2> QED
    BY <1>6, <2>2, <2>3 DEF PanicsExplained
<1>7. CASE /\ panic' = "gap" /\ UNCHANGED <<spoiled, strayed, snap>>
           /\ spoiled # {} \/ strayed # {} \/ snap.pc = "refer"
  BY <1>7 DEF PanicsExplained
<1> QED
  BY <1>1, <1>2, <1>3, <1>4, <1>5, <1>6, <1>7 DEF Panics

-----------------------------------------------------------------------------
(***************************************************************************)
(* The inductive invariant and what follows from it.                       *)
(***************************************************************************)
LedgerInv == /\ TypeInv /\ DiskInv /\ PointsConfirm /\ ReceiptInv /\ ReqInv /\ PoolInv
             /\ panic # "no head" => PanicsExplained

LEMMA LedgerInvInit ==
    ASSUME Init
    PROVE  LedgerInv
<1>1. TypeInv
  BY TypeInit
<1>2. /\ head = GenesisOf
      /\ byHeight = [a \in Account |-> [h \in Height |-> IF h = 0 THEN GenesisOf[a] ELSE Nil]]
      /\ points = [a \in Account |-> <<>>]
      /\ reqs = [b \in ABlock |-> -1]
      /\ chains = [a \in Account |-> <<>>] /\ current = [a \in Account |-> 0]
      /\ panic = "" /\ caller = [g \in Caller |-> Idle] /\ inserter = Idle /\ snap = NoFork
  BY DEF Init
<1>3. ASSUME NEW s \in Slot
      PROVE  ProcAt(s).pc = "idle"
  <2>1. PICK p \in Procs : p = ProcAt(s)
    BY ProcsAre
  <2>2. p = Idle
    BY <1>2 DEF Procs
  <2> QED
    BY <2>1, <2>2, IdlePc
<1>4. 0 \in Height /\ \A h \in Height : h \in Int /\ 0 <= h
  BY BodyAssumption DEF Height
<1>5. \A a \in Account : \A h \in Height : byHeight[a][h] = IF h = 0 THEN GenesisOf[a] ELSE Nil
  BY <1>2
<1>6. ASSUME NEW a \in Account
      PROVE  Linked(a)
  <2>1. HeadHeight(a) = (IF GenesisOf[a] = Nil THEN -1 ELSE 0)
    BY <1>2, GenesisFacts DEF HeadHeight
  <2>2. \A h \in Height : byHeight[a][h] # Nil <=> h <= HeadHeight(a)
    BY <1>4, <1>5, <2>1
  <2>3. head[a] # Nil => byHeight[a][HeadHeight(a)] = head[a]
    BY <1>2, <1>4, <1>5, <2>1
  <2>4. \A h \in 1..HeadHeight(a) : FALSE
    BY <2>1
  <2> QED
    BY <2>2, <2>3, <2>4 DEF Linked
<1>7. DiskInv
  BY <1>3, <1>6 DEF DiskInv, Mutex, Busy, ProcLinked
<1>8. PointsConfirm
  <2>1. \A a \in Account : points[a] = <<>>
    BY <1>2
  <2>2. DOMAIN <<>> = {}
    OBVIOUS
  <2>3. \A a \in Account : DOMAIN points[a] = {}
    BY <2>1, <2>2
  <2> QED
    BY <2>3 DEF PointsConfirm
<1>9. ASSUME NEW b \in ABlock, OnDisk(b)
      PROVE  Body[b].blockType = "GENESIS"
  <2>1. byHeight[Body[b].signer][BlockHeight[b]] = b
    BY <1>9, OnDiskIs
  <2>2. Body[b].signer \in Account /\ BlockHeight[b] \in Height /\ b # Nil
    BY BlockFacts
  <2>3. GenesisOf[Body[b].signer] = b
    BY <1>5, <2>1, <2>2
  <2> QED
    BY <2>2, <2>3, GenesisFacts
<1>10. \A r, b \in ABlock : ~Receives(r, b)
  BY <1>9 DEF Receives
<1>11. ReceiptInv
  <2>1. DiskReceipts
    BY <1>9 DEF DiskReceipts
  <2>2. ReceiptsOnce
    BY <1>9 DEF ReceiptsOnce, Receives
  <2>3. \A s \in Slot : ProcReceipts(ProcAt(s))
    BY <1>3 DEF ProcReceipts
  <2> QED
    BY <2>1, <2>2, <2>3 DEF ReceiptInv
<1>12. ReqInv
  <2>1. ReqsKnown
    BY <1>9 DEF ReqsKnown
  <2>2. ASSUME NEW b \in ABlock
        PROVE  ReqState(b)
    <3>1. ~Heard(b) /\ ~HeardReceipt(b)
      BY <1>9, <1>10 DEF Heard, HeardReceipt
    <3>2. reqs[b] = -1
      BY <1>2
    <3> QED
      BY <3>1, <3>2 DEF ReqState
  <2> QED
    BY <2>1, <2>2 DEF ReqInv
<1>13. PoolInv
  <2>1. snap.pc = "idle"
    BY <1>2 DEF NoFork
  <2>2. ASSUME NEW a \in Account
        PROVE  PoolInvOf(a)
    <3>1. chains[a] = <<>> /\ ~HasPool(a)
      BY <1>2 DEF HasPool
    <3>2. ~Busy(inserter, a)
      BY <1>2, IdlePc DEF Busy
    <3>3. \A c \in 1..Len(chains[a]) : FALSE
      BY <3>1
    <3> QED
      BY <3>1, <3>2, <3>3 DEF PoolInvOf
  <2> QED
    BY <2>1, <2>2 DEF PoolInv, RollbackBelow
<1>14. PanicsExplained
  BY <1>2 DEF PanicsExplained
<1> QED
  BY <1>1, <1>7, <1>8, <1>11, <1>12, <1>13, <1>14 DEF LedgerInv

LEMMA Stuttering ==
    ASSUME LedgerInv, UNCHANGED vars
    PROVE  /\ Effect /\ TypeInv' /\ PointsConfirm' /\ PoolInv'
           /\ panic' # "no head" => PanicsExplained'
<1>1. UNCHANGED <<dataVars, goVars>>
  BY DEF vars
<1>2. UNCHANGED <<head, byHeight, points, inMap, byHash, sourceHash, reqs>>
      /\ UNCHANGED <<chains, current, panic, spoiled, strayed>>
      /\ UNCHANGED <<caller, inserter, snap>>
  BY <1>1 DEF dataVars, diskVars, poolVars, goVars
<1>3. Effect
  BY <1>2, SameProcs DEF Effect, Quiet
<1>4. TypeInv'
  BY TypeStep DEF LedgerInv
<1>5. PointsConfirm'
  BY <1>2 DEF LedgerInv, PointsConfirm, Sound, AtHeight
<1>6. PoolInv'
  <2>1. RollbackBelow'
    BY <1>2 DEF LedgerInv, PoolInv, RollbackBelow, Sound, HeadHeight
  <2>2. ASSUME NEW a \in Account
        PROVE  PoolInvOf(a)'
    <3>1. Calm(a)
      BY <1>2, KeptCalm
    <3> QED
      BY <1>3, <1>4, <3>1, CalmKeeps DEF LedgerInv, PoolInv
  <2> QED
    BY <2>1, <2>2 DEF PoolInv
<1>7. ASSUME panic' # "no head"
      PROVE  PanicsExplained'
  <2>1. UNCHANGED <<diskVars, poolVars, spoiled, strayed, snap, caller, inserter, panic>>
    BY <1>1 DEF dataVars, goVars
  <2>2. PanicsExplained
    BY <1>7, <2>1 DEF LedgerInv
  <2> QED
    BY <2>1, <2>2 DEF PanicsExplained, Procs, OnDisk, Receives, Sound, AtHeight, HasPool,
                      Refer, SHeight, diskVars, poolVars
<1> QED
  BY <1>3, <1>4, <1>5, <1>6, <1>7

LEMMA LedgerInvStep ==
    ASSUME LedgerInv, [Next]_vars
    PROVE  LedgerInv'
<1>1. TypeInv /\ DiskInv /\ PointsConfirm /\ ReceiptInv /\ ReqInv /\ PoolInv
  BY DEF LedgerInv
<1>2. TypeInv'
  BY <1>1, TypeStep
<1>3. Effect /\ PointsConfirm' /\ PoolInv' /\ (panic' # "no head" => PanicsExplained')
  <2>1. CASE Next
    <3>1. Effect
      BY <1>1, <2>1, EffectStep
    <3>2. PointsConfirm'
      BY <1>1, <2>1, <3>1, PointsStep
    <3>3. PoolInv'
      BY <1>1, <1>2, <2>1, <3>1, PoolInvStep
    <3>4. panic' # "no head" => PanicsExplained'
      BY <1>1, <2>1, PanicsStep, PanicsExplainedStep
    <3> QED
      BY <3>1, <3>2, <3>3, <3>4
  <2>2. CASE UNCHANGED vars
    BY <2>2, Stuttering
  <2> QED
    BY <2>1, <2>2
<1>4. DiskInv'
  BY <1>1, <1>3, DiskInvStep
<1>5. ReceiptInv'
  BY <1>1, <1>3, ReceiptInvStep
<1>6. ReqInv'
  BY <1>1, <1>3, ReqInvStep
<1> QED
  BY <1>2, <1>3, <1>4, <1>5, <1>6 DEF LedgerInv

LEMMA LedgerInvAlways == Spec => []LedgerInv
<1>1. LedgerInv /\ [Next]_vars => LedgerInv'
  BY LedgerInvStep
<1> QED
  BY <1>1, LedgerInvInit, PTL DEF Spec

LEMMA LinkedSuffices ==
    ASSUME LedgerInv
    PROVE  AccountsLinked
<1>1. SUFFICES ASSUME NEW a \in Account, Sound(a)
               PROVE  /\ \A h \in Height : AtHeight(a, h) # Nil <=> h <= HeadHeight(a)
                      /\ AtHeight(a, HeadHeight(a)) = head[a]
                      /\ \A h \in 1..HeadHeight(a) : PreHash[AtHeight(a, h)] = AtHeight(a, h - 1)
                      /\ HasPool(a) /\ ~Writing(a) /\ ~Switching(a) /\ a \notin strayed =>
                            /\ Current(a).tailHeight = HeadHeight(a)
                            /\ Current(a).tailHash \in {head[a], Nil}
  BY DEF AccountsLinked
<1>2. TypeInv /\ DiskInv /\ PoolInv
  BY DEF LedgerInv
<1>3. Linked(a)
  BY <1>1, <1>2 DEF DiskInv
<1>4. HeadHeight(a) \in -1..MaxHeight /\ (HeadHeight(a) = -1 <=> head[a] = Nil)
  BY <1>2, HeadFacts DEF TypeInv, LedgerTypeOK, DiskTypeOK
<1>5. \A h \in Height : AtHeight(a, h) # Nil <=> h <= HeadHeight(a)
  BY <1>3 DEF Linked, AtHeight
<1>6. AtHeight(a, HeadHeight(a)) = head[a]
  <2>1. CASE head[a] = Nil
    <3>1. HeadHeight(a) \notin Height
      BY <1>4, <2>1, BodyAssumption DEF Height
    <3> QED
      BY <2>1, <3>1 DEF AtHeight
  <2>2. CASE head[a] # Nil
    <3>1. HeadHeight(a) \in Height
      BY <1>4, <2>2, BodyAssumption DEF Height
    <3> QED
      BY <1>3, <2>2, <3>1 DEF AtHeight, Linked
  <2> QED
    BY <2>1, <2>2
<1>7. ASSUME NEW h \in 1..HeadHeight(a)
      PROVE  PreHash[AtHeight(a, h)] = AtHeight(a, h - 1)
  <2>1. h \in Height /\ h - 1 \in Height
    BY <1>4, <1>7, BodyAssumption DEF Height
  <2> QED
    BY <1>3, <2>1 DEF AtHeight, Linked
<1>8. ASSUME HasPool(a), ~Writing(a), ~Switching(a), a \notin strayed
      PROVE  AtDisk(a)
  <2>1. ~Putting(a)
    BY <1>8, RMuSlots DEF Putting, Writing, Busy
  <2> QED
    BY <1>1, <1>2, <1>8, <2>1 DEF PoolInv, PoolInvOf
<1> QED
  BY <1>5, <1>6, <1>7, <1>8 DEF AtDisk

\* An account that lost no block has an unbroken, hash-linked chain on disk,
\* although AddDirectAccountBlock and loopTryInsert verify a block in one
\* critical section and write it in another: rMu keeps insertions into one
\* account apart, so that the block that insertChain writes is still next to
\* the head.  Between insertions the pool's current chain starts there.
THEOREM LinkedCorrect == Spec => []AccountsLinked
<1>1. LedgerInv => AccountsLinked
  BY LinkedSuffices
<1> QED
  BY <1>1, LedgerInvAlways, PTL

\* The snapshot points that InsertSnapshotBlock pushes and
\* RollbackSnapshotPoint pops rise, and name blocks that are on the disk of
\* an account that lost no block.
THEOREM PointsCorrect == Spec => []PointsConfirm
<1>1. LedgerInv => PointsConfirm
  BY DEF LedgerInv
<1> QED
  BY <1>1, LedgerInvAlways, PTL

\* Neither a rollback, which looks at hasSnapshotPoint before each block, nor
\* an insertion takes a block at or below the last snapshot point away.
THEOREM ConfirmedCorrect == Spec => ConfirmedStay
<1>1. ASSUME LedgerInv, [Next]_vars
      PROVE  [\A a \in Account : \A h \in Height :
                 /\ h <= TopPoint(a)
                 /\ AtHeight(a, h)' # AtHeight(a, h)
                 => \/ TopPoint(a)' < h
                    \/ ~Sound(a) /\ AtHeight(a, h)' # Nil]_vars
  <2>1. CASE Next
    <3>1. TypeInv /\ DiskInv /\ PointsConfirm
      BY <1>1 DEF LedgerInv
    <3>2. Effect
      BY <2>1, <3>1, EffectStep
    <3> QED
      BY <3>1, <3>2, ConfirmedStep
  <2>2. CASE UNCHANGED vars
    BY <2>2
  <2> QED
    BY <1>1, <2>1, <2>2
<1> QED
  BY <1>1, LedgerInvAlways, PTL DEF Spec, ConfirmedStay

\* What VerifyFrom and the search in getBySourceBlock establish before rMu's
\* holder writes a receipt still holds of it on disk: its sent block is there
\* with the opposite amount, and no later block of the account receives it.
THEOREM ReceiptsCorrect == Spec => []ReceiptsBacked
<1>1. LedgerInv => ReceiptsBacked
  BY ReceiptInvSuffices DEF LedgerInv
<1> QED
  BY <1>1, LedgerInvAlways, PTL

\* Although the request pool is told of a block only after it can be read,
\* in the order in which goroutines of several accounts get there, between
\* insertions ListRequest shows what was sent and not received.
THEOREM RequestsCorrect == Spec => []RequestsOpen
<1>1. LedgerInv => RequestsOpen
  BY ReqInvSuffices DEF LedgerInv
<1> QED
  BY <1>1, LedgerInvAlways, PTL

\* The nil pointers that the verifier, the listener, getWaitRollbackAccounts,
\* rollback, ForkAccounts, loopTryInsert and modifyRefer follow are reached
\* in the named situations only.  The one of getForkPointByChains is left to
\* the model checker.
THEOREM PanicsCorrect == Spec => [](panic # "no head" => PanicsExplained)
<1>1. LedgerInv => (panic # "no head" => PanicsExplained)
  BY DEF LedgerInv
<1> QED
  BY <1>1, LedgerInvAlways, PTL
=============================================================================
