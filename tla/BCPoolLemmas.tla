---------------------------- MODULE BCPoolLemmas ----------------------------
(***************************************************************************)
(* Lemmas about the operators of BCPool: what each returns and preserves.  *)
(***************************************************************************)
EXTENDS BCPool, TLAPS, WellFoundedInduction, FiniteSetTheorems

\* A nonempty set of integers in an interval has a least member, and Min is it.
LEMMA MinOfInterval ==
    ASSUME NEW lo \in Int, NEW hi \in Int,
           NEW S, S \subseteq lo..hi, S # {}
    PROVE  /\ Min(S) \in S
           /\ \A y \in S : Min(S) <= y
<1> DEFINE T == {x - lo : x \in S}
<1>1. T \subseteq Nat /\ T # {}
  OBVIOUS
<1>2. PICK t \in T : \A y \in T : ~(<<y, t>> \in OpToRel(<, Nat))
  BY <1>1, WFMin, NatLessThanWellFounded
<1>3. \A y \in T : ~(y < t)
  BY <1>1, <1>2 DEF OpToRel
<1>4. PICK x \in S : t = x - lo
  OBVIOUS
<1>5. ASSUME NEW y \in S
      PROVE  x <= y
  <2>1. y - lo \in T
    OBVIOUS
  <2>2. ~(y - lo < t)
    BY <1>3, <2>1
  <2>3. x \in Int /\ y \in Int
    OBVIOUS
  <2> HIDE DEF T
  <2> QED
    BY <1>4, <2>2, <2>3
<1> QED
  BY <1>5 DEF Min

\* Likewise for the greatest member and Max.
LEMMA MaxOfInterval ==
    ASSUME NEW lo \in Int, NEW hi \in Int,
           NEW S, S \subseteq lo..hi, S # {}
    PROVE  /\ Max(S) \in S
           /\ \A y \in S : Max(S) >= y
<1> DEFINE T == {hi - x : x \in S}
<1>1. T \subseteq Nat /\ T # {}
  OBVIOUS
<1>2. PICK t \in T : \A y \in T : ~(<<y, t>> \in OpToRel(<, Nat))
  BY <1>1, WFMin, NatLessThanWellFounded
<1>3. \A y \in T : ~(y < t)
  BY <1>1, <1>2 DEF OpToRel
<1>4. PICK x \in S : t = hi - x
  OBVIOUS
<1>5. ASSUME NEW y \in S
      PROVE  x >= y
  <2>1. hi - y \in T
    OBVIOUS
  <2>2. ~(hi - y < t)
    BY <1>3, <2>1
  <2>3. x \in Int /\ y \in Int
    OBVIOUS
  <2> HIDE DEF T
  <2> QED
    BY <1>4, <2>2, <2>3
<1> QED
  BY <1>5 DEF Max

-----------------------------------------------------------------------------
(***************************************************************************)
(* What the constants say about one block.                                 *)
(***************************************************************************)
\* A block has a height in range, and the hash below it is a block or empty.
LEMMA BlockFacts ==
    ASSUME NEW b \in Block
    PROVE  /\ MaxHeight \in Nat
           /\ BlockHeight[b] \in Int
           /\ BlockHeight[b] >= 0 /\ BlockHeight[b] <= MaxHeight
           /\ PreHash[b] \in Block \cup {Nil}
  BY TreeAssumption DEF Height

\* A predecessor that is a block sits one height below.
LEMMA PredecessorBelow ==
    ASSUME NEW b \in Block, PreHash[b] \in Block
    PROVE  BlockHeight[b] = BlockHeight[PreHash[b]] + 1
  BY TreeAssumption

\* The empty map has its type.
LEMMA NoBlocksType == NoBlocks \in [Height -> HashOrNil]
  BY DEF NoBlocks, HashOrNil

-----------------------------------------------------------------------------
(***************************************************************************)
(* Types of the operations on snippets and chains.                         *)
(***************************************************************************)
\* forkedChain.init returns a chain.
LEMMA NewChainType ==
    ASSUME NEW b \in Block
    PROVE  NewChain(b) \in ForkedChain
  BY BlockFacts, NoBlocksType DEF NewChain, ForkedChain, HashOrNil, Height

\* snippetChain.init returns a snippet.
LEMMA NewSnippetType ==
    ASSUME NEW b \in Block
    PROVE  NewSnippet(b) \in Snippet
<1>1. [NoBlocks EXCEPT ![BlockHeight[b]] = b] \in [Height -> HashOrNil]
  BY NoBlocksType DEF HashOrNil
<1>2. BlockHeight[b] - 1 \in -1..MaxHeight
  BY BlockFacts
<1> QED
  BY <1>1, <1>2, BlockFacts DEF NewSnippet, Snippet, HashOrNil

\* The empty snippet has its type.
LEMMA NoSnippetType == NoSnippet \in Snippet
  BY NoBlocksType, TreeAssumption DEF NoSnippet, Snippet, HashOrNil

\* addTail returns a snippet.
LEMMA AddTailSnippet ==
    ASSUME NEW c \in Snippet, NEW b \in Block
    PROVE  AddTail(c, b) \in Snippet
<1>1. BlockHeight[b] - 1 \in -1..MaxHeight
  BY BlockFacts
<1> QED
  BY <1>1, BlockFacts DEF AddTail, Snippet, HashOrNil

\* addTail returns a chain that refers where it did.
LEMMA AddTailChain ==
    ASSUME NEW c \in ForkedChain, NEW b \in Block
    PROVE  /\ AddTail(c, b) \in ForkedChain
           /\ AddTail(c, b).referChain = c.referChain
<1>1. BlockHeight[b] - 1 \in -1..MaxHeight
  BY BlockFacts
<1> QED
  BY <1>1, BlockFacts DEF AddTail, ForkedChain, HashOrNil

\* removeTail returns a chain that refers where it did.
LEMMA RemoveTailChain ==
    ASSUME NEW c \in ForkedChain, NEW b \in Block
    PROVE  /\ RemoveTail(c, b) \in ForkedChain
           /\ RemoveTail(c, b).referChain = c.referChain
<1>1. BlockHeight[b] \in -1..MaxHeight
  BY BlockFacts
<1> QED
  BY <1>1 DEF RemoveTail, ForkedChain, HashOrNil

\* merge returns a snippet.
LEMMA MergeType ==
    ASSUME NEW c \in Snippet, NEW below \in Snippet
    PROVE  Merge(c, below) \in Snippet
  BY DEF Merge, Snippet

\* Deleting tails returns a snippet.
LEMMA CutToSnippet ==
    ASSUME NEW c \in Snippet, NEW n \in -1..MaxHeight
    PROVE  CutTo(c, n) \in Snippet
<1>1. CASE n <= c.tailHeight
  BY <1>1 DEF CutTo
<1>2. CASE ~(n <= c.tailHeight)
  <2>1. n \in Height
    BY <1>2, TreeAssumption DEF Snippet, Height
  <2> QED
    BY <1>2, <2>1 DEF CutTo, Snippet, HashOrNil
<1> QED
  BY <1>1, <1>2

\* Removing tails returns a chain that refers where it did.
LEMMA CutToChain ==
    ASSUME NEW c \in ForkedChain, NEW n \in -1..MaxHeight
    PROVE  /\ CutTo(c, n) \in ForkedChain
           /\ CutTo(c, n).referChain = c.referChain
<1>1. CASE n <= c.tailHeight
  BY <1>1 DEF CutTo
<1>2. CASE ~(n <= c.tailHeight)
  <2>1. n \in Height
    BY <1>2, TreeAssumption DEF ForkedChain, Height
  <2> QED
    BY <1>2, <2>1 DEF CutTo, ForkedChain, HashOrNil
<1> QED
  BY <1>1, <1>2

\* forkChain returns a chain.
LEMMA ForkOfType ==
    ASSUME NEW s \in Block, NEW sn \in Snippet, NEW c \in Block
    PROVE  ForkOf(s, sn, c) \in ForkedChain
  BY BlockFacts DEF ForkOf, ForkedChain, Snippet, HashOrNil, Height

\* insertSnippet returns a chain that refers where the old one did.
LEMMA ExtendedType ==
    ASSUME chains \in [Block -> ForkedChain],
           NEW c \in Block, NEW s \in Block, NEW sn \in Snippet
    PROVE  /\ Extended(c, s, sn) \in ForkedChain
           /\ Extended(c, s, sn).referChain = chains[c].referChain
<1> DEFINE m == [h \in Height |-> IF h > sn.tailHeight /\ h <= BlockHeight[s]
                                  THEN sn.heightBlocks[h]
                                  ELSE chains[c].heightBlocks[h]]
<1>1. chains[c] \in ForkedChain
  OBVIOUS
<1>2. m \in [Height -> HashOrNil]
  BY <1>1 DEF ForkedChain, Snippet
<1>3. Extended(c, s, sn) = [chains[c] EXCEPT !.headHeight = BlockHeight[s],
                                             !.headHash = s, !.heightBlocks = m]
  BY DEF Extended
<1>4. BlockHeight[s] \in Height
  BY BlockFacts DEF Height
<1> HIDE DEF m
<1> QED
  BY <1>1, <1>2, <1>3, <1>4 DEF ForkedChain

-----------------------------------------------------------------------------
(***************************************************************************)
(* findForkPoint                                                           *)
(***************************************************************************)
\* The last shared height lies between the snippet's tail and its head.
LEMMA SharedHeightRange ==
    ASSUME snippetChains \in [Block -> Snippet], NEW s \in Block,
           NEW c, NEW refer
    PROVE  /\ SharedHeight(s, c, refer) \in -1..MaxHeight
           /\ snippetChains[s].tailHeight < BlockHeight[s] =>
                /\ snippetChains[s].tailHeight <= SharedHeight(s, c, refer)
                /\ SharedHeight(s, c, refer) <= BlockHeight[s]
<1> DEFINE D == Differ(s, c, refer)
           lo == snippetChains[s].tailHeight
           hi == BlockHeight[s]
<1>1. /\ lo \in -1..MaxHeight /\ hi \in Int
      /\ 0 <= hi /\ hi <= MaxHeight /\ MaxHeight \in Nat
  BY BlockFacts DEF Snippet
<1>2. D \subseteq lo + 1 .. hi
  BY DEF Differ
<1>3. CASE TailFound(s, c, refer) /\ D # {}
  <2>1. Min(D) \in D
    <3>1. lo + 1 \in Int
      BY <1>1
    <3> HIDE DEF D, lo, hi
    <3> QED
      BY <1>1, <1>2, <1>3, <3>1, MinOfInterval
  <2>2. Min(D) \in lo + 1 .. hi
    BY <1>2, <2>1
  <2>3. SharedHeight(s, c, refer) = Min(D) - 1
    BY <1>3 DEF SharedHeight
  <2> HIDE DEF D, lo, hi
  <2>4. /\ Min(D) - 1 \in -1..MaxHeight
        /\ lo <= Min(D) - 1
        /\ Min(D) - 1 <= hi
    BY <1>1, <2>2
  <2> QED
    BY <2>3, <2>4 DEF lo, hi
<1>4. CASE ~TailFound(s, c, refer)
  BY <1>1, <1>4 DEF SharedHeight
<1>5. CASE TailFound(s, c, refer) /\ D = {}
  BY <1>1, <1>5 DEF SharedHeight
<1> QED
  BY <1>3, <1>4, <1>5

\* The snippet that findForkPoint leaves is a snippet.
LEMMA TrimmedType ==
    ASSUME snippetChains \in [Block -> Snippet], NEW s \in Block,
           NEW c, NEW refer
    PROVE  Trimmed(s, c, refer) \in Snippet
<1>1. snippetChains[s] \in Snippet
  OBVIOUS
<1> QED
  BY <1>1, SharedHeightRange, CutToSnippet DEF Trimmed

-----------------------------------------------------------------------------
(***************************************************************************)
(* The disk                                                                *)
(***************************************************************************)
\* Writing blocks leaves a disk chain.
LEMMA StoredType ==
    ASSUME diskChain \in DiskChain, NEW m \in [Height -> HashOrNil],
           NEW lo \in Nat, NEW hi \in -1..MaxHeight
    PROVE  Stored(m, lo, hi) \in DiskChain
<1>1. CASE hi < lo
  BY <1>1 DEF Stored
<1>2. CASE ~(hi < lo)
  <2>1. hi \in Height /\ lo..hi \subseteq Height
    BY <1>2, TreeAssumption DEF Height
  <2>2. {m[h] : h \in lo..hi} \subseteq HashOrNil
    BY <2>1
  <2> QED
    BY <1>2, <2>1, <2>2 DEF Stored, DiskChain
<1> QED
  BY <1>1, <1>2

\* Removing a block leaves a disk chain.
LEMMA RemovedType ==
    ASSUME diskChain \in DiskChain, NEW b \in Block
    PROVE  Removed(b) \in DiskChain
<1>1. PreHash[b] \in HashOrNil /\ Nil \in HashOrNil
  BY BlockFacts DEF HashOrNil
<1>2. [diskChain.byHeight EXCEPT ![BlockHeight[b]] = Nil] \in [Height -> HashOrNil]
  BY <1>1 DEF DiskChain
<1> QED
  BY <1>1, <1>2 DEF Removed, DiskChain

\* What the disk returns is a block or nil.
LEMMA DiskBlockType ==
    ASSUME diskChain \in DiskChain, NEW h
    PROVE  DiskBlock(h) \in HashOrNil
  BY DEF DiskBlock, DiskChain, HashOrNil
=============================================================================
