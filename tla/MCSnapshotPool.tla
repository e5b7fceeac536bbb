--------------------------- MODULE MCSnapshotPool ---------------------------
(***************************************************************************)
(* Block trees for model checking SnapshotPool.  A tree is a function from *)
(* its blocks to their predecessors; heights follow from it.  Where the    *)
(* genesis block is announced as well, a node that has it gets it again,   *)
(* the only block on disk that its pool has not seen.                      *)
(***************************************************************************)
EXTENDS SnapshotPool, TLC

CONSTANTS g, x1, x2, a1, a2, a3, b1, b2, b3, b4, c1, c2, c3

Heights(pre) == LET h[b \in DOMAIN pre] == IF pre[b] = Nil THEN 0 ELSE h[pre[b]] + 1
                IN  [b \in DOMAIN pre |-> h[b]]

\* Two branches from genesis.
TwoPre == g :> Nil @@ a1 :> g @@ b1 :> g @@ b2 :> b1 @@ b3 :> b2
TwoHeights == Heights(TwoPre)
TwoBlock == DOMAIN TwoPre
TwoAnnounced == TwoBlock \ {g}

\* Two branches above two shared blocks.
DeepPre == g :> Nil @@ x1 :> g @@ x2 :> x1 @@ a3 :> x2 @@ b3 :> x2 @@ b4 :> b3
DeepHeights == Heights(DeepPre)
DeepBlock == DOMAIN DeepPre
DeepAnnounced == DeepBlock \ {g}
DeepTips == {a3, b4}

\* Three branches from genesis.
ThreePre == g :> Nil @@ a1 :> g @@ b1 :> g @@ b2 :> b1
            @@ c1 :> g @@ c2 :> c1 @@ c3 :> c2
ThreeHeights == Heights(ThreePre)
ThreeBlock == DOMAIN ThreePre
ThreeAnnounced == ThreeBlock \ {g}

\* Three branches above one shared block.
StarPre == g :> Nil @@ x1 :> g @@ a2 :> x1 @@ b2 :> x1 @@ b3 :> b2
           @@ c2 :> x1 @@ c3 :> c2
StarHeights == Heights(StarPre)
StarBlock == DOMAIN StarPre
StarAnnounced == StarBlock \ {g}

\* Branches whose order by length may change while a fork is decided.
RacePre == g :> Nil @@ a1 :> g @@ a2 :> a1 @@ a3 :> a2 @@ b1 :> g @@ b2 :> b1
RaceHeights == Heights(RacePre)
RaceBlock == DOMAIN RacePre
RaceAnnounced == RaceBlock

\* The deep fork and one more branch from genesis.
DeepCPre == DeepPre @@ c1 :> g
DeepCHeights == Heights(DeepCPre)
DeepCBlock == DOMAIN DeepCPre
DeepCAnnounced == DeepCBlock \ {g}
=============================================================================
