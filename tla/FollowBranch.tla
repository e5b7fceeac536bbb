---------------------------- MODULE FollowBranch ----------------------------
(***************************************************************************)
(* What the snapshot pool promises to those who read the stored snapshot   *)
(* chain: the node follows one branch of the tree of blocks at a time.     *)
(* What is stored is the lower part of that branch.  To change to another  *)
(* branch the node first decides for it, because it is longer; then takes  *)
(* off exactly the blocks that are not on it, from above; and only then    *)
(* follows it.  Nothing is stored in between, and a change may be given up *)
(* before the first block or after the last, but not halfway.              *)
(*                                                                         *)
(* Snippets, forked chains and their references, locks and goroutines are  *)
(* left out: SnapshotPool is shown to implement this.                      *)
(***************************************************************************)
EXTENDS Integers

CONSTANTS Block, Genesis, PreHash, BlockHeight, Nil

VARIABLES
    stored,   \* the stored blocks
    branch,   \* the head of the branch that is followed
    target,   \* the head of the branch the node decided for, or Nil
    undone    \* the blocks that are not on it are being, or have been, taken off

vars == <<stored, branch, target, undone>>

\* A block and all the blocks below it.
Path[b \in Block] == IF PreHash[b] = Nil THEN {b} ELSE {b} \cup Path[PreHash[b]]

Init ==
    /\ stored = {Genesis} /\ branch = Genesis
    /\ target = Nil /\ undone = FALSE

\* Blocks of the branch are stored, from below.
Store ==
    /\ ~undone
    /\ \E b \in Path[branch] : stored' = Path[b] /\ stored \subseteq stored'
    /\ UNCHANGED <<branch, target, undone>>

\* Blocks arrive above the branch that is followed, or the one decided for.
Lengthen ==
    /\ branch' \in {b \in Block : branch \in Path[b]}
    /\ \/ target = Nil /\ target' = Nil
       \/ target # Nil /\ target' \in {b \in Block : target \in Path[b]}
    /\ UNCHANGED <<stored, undone>>

Decide ==
    /\ target = Nil
    /\ target' \in {b \in Block : BlockHeight[b] > BlockHeight[branch]}
    /\ UNCHANGED <<stored, branch, undone>>

Undo ==
    /\ target # Nil /\ ~undone
    /\ undone' = TRUE
    /\ UNCHANGED <<stored, branch, target>>

\* The highest block is taken off, if it is not on the branch decided for.
TakeOff ==
    /\ undone
    /\ \E b \in stored \ Path[target] :
          /\ \A c \in stored : PreHash[c] # b
          /\ stored' = stored \ {b}
    /\ UNCHANGED <<branch, target, undone>>

Change ==
    /\ undone /\ stored \subseteq Path[target]
    /\ branch' = target
    /\ target' = Nil /\ undone' = FALSE
    /\ UNCHANGED stored

GiveUp ==
    /\ target # Nil
    /\ undone => stored \subseteq Path[target]
    /\ target' = Nil /\ undone' = FALSE
    /\ UNCHANGED <<stored, branch>>

Next == Store \/ Lengthen \/ Decide \/ Undo \/ TakeOff \/ Change \/ GiveUp

Spec == Init /\ [][Next]_vars
=============================================================================
