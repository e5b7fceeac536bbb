------------------------------ MODULE FirstSync ------------------------------
(***************************************************************************)
(* The first synchronisation of a node (src/syncer/state.go): the goroutine*)
(* syncFirst looks for a peer, asks it for its head block, and reports     *)
(* DwlDone when the own chain has grown beyond it; after 50 s without a    *)
(* peer the node starts all the same.                                      *)
(***************************************************************************)
EXTENDS Integers

CONSTANTS
  Peer,        \* the peers the node may meet
  MaxHeight    \* the greatest height of a chain

ASSUME SyncAssumption == MaxHeight \in Nat

VARIABLES
  at,          \* where syncFirst is
  after,       \* where syncFirst goes on when firstSyncDone returns
  timedOut,    \* the timeout has fired
  taHeight,    \* firstTa.height
  taClosed,    \* firstTa.closed is closed
  done,        \* firstTa.done
  published,   \* DwlDone has been published
  peerHeight,  \* state.peers: the height each peer reported, NoPeer if absent
  head,        \* the height of the own snapshot chain
  top,         \* the greatest height of a chain in the network
  syncClosed   \* state.closed is closed

syncVars == <<at, after, timedOut, taHeight, taClosed, done, published,
              peerHeight, head, top, syncClosed>>

NoPeer == -1
Height == 0 .. MaxHeight

SyncInit ==
  /\ at = "net" /\ after = "end" /\ timedOut = FALSE
  /\ taHeight = 0 /\ taClosed = FALSE /\ done = FALSE /\ published = FALSE
  /\ peerHeight = [p \in Peer |-> NoPeer]
  /\ head = 0 /\ top \in Height
  /\ syncClosed = FALSE

task == <<taHeight, taClosed, done, published>>
world == <<peerHeight, head, top, syncClosed>>

-----------------------------------------------------------------------------
(* The peers, and the chain.                                               *)

\* peerConnected with the state of the handshake, and update: a peer reports
\* the height of its head.
PeerState(p) ==
  /\ \E h \in 0 .. top : h > peerHeight[p] /\ peerHeight' = [peerHeight EXCEPT ![p] = h]
  /\ UNCHANGED <<at, after, timedOut, task, head, top, syncClosed>>

\* peerClosed.
PeerGone(p) ==
  /\ peerHeight[p] # NoPeer
  /\ peerHeight' = [peerHeight EXCEPT ![p] = NoPeer]
  /\ UNCHANGED <<at, after, timedOut, task, head, top, syncClosed>>

\* A block another node has is fetched and inserted.
ChainGrows ==
  /\ head < top
  /\ head' = head + 1
  /\ UNCHANGED <<at, after, timedOut, task, peerHeight, top, syncClosed>>

\* Somebody else makes a block.
NetworkGrows ==
  /\ top < MaxHeight
  /\ top' = top + 1
  /\ UNCHANGED <<at, after, timedOut, task, peerHeight, head, syncClosed>>

-----------------------------------------------------------------------------
(* syncFirst.                                                              *)

\* firstSyncDone is called, and syncFirst will go on at a.
CallDone(a) ==
  /\ at' = "close" /\ after' = a

Waiting == {"net", "wait"}

\* Faulty: the timeout is only logged.
SyncTimeoutLogged ==
  /\ at = "net" /\ ~timedOut
  /\ timedOut' = TRUE
  /\ UNCHANGED <<at, after, task, world>>

\* The loop NET: 50 s are over.
SyncTimeout ==
  /\ at = "net" /\ ~timedOut
  /\ timedOut' = TRUE
  /\ CallDone("net")
  /\ UNCHANGED <<task, world>>

\* Faulty: a tick does not look whether there is a peer.
FindPeerNone ==
  /\ at = "net"
  /\ \E p \in Peer : taHeight' = peerHeight[p]
  /\ at' = "ask"
  /\ UNCHANGED <<after, timedOut, taClosed, done, published, world>>

\* bestPeer: Range stops at the first peer with any height at all.
BestPeer(h) == \E p \in Peer : peerHeight[p] # NoPeer /\ h = peerHeight[p]

\* The loop NET: a tick finds a peer.
FindPeer ==
  /\ at = "net"
  /\ \E h \in Height : BestPeer(h) /\ taHeight' = h
  /\ at' = "ask"
  /\ UNCHANGED <<after, timedOut, taClosed, done, published, world>>

\* The head is compared with the height of the peer, and its block requested.
AskPeer ==
  /\ at = "ask"
  /\ \/ head >= taHeight /\ CallDone("end")
     \/ head < taHeight /\ at' = "wait" /\ UNCHANGED after
  /\ UNCHANGED <<timedOut, task, world>>

\* Faulty: the loop goes on after firstSyncDone.
ReachedOn ==
  /\ at = "wait" /\ head > taHeight
  /\ CallDone("wait")
  /\ UNCHANGED <<timedOut, task, world>>

\* A tick of the second loop finds the chain beyond the height of the peer.
Reached ==
  /\ at = "wait" /\ head > taHeight
  /\ CallDone("end")
  /\ UNCHANGED <<timedOut, task, world>>

\* Either loop finds state.closed or firstTa.closed closed.
SyncReturns ==
  /\ at \in Waiting /\ (syncClosed \/ taClosed)
  /\ at' = "end"
  /\ UNCHANGED <<after, timedOut, task, world>>

\* Faulty: the event is published before the task is marked done.
DoneNextSwapped(a) ==
  CASE a = "close" -> "publish" [] a = "publish" -> "mark" [] a = "mark" -> after

\* The order of the steps of firstSyncDone.
DoneNext(a) ==
  CASE a = "close" -> "mark" [] a = "mark" -> "publish" [] a = "publish" -> after

\* firstTa.closed is closed; a second time this panics.
CloseTask ==
  /\ at = "close"
  /\ at' = IF taClosed THEN "panic" ELSE DoneNext("close")
  /\ taClosed' = TRUE
  /\ UNCHANGED <<after, timedOut, taHeight, done, published, world>>

\* The task is marked done.
MarkDone ==
  /\ at = "mark"
  /\ at' = DoneNext("mark")
  /\ done' = TRUE
  /\ UNCHANGED <<after, timedOut, taHeight, taClosed, published, world>>

\* DwlDone is published; Publish runs its handlers.
PublishDone ==
  /\ at = "publish"
  /\ at' = DoneNext("publish")
  /\ published' = TRUE
  /\ UNCHANGED <<after, timedOut, taHeight, taClosed, done, world>>

SyncStep ==
  \/ SyncTimeout \/ FindPeer \/ AskPeer \/ Reached \/ SyncReturns
  \/ CloseTask \/ MarkDone

SyncWorld ==
  \/ \E p \in Peer : PeerState(p) \/ PeerGone(p)
  \/ ChainGrows \/ NetworkGrows

=============================================================================
