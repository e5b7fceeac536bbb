------------------------------ MODULE PeerLink ------------------------------
(***************************************************************************)
(* The links between nodes (src/p2p): the dial loop, the handshake, the    *)
(* map of peers with one reader per peer, the write queue of a peer, Stop, *)
(* and the crash and restart of a node's process.  The boot node, which    *)
(* tells a node whom to dial, is in BootNode.                              *)
(*                                                                         *)
(* A link is one websocket connection between a dialer and a server; each  *)
(* of its two ends is a `peer' object of its node together with the        *)
(* goroutine that serves it.  What a message says is left out: one message *)
(* is like another here.                                                   *)
(***************************************************************************)
EXTENDS BootNode

CONSTANTS
  NetId,      \* the network each node is configured for
  QueueCap,   \* writeChCap
  Writers,    \* the nodes that write messages
  Stoppers,   \* the nodes that call Stop
  Crashers,   \* the nodes whose process may be killed
  MaxLinks,   \* how many connections are made
  MaxAgain    \* how many processes are started again after their end

ASSUME LinkAssumption ==
  /\ Writers \cup Stoppers \cup Crashers \subseteq Node
  /\ QueueCap \in Nat \ {0} /\ MaxAgain \in Nat /\ MaxLinks \in Nat
  /\ NetId \in [Node -> Nat]

VARIABLES
  status,   \* the life cycle of each node's p2p
  starts,   \* processes started again so far
  links,    \* connections made so far
  looping,  \* the goroutine p2p.loop of the node runs
  ends,     \* the nodes of each link: dialer and server
  end,      \* each end of each link: phase, closed, queue and arrived data
  peers,    \* p2p.peers
  seen,     \* state.peers of the syncer, kept by the events of loopRead
  pending,  \* the keys of p2p.pendingDials
  held      \* the peer a goroutine of the node took and is about to write to

vars == <<status, starts, links, looping, ends, end, peers, seen, pending,
          held>>
nodeVars == <<status, starts, links, looping>>

NoLink == 0
Link == 1 .. MaxLinks

Phase == {"gone", "shake", "added", "reading", "leaving",
          "deleting", "closing"}

\* PreInit, PostInit, PreStart and PostStart follow one another in Start;
\* "swept" and "closing" are the places in Stop, between PreStop and PostStop.
Status == {"dead", "up", "swept", "closing", "stopped"}

Gone == [phase |-> "gone", shut |-> FALSE, queue |-> 0, arrived |-> FALSE]
Fresh == [phase |-> "shake", shut |-> FALSE, queue |-> 0, arrived |-> TRUE]
Added == [phase |-> "added", shut |-> FALSE, queue |-> 0, arrived |-> FALSE]
NoEnds == [dialer |-> None, server |-> None]

Other(k, n) == IF ends[k].dialer = n THEN ends[k].server ELSE ends[k].dialer
Ends(k) == {ends[k].dialer, ends[k].server} \ {None}
Phased(k, n) == end[k][n].phase
OtherGone(k, n) == Phased(k, Other(k, n)) = "gone"
PeerClosed(k, n) == Phased(k, n) = "gone" \/ end[k][n].shut

\* The other end has closed the connection: it is gone, or the sweep of Stop
\* has closed it while its reader still runs.
OtherClosed(k, n) == PeerClosed(k, Other(k, n))

Init ==
  /\ status = [n \in Node |-> "up"] /\ starts = 0 /\ links = 0
  /\ looping = [n \in Node |-> TRUE]
  /\ ends = [k \in Link |-> NoEnds]
  /\ end = [k \in Link |-> [n \in Node |-> Gone]]
  /\ peers = [n \in Node |-> [m \in Node |-> NoLink]]
  /\ seen = [n \in Node |-> {}] /\ pending = [n \in Node |-> {}]
  /\ held = [n \in Node |-> NoLink]

-----------------------------------------------------------------------------
(* Starting a process.                                                     *)

\* Init and Start of a fresh p2p.
Start(n) ==
  /\ status[n] = "dead" /\ starts < MaxAgain
  /\ status' = [status EXCEPT ![n] = "up"]
  /\ starts' = starts + 1
  /\ looping' = [looping EXCEPT ![n] = TRUE]
  /\ UNCHANGED <<links, ends, end, peers, seen, pending, held>>

\* linker.loopRead passes an entry of the boot node's answer to addDial.  Which
\* nodes an answer names is left open: it may be out of date.
AddDial(n, m) ==
  /\ status[n] = "up" /\ links < MaxLinks
  /\ m # n /\ peers[n][m] = NoLink /\ m \notin pending[n]
  /\ pending' = [pending EXCEPT ![n] = @ \cup {m}]
  /\ UNCHANGED <<nodeVars, ends, end, peers, seen, held>>

-----------------------------------------------------------------------------
(* Dialing and the handshake.                                              *)

\* dial.connect runs inside p2p.loop, handshake included.
Dialing(n) ==
  \E k \in Link : ends[k].dialer = n /\ Phased(k, n) = "shake"

Accepting(m) == status[m] \in {"up", "swept"}

MayDial(n, m) ==
  /\ looping[n] /\ ~Dialing(n)
  /\ m \in pending[n] /\ peers[n][m] = NoLink

\* A round of p2p.loop that reaches the server of m.  Both ends write their
\* state and wait for the other's.
Dial(n, m) ==
  /\ MayDial(n, m) /\ Accepting(m) /\ links < MaxLinks
  /\ links' = links + 1
  /\ ends' = [ends EXCEPT ![links'] = [dialer |-> n, server |-> m]]
  /\ end' = [end EXCEPT ![links'][n] = Fresh, ![links'][m] = Fresh]
  /\ UNCHANGED <<status, starts, looping, peers, seen, pending, held>>

\* A round of p2p.loop that reaches nobody: the entry is dropped all the same.
DialFail(n, m) ==
  /\ MayDial(n, m) /\ ~Accepting(m)
  /\ pending' = [pending EXCEPT ![n] = @ \ {m}]
  /\ UNCHANGED <<nodeVars, ends, end, peers, seen, held>>

\* Faulty: the new peer takes the place of the old one.
AddPeerReplace(k, n, m) ==
  /\ peers' = [peers EXCEPT ![n][m] = k]
  /\ end' = [end EXCEPT ![k][n] = Added]

\* p2p.addPeer: a second link to the same peer is closed, the first one stays.
AddPeer(k, n, m) ==
  IF peers[n][m] # NoLink
  THEN end' = [end EXCEPT ![k][n] = Gone] /\ UNCHANGED peers
  ELSE /\ peers' = [peers EXCEPT ![n][m] = k]
       /\ end' = [end EXCEPT ![k][n] = Added]

\* connect returns to p2p.loop, which deletes the entry.
Dialed(k, n) ==
  pending' = IF ends[k].dialer = n
             THEN [pending EXCEPT ![n] = @ \ {Other(k, n)}] ELSE pending

\* The state of the other end is read and accepted.
HandshakeOk(k, n) ==
  /\ Phased(k, n) = "shake" /\ end[k][n].arrived
  /\ NetId[Other(k, n)] = NetId[n]
  /\ AddPeer(k, n, Other(k, n))
  /\ Dialed(k, n)
  /\ UNCHANGED <<nodeVars, ends, seen, held>>

\* The other end has closed, or belongs to another network.  The code leaves
\* the connection to the garbage collector and does not close it, so this end is
\* gone without a word to the other.  The other end does not need one: it has
\* closed already, or it reads a foreign network itself and fails alike.
HandshakeFail(k, n) ==
  /\ Phased(k, n) = "shake"
  /\ \/ OtherClosed(k, n)
     \/ end[k][n].arrived /\ NetId[Other(k, n)] # NetId[n]
  /\ end' = [end EXCEPT ![k][n] = Gone]
  /\ Dialed(k, n)
  /\ UNCHANGED <<nodeVars, ends, peers, seen, held>>

-----------------------------------------------------------------------------
(* The reader of a peer: loopRead.                                         *)

Closed(n) == status[n] \in {"closing", "stopped"}   \* p2p.closed is closed

\* Faulty: the reader does not look at p2p.closed.
OnwardsAlways(n) == "reading"

\* The reader is at the head of its loop.
Onwards(n) == IF Closed(n) THEN "leaving" ELSE "reading"

\* The goroutine starts and announces the peer.
PeerConnected(k, n) ==
  /\ Phased(k, n) = "added"
  /\ seen' = [seen EXCEPT ![n] = @ \cup {Other(k, n)}]
  /\ end' = [end EXCEPT ![k][n].phase = Onwards(n)]
  /\ UNCHANGED <<nodeVars, ends, peers, pending, held>>

\* ReadMessage returns a message, which is handled.
Read(k, n) ==
  /\ Phased(k, n) = "reading" /\ end[k][n].arrived
  /\ end' = [end EXCEPT ![k][n].arrived = FALSE, ![k][n].phase = Onwards(n)]
  /\ UNCHANGED <<nodeVars, ends, peers, seen, pending, held>>

\* Faulty: a connection closed by the sweep of Stop wakes neither reader; the
\* other end has to be gone.
ReadFailRemote(k, n) ==
  Phased(k, n) = "reading" /\ OtherGone(k, n)

\* Faulty: notices only its own connection being closed.
ReadFailOwn(k, n) ==
  Phased(k, n) = "reading" /\ end[k][n].shut

\* ReadMessage has an error: the connection was closed at either end.
ReadFail(k, n) ==
  Phased(k, n) = "reading" /\ (OtherClosed(k, n) \/ end[k][n].shut)

ReadError(k, n) ==
  /\ ReadFail(k, n)
  /\ end' = [end EXCEPT ![k][n].phase = "leaving", ![k][n].arrived = FALSE]
  /\ UNCHANGED <<nodeVars, ends, peers, seen, pending, held>>

\* Faulty: the deferred calls in the order in which they are written.
LeaveForward(k, n) ==
  \/ /\ Phased(k, n) = "leaving"
     /\ end' = [end EXCEPT ![k][n].phase = "deleting", ![k][n].shut = TRUE]
     /\ UNCHANGED <<peers, seen>>
  \/ /\ Phased(k, n) = "deleting"
     /\ peers' = [peers EXCEPT ![n][Other(k, n)] = NoLink]
     /\ end' = [end EXCEPT ![k][n].phase = "closing"]
     /\ UNCHANGED seen
  \/ /\ Phased(k, n) = "closing"
     /\ seen' = [seen EXCEPT ![n] = @ \ {Other(k, n)}]
     /\ end' = [end EXCEPT ![k][n] = Gone]
     /\ UNCHANGED peers

\* The deferred calls, one after the other: the peer is announced closed, its
\* identifier is deleted from the map, and the peer is closed.
Leave(k, n) ==
  \/ /\ Phased(k, n) = "leaving"
     /\ seen' = [seen EXCEPT ![n] = @ \ {Other(k, n)}]
     /\ end' = [end EXCEPT ![k][n].phase = "deleting"]
     /\ UNCHANGED peers
  \/ /\ Phased(k, n) = "deleting"
     /\ peers' = [peers EXCEPT ![n][Other(k, n)] = NoLink]
     /\ end' = [end EXCEPT ![k][n].phase = "closing"]
     /\ UNCHANGED seen
  \/ /\ Phased(k, n) = "closing"
     /\ end' = [end EXCEPT ![k][n] = Gone]
     /\ UNCHANGED <<peers, seen>>

LeaveStep(k, n) ==
  /\ Leave(k, n)
  /\ UNCHANGED <<nodeVars, ends, pending, held>>

-----------------------------------------------------------------------------
(* Writing to a peer.                                                      *)

\* BestPeer and AllPeer, without the mutex.
Take(n) ==
  /\ n \in Writers /\ held[n] = NoLink
  /\ status[n] \in {"up", "swept", "closing"}
  /\ \E m \in Node : peers[n][m] # NoLink /\ held' = [held EXCEPT ![n] = peers[n][m]]
  /\ UNCHANGED <<nodeVars, ends, end, peers, seen, pending>>

Dropped(n) == held' = [held EXCEPT ![n] = NoLink]

\* Write puts the message into the queue, or discards it if the queue is full.
\* What a closed queue still holds depends on how far loopWrite came.
Write(n) ==
  /\ \E k \in Link :
       /\ k = held[n]
       /\ \/ /\ ~PeerClosed(k, n) /\ end[k][n].queue < QueueCap
             /\ end' = [end EXCEPT ![k][n].queue = @ + 1]
          \/ /\ PeerClosed(k, n) \/ end[k][n].queue = QueueCap
             /\ UNCHANGED end
  /\ Dropped(n)
  /\ UNCHANGED <<nodeVars, ends, peers, seen, pending>>

\* Faulty: takes from the queue without looking whether it holds a message.
LoopWriteEmpty(k, n) ==
  /\ ~PeerClosed(k, n) /\ ~end[k][Other(k, n)].arrived
  /\ end' = [end EXCEPT ![k][n].queue = @ - 1,
                        ![k][Other(k, n)].arrived =
                           Phased(k, Other(k, n)) \in {"added", "reading"}]
  /\ UNCHANGED <<nodeVars, ends, peers, seen, pending, held>>

\* loopWrite sends a message, until the peer is closed.  An error of the
\* connection is ignored.
LoopWrite(k, n) ==
  /\ ~PeerClosed(k, n) /\ end[k][n].queue > 0 /\ ~end[k][Other(k, n)].arrived
  /\ end' = [end EXCEPT ![k][n].queue = @ - 1,
                        ![k][Other(k, n)].arrived =
                           Phased(k, Other(k, n)) \in {"added", "reading"}]
  /\ UNCHANGED <<nodeVars, ends, peers, seen, pending, held>>

-----------------------------------------------------------------------------
(* Stop, and the end of a process.                                         *)

\* PreStop, linker.stop, and every peer of the map is stopped.
Stop(n) ==
  /\ n \in Stoppers /\ status[n] = "up"
  /\ status' = [status EXCEPT ![n] = "swept"]
  /\ end' = [k \in Link |-> [m \in Node |->
       IF m = n /\ \E p \in Node : peers[n][p] = k
       THEN [end[k][m] EXCEPT !.shut = TRUE, !.queue = 0] ELSE end[k][m]]]
  /\ UNCHANGED <<starts, links, looping, ends, peers, seen, pending, held>>

\* The server no longer accepts, then p2p.closed is closed.
StopServer(n) ==
  /\ status[n] = "swept"
  /\ status' = [status EXCEPT ![n] = "closing"]
  /\ UNCHANGED <<starts, links, looping, ends, end, peers, seen, pending, held>>

\* p2p.loop finds p2p.closed closed.
LoopEnd(n) ==
  /\ Closed(n) /\ looping[n] /\ ~Dialing(n)
  /\ looping' = [looping EXCEPT ![n] = FALSE]
  /\ UNCHANGED <<status, starts, links, ends, end, peers, seen, pending, held>>

\* loopWg.Wait returns, PostStop.
Stopped(n) ==
  /\ status[n] = "closing" /\ ~looping[n]
  /\ \A k \in Link :
       Phased(k, n) \notin {"reading", "leaving", "deleting", "closing"}
  /\ status' = [status EXCEPT ![n] = "stopped"]
  /\ UNCHANGED <<starts, links, looping, ends, end, peers, seen, pending, held>>

\* The process of n ends and the system closes its connections.
Kill(n) ==
  /\ status' = [status EXCEPT ![n] = "dead"]
  /\ looping' = [looping EXCEPT ![n] = FALSE]
  /\ end' = [k \in Link |-> [end[k] EXCEPT ![n] = Gone]]
  /\ peers' = [peers EXCEPT ![n] = [m \in Node |-> NoLink]]
  /\ seen' = [seen EXCEPT ![n] = {}]
  /\ pending' = [pending EXCEPT ![n] = {}]
  /\ held' = [held EXCEPT ![n] = NoLink]
  /\ UNCHANGED <<starts, links, ends>>

\* The process is ended, before, during or after Stop.
Crash(n) == n \in Crashers /\ status[n] # "dead" /\ Kill(n)

\* Write sends on a closed channel: the process panics.
WritePanic(n) ==
  /\ \E k \in Link : /\ k = held[n] /\ PeerClosed(k, n)
                     /\ end[k][n].queue < QueueCap
  /\ Kill(n)

-----------------------------------------------------------------------------
EndStep(k, n) ==
  \/ HandshakeOk(k, n) \/ HandshakeFail(k, n)
  \/ PeerConnected(k, n) \/ Read(k, n) \/ ReadError(k, n) \/ LeaveStep(k, n)

Next ==
  \/ \E n \in Node :
       \/ Start(n) \/ Take(n) \/ Write(n) \/ WritePanic(n)
       \/ Stop(n) \/ StopServer(n) \/ LoopEnd(n) \/ Stopped(n) \/ Crash(n)
       \/ \E m \in Node : AddDial(n, m) \/ Dial(n, m) \/ DialFail(n, m)
       \/ \E k \in Link : n \in Ends(k) /\ (EndStep(k, n) \/ LoopWrite(k, n))

\* Every goroutine that can go on does so.  Nobody is obliged to dial, to
\* write, to stop or to crash.
Fairness ==
  /\ \A n \in Stoppers :
       WF_vars(StopServer(n) \/ Stopped(n)) /\ WF_vars(LoopEnd(n))
  /\ \A n \in Node, k \in Link : WF_vars(n \in Ends(k) /\ EndStep(k, n))

Spec == Init /\ [][Next]_vars /\ Fairness

-----------------------------------------------------------------------------
(* Properties.                                                             *)

End == [phase : Phase, shut : BOOLEAN, queue : 0 .. QueueCap, arrived : BOOLEAN]

PeerTypeOK ==
  /\ status \in [Node -> Status] /\ starts \in 0 .. MaxAgain
  /\ links \in 0 .. MaxLinks
  /\ looping \in [Node -> BOOLEAN]
  /\ ends \in [Link -> [dialer : Node \cup {None}, server : Node \cup {None}]]
  /\ end \in [Link -> [Node -> End]]
  /\ peers \in [Node -> [Node -> 0 .. MaxLinks]]
  /\ seen \in [Node -> SUBSET Node] /\ pending \in [Node -> SUBSET Node]
  /\ held \in [Node -> 0 .. MaxLinks]

\* The variables have their types.
LinksTypeOK == BootTypeOK /\ PeerTypeOK

Serving == {"added", "reading", "leaving", "deleting"}

\* The entries of p2p.peers and the readers that have not yet deleted their
\* entry are the same: delete(self.peers, peer.peerId) names an identifier and
\* not a link, and yet no reader ever deletes the entry of another link, and no
\* link is read without being listed.
PeersRead ==
  \A n \in Node, m \in Node, k \in Link :
    peers[n][m] = k <=> /\ n \in Ends(k) /\ m = Other(k, n) /\ n # m
                        /\ Phased(k, n) \in Serving

\* The syncer's view, which the readers keep with PeerConnected and PeerClosed
\* and which names peers by identifier only, never holds a peer that the map
\* has dropped: the announcements of two links to one peer do not cross.
SeenArePeers ==
  \A n \in Node : \A m \in seen[n] : peers[n][m] # NoLink

\* Until Stop, a peer found in the map is open, whoever closes links at the
\* other side: a Write can meet a closed queue only if the peer was taken before
\* its reader deleted it.
ListedOpen ==
  \A n \in Node, m \in Node :
    status[n] = "up" /\ peers[n][m] # NoLink => ~PeerClosed(peers[n][m], n)

HalfOpen(k) ==
  \E n \in Ends(k) : Phased(k, n) # "gone" /\ OtherGone(k, n)

\* No link stays half open: when one end is gone, by a crash, by Stop or as the
\* second of two links between the same peers, the other end goes too.
NoHalfOpen == \A k \in Link : HalfOpen(k) ~> ~HalfOpen(k)

\* A reader that Stop did not reach: its link was added after the sweep.
Late(n) ==
  \E k \in Link : Phased(k, n) = "reading" /\ ~end[k][n].shut

\* Stop ends, or waits for a reader of a link that was added between the sweep
\* over the peers and the closing of p2p.closed.
StopEnds ==
  \A n \in Stoppers :
    (status[n] = "swept") ~> (status[n] \in {"stopped", "dead"} \/ Late(n))

\* A stopped node is left alone: links that the server or the dial loop were
\* still shaking hands on are added after Stop has returned, and dropped again.
StoppedAlone ==
  \A n \in Stoppers :
    (status[n] = "stopped") ~>
      (status[n] = "dead" \/ \A m \in Node : peers[n][m] = NoLink)

=============================================================================
