--------------------------- MODULE PeerLinkProofs ---------------------------
(***************************************************************************)
(* Proofs about BootNode, for any number of nodes and of connections;      *)
(* about PeerLink, for any number of nodes, links, restarts and any        *)
(* capacity of the write queues; and about PeerLink beside BootNode.       *)
(***************************************************************************)
EXTENDS PeerLink, TLAPS

BootSpec == BootInit /\ [][BootNext]_bootVars

\* A connection that was made belongs to a node.
Owned == \A i \in Conn : conn[i].at # "none" => conn[i].node \in Node

BootInv == BootTypeOK /\ Owned /\ BootListed

LEMMA BootInitInv == BootInit => BootInv
<1> SUFFICES ASSUME BootInit PROVE BootInv
  OBVIOUS
<1>1. NoConn \in ConnType
  BY DEF NoConn, ConnType, Id
<1>2. BootTypeOK
  BY <1>1, BootAssumption DEF BootInit, BootTypeOK
<1> QED
  BY <1>2 DEF BootInit, BootInv, Owned, BootListed, NoConn, Conn

\* A linker that starts takes a connection nobody has used.
LEMMA LinkerStartInv ==
  ASSUME BootInv, NEW n \in Node, LinkerStart(n)
  PROVE  BootInv'
<1>1. PICK i \in Conn :
        /\ conn[i] = NoConn
        /\ conn' = [conn EXCEPT ![i] = [node |-> n, at |-> "sent", open |-> TRUE, id |-> n]]
        /\ linked' = [linked EXCEPT ![n] = i]
  BY DEF LinkerStart
<1>2. UNCHANGED <<bootUp, listed>>
  BY DEF LinkerStart
<1>3. [node |-> n, at |-> "sent", open |-> TRUE, id |-> n] \in ConnType
  BY DEF ConnType, Id
<1>4. BootTypeOK'
  BY <1>1, <1>2, <1>3 DEF BootInv, BootTypeOK, Conn
<1>5. Owned'
  BY <1>1 DEF BootInv, Owned, BootTypeOK
<1>6. BootListed'
  BY <1>1, <1>2 DEF BootInv, BootListed, BootTypeOK, NoConn
<1> QED
  BY <1>4, <1>5, <1>6 DEF BootInv

\* Closing a connection at the node's side changes no entry.
LEMMA LinkerStopInv ==
  ASSUME BootInv, NEW n \in Node, LinkerStop(n)
  PROVE  BootInv'
<1>1. linked[n] \in Conn
  BY DEF LinkerStop, BootInv, BootTypeOK, Conn
<1>2. \A c \in ConnType : [c EXCEPT !.open = FALSE] \in ConnType
  BY DEF ConnType
<1>3. BootTypeOK'
  BY <1>1, <1>2, BootAssumption DEF LinkerStop, BootInv, BootTypeOK
<1>4. \A i \in Conn : /\ conn'[i].at = conn[i].at /\ conn'[i].id = conn[i].id
                      /\ conn'[i].node = conn[i].node
                      /\ conn'[i].open => conn[i].open
  BY <1>1 DEF LinkerStop, BootInv, BootTypeOK, ConnType
<1>5. listed' = listed
  BY DEF LinkerStop
<1> QED
  BY <1>3, <1>4, <1>5 DEF BootInv, Owned, BootListed

\* A registration takes the place of the connection listed before, which is
\* closed.
LEMMA BootWsInv ==
  ASSUME BootInv, NEW i \in Conn, BootWs(i)
  PROVE  BootInv'
<1>1. PICK id \in {conn[i].node} \cup {NoId} : AddBootPeer(i, id)
  BY DEF BootWs
<1>2. id \in Id /\ conn[i].at = "sent" /\ UNCHANGED <<bootUp, linked>>
  BY <1>1 DEF BootWs, Id, BootInv, Owned
<1>3. \A j \in Conn : listed[id] = j => j # i
  BY <1>2 DEF BootInv, BootListed
<1>4. /\ conn'[i] = [conn[i] EXCEPT !.at = "read", !.id = id]
      /\ \A j \in Conn \ {i} :
           conn'[j] = IF j = listed[id] THEN [conn[j] EXCEPT !.open = FALSE] ELSE conn[j]
      /\ listed' = [listed EXCEPT ![id] = i]
  BY <1>1 DEF AddBootPeer
<1>5. BootTypeOK'
  <2>1. \A c \in ConnType : /\ [c EXCEPT !.open = FALSE] \in ConnType
                            /\ [c EXCEPT !.at = "read", !.id = id] \in ConnType
    BY <1>2 DEF ConnType
  <2>2. conn' \in [Conn -> ConnType]
    BY <1>1, <2>1 DEF AddBootPeer, BootInv, BootTypeOK
  <2>3. i \in 0 .. MaxStarts
    BY BootAssumption DEF Conn
  <2>4. listed' \in [Id -> 0 .. MaxStarts]
    BY <1>4, <2>3 DEF BootInv, BootTypeOK
  <2> QED
    BY <1>2, <2>2, <2>4 DEF BootInv, BootTypeOK
<1>6. conn'[i].at = "read" /\ conn'[i].id = id /\ conn'[i].node = conn[i].node
  BY <1>4 DEF BootInv, BootTypeOK, ConnType
<1>7. \A j \in Conn \ {i} :
        /\ conn'[j].at = conn[j].at /\ conn'[j].id = conn[j].id
        /\ conn'[j].node = conn[j].node
        /\ conn'[j].open => conn[j].open /\ j # listed[id]
  <2> SUFFICES ASSUME NEW j \in Conn \ {i}
               PROVE  /\ conn'[j].at = conn[j].at /\ conn'[j].id = conn[j].id
                      /\ conn'[j].node = conn[j].node
                      /\ conn'[j].open => conn[j].open /\ j # listed[id]
    OBVIOUS
  <2>1. conn[j] \in ConnType
    BY DEF BootInv, BootTypeOK
  <2>2. CASE j = listed[id]
    <3>1. conn'[j] = [conn[j] EXCEPT !.open = FALSE]
      BY <1>4, <2>2
    <3> QED
      BY <2>1, <3>1 DEF ConnType
  <2>3. CASE j # listed[id]
    BY <1>4, <2>3
  <2> QED
    BY <2>2, <2>3
<1>8. Owned'
  BY <1>2, <1>6, <1>7 DEF BootInv, Owned
<1>9. BootListed'
  <2>1. listed'[id] = i /\ \A d \in Id \ {id} : listed'[d] = listed[d]
    BY <1>2, <1>4 DEF BootInv, BootTypeOK
  <2>2. ASSUME NEW j \in Conn, conn'[j].at = "read", conn'[j].open
        PROVE  listed'[conn'[j].id] = j
    <3>1. CASE j = i
      BY <1>6, <2>1, <3>1
    <3>2. CASE j # i
      <4>1. listed[conn[j].id] = j /\ conn[j].id \in Id /\ j # listed[id]
        BY <1>7, <2>2, <3>2 DEF BootInv, BootListed, BootTypeOK, ConnType
      <4> QED
        BY <1>7, <2>1, <3>2, <4>1
    <3> QED
      BY <3>1, <3>2
  <2>3. ASSUME NEW j \in Conn, NEW d \in Id, listed'[d] = j
        PROVE  conn'[j].at = "read" /\ conn'[j].id = d
    <3>1. CASE d = id
      BY <1>6, <2>1, <2>3, <3>1
    <3>2. CASE d # id
      <4>1. listed[d] = j
        BY <2>1, <2>3, <3>2
      <4>2. conn[j].at = "read" /\ conn[j].id = d
        BY <4>1 DEF BootInv, BootListed
      <4>3. j # i
        BY <1>2, <4>2
      <4> QED
        BY <1>7, <4>2, <4>3
    <3> QED
      BY <3>1, <3>2
  <2> QED
    BY <2>2, <2>3 DEF BootListed
<1> QED
  BY <1>5, <1>8, <1>9 DEF BootInv

\* A reader that ends removes its own entry or none.
LEMMA BootLeaveInv ==
  ASSUME BootInv, NEW i \in Conn, BootLeave(i)
  PROVE  BootInv'
<1>1. conn[i].at = "read" /\ conn[i].id \in Id /\ UNCHANGED <<bootUp, linked>>
  BY DEF BootLeave, BootInv, BootTypeOK, ConnType
<1>2. /\ conn'[i].at = "end" /\ conn'[i].id = conn[i].id /\ conn'[i].node = conn[i].node
      /\ \A j \in Conn \ {i} : conn'[j] = conn[j]
  BY DEF BootLeave, RemovePeer, BootInv, BootTypeOK, ConnType
<1>3. listed' = IF listed[conn[i].id] = i THEN [listed EXCEPT ![conn[i].id] = 0] ELSE listed
  BY DEF BootLeave, RemovePeer
<1>4. BootTypeOK'
  <2>1. \A c \in ConnType : /\ [c EXCEPT !.at = "end", !.open = FALSE] \in ConnType
                            /\ [c EXCEPT !.at = "end"] \in ConnType
    BY DEF ConnType
  <2>2. \/ conn' = [conn EXCEPT ![i].at = "end", ![i].open = FALSE]
        \/ conn' = [conn EXCEPT ![i].at = "end"]
    BY DEF BootLeave, RemovePeer
  <2>3. conn' \in [Conn -> ConnType]
    <3>1. conn[i] \in ConnType /\ conn \in [Conn -> ConnType]
      BY DEF BootInv, BootTypeOK
    <3>2. CASE conn' = [conn EXCEPT ![i].at = "end"]
      BY <2>1, <3>1, <3>2
    <3>3. CASE conn' = [conn EXCEPT ![i].at = "end", ![i].open = FALSE]
      <4>1. conn' = [conn EXCEPT ![i] = [conn[i] EXCEPT !.at = "end", !.open = FALSE]]
        BY <3>1, <3>3
      <4> QED
        BY <2>1, <3>1, <4>1
    <3> QED
      BY <2>2, <3>2, <3>3
  <2>4. listed' \in [Id -> 0 .. MaxStarts]
    <3>1. 0 \in 0 .. MaxStarts
      BY BootAssumption
    <3>2. [listed EXCEPT ![conn[i].id] = 0] \in [Id -> 0 .. MaxStarts]
      BY <3>1 DEF BootInv, BootTypeOK
    <3> QED
      BY <1>3, <3>2 DEF BootInv, BootTypeOK
  <2> QED
    BY <1>1, <2>3, <2>4 DEF BootInv, BootTypeOK
<1>5. Owned'
  BY <1>1, <1>2 DEF BootInv, Owned
<1>6. BootListed'
  BY <1>1, <1>2, <1>3 DEF BootInv, BootListed, BootTypeOK, Conn
<1> QED
  BY <1>4, <1>5, <1>6 DEF BootInv

LEMMA BootStopInv == BootInv /\ BootStop => BootInv'
<1> SUFFICES ASSUME BootInv, BootStop PROVE BootInv'
  OBVIOUS
<1>1. \A c \in ConnType : [c EXCEPT !.open = FALSE] \in ConnType
  BY DEF ConnType
<1>2. conn' \in [Conn -> ConnType]
  BY <1>1 DEF BootStop, BootInv, BootTypeOK
<1>3. BootTypeOK'
  BY <1>2 DEF BootStop, BootInv, BootTypeOK
<1>4. \A i \in Conn : /\ conn'[i].at = conn[i].at /\ conn'[i].id = conn[i].id
                      /\ conn'[i].node = conn[i].node
                      /\ conn'[i].open => conn[i].open
  BY DEF BootStop, BootInv, BootTypeOK, ConnType
<1>5. listed' = listed
  BY DEF BootStop
<1> QED
  BY <1>3, <1>4, <1>5 DEF BootInv, Owned, BootListed

\* For any number of nodes that come and go and connections that break, the
\* boot node lists exactly the connections it reads and has not closed: the
\* late end of an old connection never removes the entry of the new one.
THEOREM BootListedCorrect == BootSpec => [](BootTypeOK /\ BootListed)
<1>1. BootInv /\ [BootNext]_bootVars => BootInv'
  <2> SUFFICES ASSUME BootInv, [BootNext]_bootVars PROVE BootInv'
    OBVIOUS
  <2>1. CASE UNCHANGED bootVars
    BY <2>1 DEF bootVars, BootInv, BootTypeOK, Owned, BootListed
  <2> QED
    BY <2>1, LinkerStartInv, LinkerStopInv, BootWsInv, BootLeaveInv, BootStopInv
       DEF BootNext
<1>2. BootInv => BootTypeOK /\ BootListed
  BY DEF BootInv
<1> QED
  BY BootInitInv, <1>1, <1>2, PTL DEF BootSpec

-----------------------------------------------------------------------------

LinkSpec == Init /\ [][Next]_vars

\* Both together.  A step may be one of either or of both.
LinksSpec == LinkSpec /\ BootSpec

(***************************************************************************)
(* The inductive invariant.                                                *)
(***************************************************************************)

\* Links are numbered as they are made, between two different nodes, and only
\* those have an end of it.
Made ==
  /\ \A k \in Link : k > links => ends[k] = NoEnds
  /\ \A k \in Link : k <= links =>
       /\ ends[k].dialer \in Node /\ ends[k].server \in Node
       /\ ends[k].dialer # ends[k].server
  /\ \A k \in Link, n \in Node : n \notin Ends(k) => Phased(k, n) = "gone"
  /\ \A n \in Node : n \notin pending[n]

\* A process that ended has left nothing behind, so that the next one of the
\* same node starts afresh.
DeadGone ==
  \A n \in Node : status[n] = "dead" =>
    /\ ~looping[n]
    /\ \A k \in Link : Phased(k, n) = "gone" /\ ~end[k][n].shut

\* Only Stop closes a peer that is still being read.
ShutStopped == \A n \in Node, k \in Link : end[k][n].shut => status[n] # "up"

\* A peer is announced to the syncer by the reader of the link in the map, and
\* announced closed before that reader deletes the entry.
SeenRead ==
  \A n \in Node : \A m \in seen[n] :
    peers[n][m] # NoLink /\ Phased(peers[n][m], n) \in {"reading", "leaving"}

PeerInv == PeerTypeOK /\ Made /\ DeadGone /\ ShutStopped /\ PeersRead /\ SeenRead

-----------------------------------------------------------------------------
(***************************************************************************)
(* Lemmas about single ends of links.                                      *)
(***************************************************************************)
LEMMA Naturals == MaxLinks \in Nat /\ QueueCap \in Nat /\ MaxAgain \in Nat /\ 0 \notin Link
  BY LinkAssumption DEF Link

\* The ends a step writes have the type of ends.
LEMMA EndTypes ==
  /\ Gone \in End /\ Gone.phase = "gone" /\ ~Gone.shut
  /\ Fresh \in End /\ Fresh.phase = "shake" /\ ~Fresh.shut
  /\ Added \in End /\ Added.phase = "added" /\ ~Added.shut
  BY Naturals DEF Gone, Fresh, Added, End, Phase

\* The fields of an end, and an end with one of them replaced.
LEMMA EndFields ==
  ASSUME NEW e \in End
  PROVE  /\ e.phase \in Phase /\ e.queue \in 0 .. QueueCap
         /\ \A p \in Phase : LET f == [e EXCEPT !.phase = p]
                             IN  f \in End /\ f.phase = p /\ f.shut = e.shut
         /\ \A q \in 0 .. QueueCap : LET f == [e EXCEPT !.queue = q]
                                    IN  f \in End /\ f.phase = e.phase /\ f.shut = e.shut
         /\ \A a \in BOOLEAN : LET f == [e EXCEPT !.arrived = a]
                               IN  f \in End /\ f.phase = e.phase /\ f.shut = e.shut
<1>1. ASSUME NEW p \in Phase PROVE LET f == [e EXCEPT !.phase = p]
                                  IN  f \in End /\ f.phase = p /\ f.shut = e.shut
  BY DEF End
<1>2. ASSUME NEW q \in 0 .. QueueCap
      PROVE  LET f == [e EXCEPT !.queue = q]
             IN  f \in End /\ f.phase = e.phase /\ f.shut = e.shut
  BY DEF End
<1>3. ASSUME NEW a \in BOOLEAN PROVE LET f == [e EXCEPT !.arrived = a]
                                    IN  f \in End /\ f.phase = e.phase /\ f.shut = e.shut
  BY DEF End
<1>4. e.phase \in Phase /\ e.queue \in 0 .. QueueCap
  BY DEF End
<1> QED
  BY <1>1, <1>2, <1>3, <1>4

\* The two ends of a link that was made.
LEMMA TwoEnds ==
  ASSUME PeerTypeOK, Made, NEW k \in Link, NEW n \in Node, n \in Ends(k)
  PROVE  /\ Other(k, n) \in Node /\ Other(k, n) # n
         /\ k <= links
  BY BootAssumption DEF PeerTypeOK, Made, Ends, Other, NoEnds, Link

\* A step that replaces one end of one link.
LEMMA OneEnd ==
  ASSUME NEW k \in Link, NEW n \in Node, NEW e \in End, PeerTypeOK,
         end' = [end EXCEPT ![k][n] = e]
  PROVE  /\ end' \in [Link -> [Node -> End]]
         /\ end'[k][n] = e
         /\ \A j \in Link, m \in Node : j # k \/ m # n => end'[j][m] = end[j][m]
  BY DEF PeerTypeOK

(***************************************************************************)
(* A step that leaves links, maps, phases and closed connections as they   *)
(* are, and starts and ends no process, keeps all of the invariant but the *)
(* types.                                                                  *)
(***************************************************************************)
LEMMA Calm ==
  ASSUME PeerInv, PeerTypeOK', UNCHANGED <<links, ends, peers, seen>>,
         \A n \in Node : /\ status'[n] = "dead" <=> status[n] = "dead"
                         /\ status'[n] = "up" => status[n] = "up"
                         /\ looping'[n] => looping[n],
         \A n \in Node : n \notin pending'[n],
         \A k \in Link, n \in Node : /\ end'[k][n].phase = end[k][n].phase
                                     /\ end'[k][n].shut = end[k][n].shut
  PROVE  PeerInv'
<1>1. Made'
  BY DEF PeerInv, Made, Ends, Phased
<1>2. DeadGone' /\ ShutStopped'
  BY DEF PeerInv, DeadGone, ShutStopped, Phased
<1>3. PeersRead'
  BY DEF PeerInv, PeersRead, Ends, Other, Phased
<1>4. SeenRead'
  <2> SUFFICES ASSUME NEW n \in Node, NEW m \in seen[n]
               PROVE  peers'[n][m] # NoLink /\ end'[peers'[n][m]][n].phase \in {"reading", "leaving"}
    BY DEF SeenRead, Phased
  <2>1. m \in Node /\ peers[n][m] \in 0 .. MaxLinks /\ peers[n][m] # NoLink
    BY DEF PeerInv, PeerTypeOK, SeenRead
  <2>2. peers[n][m] \in Link
    BY <2>1, Naturals DEF Link, NoLink
  <2> QED
    BY <2>1, <2>2 DEF PeerInv, SeenRead, Phased
<1> QED
  BY <1>1, <1>2, <1>3, <1>4 DEF PeerInv

\* A step of the goroutine that serves one end leaves the other ends alone.
LEMMA Moved ==
  ASSUME PeerInv, NEW k \in Link, NEW n \in Node, NEW e \in End,
         Phased(k, n) # "gone",
         end' = [end EXCEPT ![k][n] = e], e.shut => end[k][n].shut,
         UNCHANGED <<nodeVars, ends>>, \A m \in Node : m \notin pending'[m]
  PROVE  /\ n \in Ends(k) /\ Other(k, n) \in Node /\ Other(k, n) # n
         /\ Made' /\ DeadGone' /\ ShutStopped'
<1>1. n \in Ends(k)
  BY DEF PeerInv, Made
<1>2. /\ end'[k][n] = e
      /\ \A j \in Link, m \in Node : j # k \/ m # n => end'[j][m] = end[j][m]
  <2>1. PeerTypeOK
    BY DEF PeerInv
  <2> QED
    BY <2>1 DEF PeerTypeOK
<1>3. Made'
  BY <1>1, <1>2 DEF PeerInv, Made, Ends, Phased, nodeVars
<1>4. DeadGone'
  <2>1. status[n] # "dead"
    BY DEF PeerInv, DeadGone
  <2> QED
    BY <1>2, <2>1 DEF PeerInv, DeadGone, Phased, nodeVars
<1>5. ShutStopped'
  BY <1>2 DEF PeerInv, ShutStopped, nodeVars
<1> QED
  BY <1>1, <1>3, <1>4, <1>5, TwoEnds DEF PeerInv

\* An end that stays served keeps its entry, and no other end gains one.
LEMMA StaysServed ==
  ASSUME PeerInv, NEW k \in Link, NEW n \in Node, NEW e \in End,
         end' = [end EXCEPT ![k][n] = e], UNCHANGED <<ends, peers>>,
         Phased(k, n) \in Serving <=> e.phase \in Serving
  PROVE  PeersRead'
<1>1. /\ end'[k][n] = e
      /\ \A j \in Link, m \in Node : j # k \/ m # n => end'[j][m] = end[j][m]
  <2>1. end \in [Link -> [Node -> End]]
    BY DEF PeerInv, PeerTypeOK
  <2> QED
    BY <2>1
<1>2. \A j \in Link, m \in Node : Phased(j, m)' \in Serving <=> Phased(j, m) \in Serving
  BY <1>1 DEF Phased
<1> QED
  BY <1>2 DEF PeerInv, PeersRead, Ends, Other

\* What the syncer has seen is not touched by another end.
LEMMA StaysSeen ==
  ASSUME PeerInv, NEW k \in Link, NEW n \in Node, NEW e \in End,
         end' = [end EXCEPT ![k][n] = e], UNCHANGED <<peers, seen>>,
         Phased(k, n) \in {"reading", "leaving"} => e.phase \in {"reading", "leaving"}
  PROVE  SeenRead'
<1>1. /\ end'[k][n] = e
      /\ \A j \in Link, m \in Node : j # k \/ m # n => end'[j][m] = end[j][m]
  <2>1. end \in [Link -> [Node -> End]]
    BY DEF PeerInv, PeerTypeOK
  <2> QED
    BY <2>1
<1> SUFFICES ASSUME NEW i \in Node, NEW m \in seen[i]
             PROVE  peers'[i][m] # NoLink /\ end'[peers'[i][m]][i].phase \in {"reading", "leaving"}
  BY DEF SeenRead, Phased
<1>2. m \in Node /\ peers[i][m] \in 0 .. MaxLinks /\ peers[i][m] # NoLink
  BY DEF PeerInv, PeerTypeOK, SeenRead
<1>3. peers[i][m] \in Link
  BY <1>2, Naturals DEF Link, NoLink
<1>4. end[peers[i][m]][i].phase \in {"reading", "leaving"}
  BY DEF PeerInv, SeenRead, Phased
<1> QED
  BY <1>1, <1>2, <1>3, <1>4 DEF Phased

-----------------------------------------------------------------------------
(***************************************************************************)
(* One lemma per group of actions.                                         *)
(***************************************************************************)
LEMMA LinkInit == Init => PeerInv
<1> SUFFICES ASSUME Init PROVE PeerInv
  OBVIOUS
<1>1. PeerTypeOK
  BY EndTypes, Naturals DEF Init, PeerTypeOK, NoLink, NoEnds, Status
<1>2. \A k \in Link, n \in Node : Phased(k, n) = "gone" /\ ~end[k][n].shut
  BY EndTypes DEF Init, Phased
<1>3. Made
  BY <1>2, Naturals DEF Init, Made, Link
<1>4. DeadGone /\ ShutStopped
  BY <1>2 DEF Init, DeadGone, ShutStopped
<1>5. PeersRead
  BY <1>2, Naturals DEF Init, PeersRead, Serving, NoLink
<1>6. SeenRead
  BY DEF Init, SeenRead
<1> QED
  BY <1>1, <1>3, <1>4, <1>5, <1>6 DEF PeerInv

\* Taking up dials, writing and the last steps of Stop.
LEMMA CalmSteps ==
  ASSUME PeerInv, NEW n \in Node
  PROVE  /\ \A m \in Node : AddDial(n, m) \/ DialFail(n, m) => PeerInv'
         /\ Take(n) \/ StopServer(n) \/ LoopEnd(n) \/ Stopped(n) => PeerInv'
<1> USE DEF nodeVars
<1>1. PeerTypeOK /\ \A m \in Node : m \notin pending[m]
  BY DEF PeerInv, Made
<1>2. ASSUME NEW m \in Node, AddDial(n, m) PROVE PeerInv'
  <2>1. PeerTypeOK'
    BY <1>1, <1>2 DEF AddDial, PeerTypeOK
  <2>2. \A i \in Node : i \notin pending'[i]
    BY <1>1, <1>2 DEF AddDial, PeerTypeOK
  <2> QED
    BY <1>2, <2>1, <2>2, Calm DEF AddDial
<1>3. ASSUME NEW m \in Node, DialFail(n, m) PROVE PeerInv'
  <2>1. PeerTypeOK'
    BY <1>1, <1>3 DEF DialFail, PeerTypeOK
  <2>2. \A i \in Node : i \notin pending'[i]
    BY <1>1, <1>3 DEF DialFail, PeerTypeOK
  <2> QED
    BY <1>3, <2>1, <2>2, Calm DEF DialFail
<1>4. CASE Take(n)
  <2>1. PeerTypeOK'
    BY <1>1, <1>4 DEF Take, PeerTypeOK
  <2> QED
    BY <1>1, <1>4, <2>1, Calm DEF Take
<1>5. CASE StopServer(n)
  <2>1. PeerTypeOK'
    BY <1>1, <1>5 DEF StopServer, PeerTypeOK, Status
  <2>2. \A i \in Node : /\ status'[i] = "dead" <=> status[i] = "dead"
                        /\ status'[i] = "up" => status[i] = "up"
    BY <1>1, <1>5 DEF StopServer, PeerTypeOK
  <2> QED
    BY <1>1, <1>5, <2>1, <2>2, Calm DEF StopServer
<1>6. CASE LoopEnd(n)
  <2>1. PeerTypeOK'
    BY <1>1, <1>6 DEF LoopEnd, PeerTypeOK
  <2>2. \A i \in Node : looping'[i] => looping[i]
    BY <1>1, <1>6 DEF LoopEnd, PeerTypeOK
  <2> QED
    BY <1>1, <1>6, <2>1, <2>2, Calm DEF LoopEnd
<1>7. CASE Stopped(n)
  <2>1. PeerTypeOK'
    BY <1>1, <1>7 DEF Stopped, PeerTypeOK, Status
  <2>2. \A i \in Node : /\ status'[i] = "dead" <=> status[i] = "dead"
                        /\ status'[i] = "up" => status[i] = "up"
    BY <1>1, <1>7 DEF Stopped, PeerTypeOK
  <2> QED
    BY <1>1, <1>7, <2>1, <2>2, Calm DEF Stopped
<1> QED
  BY <1>2, <1>3, <1>4, <1>5, <1>6, <1>7

\* Messages go into a queue and out of it.
LEMMA WriteSteps ==
  ASSUME PeerInv, NEW n \in Node
  PROVE  /\ Write(n) => PeerInv'
         /\ \A k \in Link : n \in Ends(k) /\ LoopWrite(k, n) => PeerInv'
<1> USE DEF nodeVars
<1>1. PeerTypeOK /\ Made /\ \A m \in Node : m \notin pending[m]
  BY DEF PeerInv, Made
<1>2. CASE Write(n)
  <2>1. PICK k \in Link :
          \/ end[k][n].queue < QueueCap /\ end' = [end EXCEPT ![k][n].queue = @ + 1]
          \/ UNCHANGED end
    BY <1>2 DEF Write
  <2>2. UNCHANGED <<nodeVars, ends, peers, seen, pending>> /\ held' = [held EXCEPT ![n] = NoLink]
    BY <1>2 DEF Write, Dropped
  <2>3. CASE UNCHANGED end
    <3>1. PeerTypeOK'
      BY <1>1, <2>2, <2>3, Naturals DEF PeerTypeOK, NoLink
    <3> QED
      BY <1>1, <2>2, <2>3, <3>1, Calm
  <2>4. CASE end[k][n].queue < QueueCap /\ end' = [end EXCEPT ![k][n].queue = @ + 1]
    <3> DEFINE e == [end[k][n] EXCEPT !.queue = @ + 1]
    <3>1. e \in End /\ e.phase = end[k][n].phase /\ e.shut = end[k][n].shut
      <4>1. end[k][n] \in End
        BY <1>1 DEF PeerTypeOK
      <4>2. end[k][n].queue + 1 \in 0 .. QueueCap
        BY <2>4, <4>1, EndFields, Naturals
      <4> QED
        BY <4>1, <4>2, EndFields
    <3>2. end' = [end EXCEPT ![k][n] = e]
      BY <1>1, <2>4 DEF PeerTypeOK
    <3> HIDE DEF e
    <3>3. /\ end' \in [Link -> [Node -> End]] /\ end'[k][n] = e
          /\ \A j \in Link, m \in Node : j # k \/ m # n => end'[j][m] = end[j][m]
      BY <1>1, <3>1, <3>2 DEF PeerTypeOK
    <3>4. PeerTypeOK'
      BY <1>1, <2>2, <3>3, Naturals DEF PeerTypeOK, NoLink
    <3>5. \A j \in Link, m \in Node : /\ end'[j][m].phase = end[j][m].phase
                                      /\ end'[j][m].shut = end[j][m].shut
      BY <3>1, <3>3
    <3> QED
      BY <1>1, <2>2, <3>4, <3>5, Calm
  <2> QED
    BY <2>1, <2>3, <2>4
<1>3. ASSUME NEW k \in Link, n \in Ends(k), LoopWrite(k, n) PROVE PeerInv'
  <2> DEFINE o == Other(k, n)
             e == [end[k][n] EXCEPT !.queue = @ - 1]
             f == [end[k][o] EXCEPT !.arrived = Phased(k, o) \in {"added", "reading"}]
  <2>1. o \in Node /\ o # n
    BY <1>1, <1>3, TwoEnds
  <2>2. e \in End /\ e.phase = end[k][n].phase /\ e.shut = end[k][n].shut
    <3>1. end[k][n] \in End
      BY <1>1 DEF PeerTypeOK
    <3>2. end[k][n].queue - 1 \in 0 .. QueueCap
      BY <1>3, <3>1, EndFields, Naturals DEF LoopWrite
    <3> QED
      BY <3>1, <3>2, EndFields
  <2>3. f \in End /\ f.phase = end[k][o].phase /\ f.shut = end[k][o].shut
    <3>1. end[k][o] \in End
      BY <1>1, <2>1 DEF PeerTypeOK
    <3>2. (Phased(k, o) \in {"added", "reading"}) \in BOOLEAN
      OBVIOUS
    <3> QED
      BY <3>1, <3>2, EndFields
  <2>4. /\ end'[k][n] = e /\ end'[k][o] = f /\ end' \in [Link -> [Node -> End]]
        /\ \A j \in Link, m \in Node : <<j, m>> \notin {<<k, n>>, <<k, o>>}
                                         => end'[j][m] = end[j][m]
    <3>1. end' = [end EXCEPT ![k] = [end[k] EXCEPT ![n] = e, ![o] = f]]
      BY <1>1, <1>3, <2>1 DEF LoopWrite, PeerTypeOK
    <3> HIDE DEF e, f, o
    <3>2. [end[k] EXCEPT ![n] = e, ![o] = f] \in [Node -> End]
      BY <1>1, <2>1, <2>2, <2>3 DEF PeerTypeOK
    <3> QED
      BY <1>1, <2>1, <2>2, <2>3, <3>1, <3>2 DEF PeerTypeOK
  <2> HIDE DEF e, f, o
  <2>5. UNCHANGED <<nodeVars, ends, peers, seen, pending, held>>
    BY <1>3 DEF LoopWrite
  <2>6. PeerTypeOK'
    BY <1>1, <2>4, <2>5 DEF PeerTypeOK
  <2>7. \A j \in Link, m \in Node : /\ end'[j][m].phase = end[j][m].phase
                                    /\ end'[j][m].shut = end[j][m].shut
    BY <2>2, <2>3, <2>4
  <2> QED
    BY <1>1, <2>5, <2>6, <2>7, Calm
<1> QED
  BY <1>2, <1>3

\* A new process of a node, after the one before has ended.
LEMMA StartStep == ASSUME PeerInv, NEW n \in Node, Start(n) PROVE PeerInv'
<1> USE DEF nodeVars
<1>1. PeerTypeOK /\ status[n] = "dead" /\ UNCHANGED <<links, ends, end, peers, seen, pending, held>>
  BY DEF PeerInv, Start
<1>2. PeerTypeOK'
  BY <1>1, Naturals DEF Start, PeerTypeOK, Status
<1>3. status' = [status EXCEPT ![n] = "up"] /\ status \in [Node -> Status]
  BY <1>1 DEF Start, PeerTypeOK
<1>4. looping' = [looping EXCEPT ![n] = TRUE] /\ looping \in [Node -> BOOLEAN]
  BY <1>1 DEF Start, PeerTypeOK
<1>5. Made' /\ PeersRead' /\ SeenRead'
  BY <1>1 DEF PeerInv, Made, PeersRead, SeenRead, Ends, Other, Phased
<1>6. DeadGone'
  BY <1>1, <1>3, <1>4 DEF PeerInv, DeadGone, Phased
<1>7. ShutStopped'
  BY <1>1, <1>3 DEF PeerInv, ShutStopped, DeadGone
<1> QED
  BY <1>2, <1>5, <1>6, <1>7 DEF PeerInv

\* Stop closes the peers of the map; their readers have not noticed yet.
LEMMA StopStep == ASSUME PeerInv, NEW n \in Node, Stop(n) PROVE PeerInv'
<1> USE DEF nodeVars
<1>1. PeerTypeOK /\ status[n] = "up"
      /\ UNCHANGED <<starts, links, looping, ends, peers, seen, pending, held>>
  BY DEF PeerInv, Stop
<1>2. \A k \in Link, m \in Node :
        end'[k][m] = IF m = n /\ \E p \in Node : peers[n][p] = k
                     THEN [end[k][m] EXCEPT !.shut = TRUE, !.queue = 0] ELSE end[k][m]
  BY DEF Stop
<1>3. \A e \in End : LET f == [e EXCEPT !.shut = TRUE, !.queue = 0]
                     IN  f \in End /\ f.phase = e.phase
  <2> SUFFICES ASSUME NEW e \in End
               PROVE  LET f == [e EXCEPT !.shut = TRUE, !.queue = 0]
                      IN  f \in End /\ f.phase = e.phase
    OBVIOUS
  <2>1. 0 \in 0 .. QueueCap
    BY Naturals
  <2>2. [e EXCEPT !.queue = 0] \in End /\ [e EXCEPT !.queue = 0].phase = e.phase
    BY <2>1, EndFields
  <2>3. \A g \in End : [g EXCEPT !.shut = TRUE] \in End /\ [g EXCEPT !.shut = TRUE].phase = g.phase
    BY DEF End
  <2>4. [e EXCEPT !.shut = TRUE, !.queue = 0] = [[e EXCEPT !.queue = 0] EXCEPT !.shut = TRUE]
    BY DEF End
  <2> QED
    BY <2>2, <2>3, <2>4
<1>4. end' \in [Link -> [Node -> End]]
  <2>1. \A k \in Link, m \in Node : end[k][m] \in End
    BY <1>1 DEF PeerTypeOK
  <2>2. ASSUME NEW k \in Link, NEW m \in Node PROVE end'[k][m] \in End
    <3>1. PICK e \in End : e = end[k][m]
      BY <2>1
    <3>2. end'[k][m] = e \/ end'[k][m] = [e EXCEPT !.shut = TRUE, !.queue = 0]
      BY <1>2, <3>1, Zenon
    <3> QED
      BY <1>3, <3>2, Zenon
  <2>3. end' = [k \in Link |-> [m \in Node |-> end'[k][m]]]
    BY Zenon DEF Stop
  <2> QED
    BY <2>2, <2>3
<1>5. \A k \in Link, m \in Node : /\ end'[k][m].phase = end[k][m].phase
                                  /\ m # n => end'[k][m] = end[k][m]
  <2> SUFFICES ASSUME NEW k \in Link, NEW m \in Node
               PROVE  /\ end'[k][m].phase = end[k][m].phase
                      /\ m # n => end'[k][m] = end[k][m]
    OBVIOUS
  <2>1. end[k][m] \in End
    BY <1>1 DEF PeerTypeOK
  <2>2. CASE m = n /\ \E p \in Node : peers[n][p] = k
    <3>1. end'[k][m] = [end[k][m] EXCEPT !.shut = TRUE, !.queue = 0]
      BY <1>2, <2>2
    <3> QED
      BY <1>3, <2>1, <2>2, <3>1
  <2>3. CASE ~(m = n /\ \E p \in Node : peers[n][p] = k)
    BY <1>2, <2>3
  <2> QED
    BY <2>2, <2>3
<1>6. status' = [status EXCEPT ![n] = "swept"] /\ status \in [Node -> Status]
  BY <1>1 DEF Stop, PeerTypeOK
<1>7. PeerTypeOK'
  BY <1>1, <1>4, <1>6 DEF PeerTypeOK, Status
<1>8. Made' /\ PeersRead'
  BY <1>1, <1>5 DEF PeerInv, Made, PeersRead, Ends, Other, Phased
<1>9. SeenRead'
  <2> SUFFICES ASSUME NEW i \in Node, NEW m \in seen[i]
               PROVE  peers[i][m] # NoLink /\ end'[peers[i][m]][i].phase \in {"reading", "leaving"}
    BY <1>1 DEF SeenRead, Phased
  <2>1. m \in Node /\ peers[i][m] \in 0 .. MaxLinks /\ peers[i][m] # NoLink
    BY DEF PeerInv, PeerTypeOK, SeenRead
  <2>2. peers[i][m] \in Link
    BY <2>1, Naturals DEF Link, NoLink
  <2> QED
    BY <1>5, <2>1, <2>2 DEF PeerInv, SeenRead, Phased
<1>10. DeadGone'
  BY <1>1, <1>5, <1>6 DEF PeerInv, DeadGone, Phased
<1>11. ShutStopped'
  BY <1>5, <1>6 DEF PeerInv, ShutStopped
<1> QED
  BY <1>7, <1>8, <1>9, <1>10, <1>11 DEF PeerInv

\* The end of a process.
LEMMA KillStep == ASSUME PeerInv, NEW n \in Node, Kill(n) PROVE PeerInv'
<1> USE DEF nodeVars
<1>1. PeerTypeOK /\ UNCHANGED <<starts, links, ends>>
  BY DEF PeerInv, Kill
<1>2. \A k \in Link : end'[k] = [end[k] EXCEPT ![n] = Gone]
  BY DEF Kill
<1>3. /\ end' \in [Link -> [Node -> End]]
      /\ \A k \in Link : end'[k][n] = Gone
      /\ \A k \in Link, m \in Node : m # n => end'[k][m] = end[k][m]
  <2>1. \A k \in Link : end[k] \in [Node -> End]
    BY <1>1 DEF PeerTypeOK
  <2>2. \A k \in Link : [end[k] EXCEPT ![n] = Gone] \in [Node -> End]
    BY <2>1, EndTypes
  <2> QED
    BY <1>2, <2>1, <2>2 DEF Kill
<1>4. /\ status' = [status EXCEPT ![n] = "dead"] /\ status \in [Node -> Status]
      /\ looping' = [looping EXCEPT ![n] = FALSE] /\ looping \in [Node -> BOOLEAN]
      /\ peers' = [peers EXCEPT ![n] = [m \in Node |-> NoLink]]
      /\ seen' = [seen EXCEPT ![n] = {}] /\ seen \in [Node -> SUBSET Node]
      /\ pending' = [pending EXCEPT ![n] = {}] /\ pending \in [Node -> SUBSET Node]
      /\ held' = [held EXCEPT ![n] = NoLink]
      /\ peers \in [Node -> [Node -> 0 .. MaxLinks]]
  BY <1>1 DEF Kill, PeerTypeOK
<1>5. PeerTypeOK'
  <2>1. NoLink \in 0 .. MaxLinks /\ [m \in Node |-> NoLink] \in [Node -> 0 .. MaxLinks]
    BY Naturals DEF NoLink
  <2>2. peers' \in [Node -> [Node -> 0 .. MaxLinks]]
    BY <1>4, <2>1
  <2> QED
    BY <1>1, <1>3, <1>4, <2>1, <2>2 DEF PeerTypeOK, Status
<1>6. Made'
  <2>1. /\ Made /\ \A m \in Node : m \notin pending'[m]
    BY <1>4 DEF PeerInv, Made
  <2>2. \A k \in Link, m \in Node : m \notin Ends(k) => end'[k][m].phase = "gone"
    BY <1>3, <2>1, EndTypes DEF Made, Phased
  <2> QED
    BY <1>1, <2>1, <2>2 DEF Made, Ends, Phased
<1>7. DeadGone'
  <2>1. ASSUME NEW m \in Node, status'[m] = "dead"
        PROVE  /\ ~looping'[m]
               /\ \A k \in Link : end'[k][m].phase = "gone" /\ ~end'[k][m].shut
    <3>1. CASE m = n
      BY <1>3, <1>4, <3>1, EndTypes
    <3>2. CASE m # n
      <4>1. status[m] = "dead" /\ looping'[m] = looping[m]
        BY <1>4, <2>1, <3>2
      <4> QED
        BY <1>3, <3>2, <4>1 DEF PeerInv, DeadGone, Phased
    <3> QED
      BY <3>1, <3>2
  <2> QED
    BY <2>1 DEF DeadGone, Phased
<1>8. ShutStopped'
  BY <1>3, <1>4, EndTypes DEF PeerInv, ShutStopped
<1>9. PeersRead'
  <2> SUFFICES ASSUME NEW i \in Node, NEW m \in Node, NEW k \in Link
               PROVE  peers'[i][m] = k <=> /\ i \in Ends(k) /\ m = Other(k, i) /\ i # m
                                           /\ end'[k][i].phase \in Serving
    BY <1>1 DEF PeersRead, Ends, Other, Phased
  <2>1. CASE i = n
    <3>1. peers'[i][m] = NoLink
      BY <1>4, <2>1
    <3>2. end'[k][i].phase \notin Serving
      BY <1>3, <2>1, EndTypes DEF Serving
    <3> QED
      BY <3>1, <3>2, Naturals DEF NoLink
  <2>2. CASE i # n
    <3>1. peers'[i][m] = peers[i][m] /\ end'[k][i] = end[k][i]
      BY <1>3, <1>4, <2>2
    <3>2. peers[i][m] = k <=> /\ i \in Ends(k) /\ m = Other(k, i) /\ i # m
                              /\ end[k][i].phase \in Serving
      BY DEF PeerInv, PeersRead, Phased
    <3> QED
      BY <3>1, <3>2
  <2> QED
    BY <2>1, <2>2
<1>10. SeenRead'
  <2> SUFFICES ASSUME NEW i \in Node, NEW m \in seen'[i]
               PROVE  peers'[i][m] # NoLink /\ end'[peers'[i][m]][i].phase \in {"reading", "leaving"}
    BY DEF SeenRead, Phased
  <2>1. i # n /\ m \in seen[i] /\ m \in Node
    BY <1>4
  <2>2. peers'[i][m] = peers[i][m] /\ peers[i][m] \in 0 .. MaxLinks /\ peers[i][m] # NoLink
    BY <1>4, <2>1 DEF PeerInv, SeenRead
  <2>3. peers[i][m] \in Link
    BY <2>2, Naturals DEF Link, NoLink
  <2> QED
    BY <1>3, <2>1, <2>2, <2>3 DEF PeerInv, SeenRead, Phased
<1> QED
  BY <1>5, <1>6, <1>7, <1>8, <1>9, <1>10 DEF PeerInv

\* A connection is made under the next number.
LEMMA DialStep ==
  ASSUME PeerInv, NEW n \in Node, NEW m \in Node, Dial(n, m)
  PROVE  PeerInv'
<1> USE DEF nodeVars
<1> DEFINE k == links + 1
<1>1. PeerTypeOK /\ n # m /\ k \in Link /\ links' = k /\ links \in Nat
      /\ UNCHANGED <<status, starts, looping, peers, seen, pending, held>>
  <2>1. PeerTypeOK /\ Made
    BY DEF PeerInv
  <2>2. n # m
    BY <2>1 DEF Dial, MayDial, Made
  <2> QED
    BY <2>1, <2>2, Naturals DEF Dial, PeerTypeOK, Link
<1>2. /\ ends' = [ends EXCEPT ![k] = [dialer |-> n, server |-> m]]
      /\ end' = [end EXCEPT ![k] = [end[k] EXCEPT ![n] = Fresh, ![m] = Fresh]]
  BY <1>1 DEF Dial, PeerTypeOK
<1>3. /\ ends' \in [Link -> [dialer : Node \cup {None}, server : Node \cup {None}]]
      /\ ends'[k] = [dialer |-> n, server |-> m]
      /\ \A j \in Link : j # k => ends'[j] = ends[j]
  BY <1>1, <1>2 DEF PeerTypeOK
<1>4. /\ end' \in [Link -> [Node -> End]]
      /\ end'[k][n] = Fresh /\ end'[k][m] = Fresh
      /\ \A i \in Node : i \notin {n, m} => end'[k][i] = end[k][i]
      /\ \A j \in Link : j # k => end'[j] = end[j]
  <2>1. end[k] \in [Node -> End] /\ end \in [Link -> [Node -> End]]
    BY <1>1 DEF PeerTypeOK
  <2>2. [end[k] EXCEPT ![n] = Fresh, ![m] = Fresh] \in [Node -> End]
    BY <2>1, EndTypes
  <2> QED
    BY <1>1, <1>2, <2>1, <2>2
<1>5. \A i \in Node : Phased(k, i) = "gone"
  <2>1. ends[k] = NoEnds
    BY <1>1 DEF PeerInv, Made
  <2>2. Ends(k) = {}
    BY <2>1 DEF Ends, NoEnds
  <2> QED
    BY <1>1, <2>2 DEF PeerInv, Made
<1> HIDE DEF k
<1>6. PeerTypeOK'
  <2>1. links' \in 0 .. MaxLinks
    BY <1>1, Naturals DEF Link
  <2> QED
    BY <1>1, <1>3, <1>4, <2>1 DEF PeerTypeOK
<1>7. Made'
  <2>1. \A j \in Link : j > links' => ends'[j] = NoEnds
    BY <1>1, <1>3 DEF PeerInv, Made, Link, k
  <2>2. \A j \in Link : j <= links' =>
          /\ ends'[j].dialer \in Node /\ ends'[j].server \in Node
          /\ ends'[j].dialer # ends'[j].server
    BY <1>1, <1>3 DEF PeerInv, Made, Link, k
  <2>3. \A j \in Link, i \in Node : i \notin Ends(j)' => Phased(j, i)' = "gone"
    <3> SUFFICES ASSUME NEW j \in Link, NEW i \in Node, i \notin Ends(j)'
                 PROVE  end'[j][i].phase = "gone"
      BY DEF Phased
    <3>1. CASE j = k
      <4>1. i # n /\ i # m
        BY <1>3, <3>1, BootAssumption DEF Ends
      <4> QED
        BY <1>4, <1>5, <3>1, <4>1 DEF Phased
    <3>2. CASE j # k
      <4>1. i \notin Ends(j)
        BY <1>3, <3>2 DEF Ends
      <4> QED
        BY <1>4, <3>2, <4>1 DEF PeerInv, Made, Phased
    <3> QED
      BY <3>1, <3>2
  <2> QED
    BY <1>1, <2>1, <2>2, <2>3 DEF Made, PeerInv
<1>8. status[n] # "dead" /\ status[m] # "dead"
  <2>1. looping[n] /\ Accepting(m)
    BY DEF Dial, MayDial
  <2> QED
    BY <2>1 DEF PeerInv, DeadGone, Accepting
<1>9. DeadGone'
  BY <1>1, <1>4, <1>8 DEF PeerInv, DeadGone, Phased
<1>10. ShutStopped'
  BY <1>1, <1>4, EndTypes DEF PeerInv, ShutStopped
<1>11. \A j \in Link, i \in Node : Phased(j, i)' \in Serving <=> Phased(j, i) \in Serving
  <2> SUFFICES ASSUME NEW j \in Link, NEW i \in Node
               PROVE  end'[j][i].phase \in Serving <=> end[j][i].phase \in Serving
    BY DEF Phased
  <2>1. CASE j # k
    BY <1>4, <2>1
  <2>2. CASE j = k /\ i \in {n, m}
    BY <1>4, <1>5, <2>2, EndTypes DEF Phased, Serving
  <2>3. CASE j = k /\ i \notin {n, m}
    BY <1>4, <2>3
  <2> QED
    BY <2>1, <2>2, <2>3
<1>12. PeersRead'
  <2> SUFFICES ASSUME NEW i \in Node, NEW o \in Node, NEW j \in Link
               PROVE  peers[i][o] = j <=> /\ i \in Ends(j)' /\ o = Other(j, i)' /\ i # o
                                          /\ Phased(j, i)' \in Serving
    BY <1>1 DEF PeersRead
  <2>1. CASE j # k
    <3>1. Ends(j)' = Ends(j) /\ Other(j, i)' = Other(j, i)
      BY <1>3, <2>1 DEF Ends, Other
    <3> QED
      BY <1>11, <3>1 DEF PeerInv, PeersRead
  <2>2. CASE j = k
    <3>1. Phased(j, i)' \notin Serving /\ Phased(j, i) \notin Serving
      BY <1>5, <1>11, <2>2 DEF Serving
    <3> QED
      BY <3>1 DEF PeerInv, PeersRead
  <2> QED
    BY <2>1, <2>2
<1>13. SeenRead'
  <2> SUFFICES ASSUME NEW i \in Node, NEW o \in seen[i]
               PROVE  peers[i][o] # NoLink /\ end'[peers[i][o]][i].phase \in {"reading", "leaving"}
    BY <1>1 DEF SeenRead, Phased
  <2>1. o \in Node /\ peers[i][o] \in 0 .. MaxLinks /\ peers[i][o] # NoLink
        /\ end[peers[i][o]][i].phase \in {"reading", "leaving"}
    BY DEF PeerInv, PeerTypeOK, SeenRead, Phased
  <2>2. peers[i][o] \in Link
    BY <2>1, Naturals DEF Link, NoLink
  <2>3. peers[i][o] # k
    BY <1>5, <2>1 DEF Phased
  <2> QED
    BY <1>4, <2>1, <2>2, <2>3
<1> QED
  BY <1>6, <1>7, <1>9, <1>10, <1>12, <1>13 DEF PeerInv

\* The dial loop goes on to the next entry.
LEMMA DialedType ==
  ASSUME PeerInv, NEW k \in Link, NEW n \in Node, Dialed(k, n)
  PROVE  pending' \in [Node -> SUBSET Node] /\ \A m \in Node : m \notin pending'[m]
<1>1. pending \in [Node -> SUBSET Node] /\ \A m \in Node : m \notin pending[m]
  BY DEF PeerInv, PeerTypeOK, Made
<1> QED
  BY <1>1 DEF Dialed

\* An end that was not yet served, or is no longer, goes.
LEMMA EndGoes ==
  ASSUME PeerInv, NEW k \in Link, NEW n \in Node,
         Phased(k, n) \in {"shake", "closing"},
         end' = [end EXCEPT ![k][n] = Gone],
         UNCHANGED <<nodeVars, ends, peers, seen, held>>,
         pending' \in [Node -> SUBSET Node], \A m \in Node : m \notin pending'[m]
  PROVE  PeerInv'
<1>1. Made' /\ DeadGone' /\ ShutStopped'
  BY EndTypes, Moved
<1>2. PeersRead'
  BY EndTypes, StaysServed DEF Serving
<1>3. SeenRead'
  BY EndTypes, StaysSeen
<1>4. PeerTypeOK'
  <2>1. PeerTypeOK
    BY DEF PeerInv
  <2>2. end' \in [Link -> [Node -> End]]
    BY <2>1, EndTypes DEF PeerTypeOK
  <2> QED
    BY <2>1, <2>2 DEF PeerTypeOK, nodeVars
<1> QED
  BY <1>1, <1>2, <1>3, <1>4 DEF PeerInv

\* addPeer: a peer that is not in the map yet is entered, another is closed.
LEMMA HandshakeSteps ==
  ASSUME PeerInv, NEW k \in Link, NEW n \in Node
  PROVE  HandshakeOk(k, n) \/ HandshakeFail(k, n) => PeerInv'
<1>1. CASE HandshakeFail(k, n)
  BY <1>1, EndGoes, DialedType DEF HandshakeFail
<1>2. CASE HandshakeOk(k, n)
  <2> DEFINE o == Other(k, n)
  <2>1. /\ Phased(k, n) = "shake" /\ UNCHANGED <<nodeVars, ends, seen, held>>
        /\ AddPeer(k, n, o)
        /\ pending' \in [Node -> SUBSET Node] /\ \A m \in Node : m \notin pending'[m]
    BY <1>2, DialedType DEF HandshakeOk
  <2>2. CASE peers[n][o] # NoLink
    BY <2>1, <2>2, EndGoes DEF AddPeer
  <2>3. CASE peers[n][o] = NoLink
    <3>1. /\ peers' = [peers EXCEPT ![n][o] = k]
          /\ end' = [end EXCEPT ![k][n] = Added]
      BY <2>1, <2>3 DEF AddPeer
    <3>2. /\ n \in Ends(k) /\ o \in Node /\ o # n
          /\ Made' /\ DeadGone' /\ ShutStopped'
      BY <2>1, <3>1, EndTypes, Moved
    <3>3. PeerTypeOK
      BY DEF PeerInv
    <3>4. /\ end' \in [Link -> [Node -> End]] /\ end'[k][n] = Added
          /\ \A j \in Link, m \in Node : j # k \/ m # n => end'[j][m] = end[j][m]
      BY <3>1, <3>3, EndTypes DEF PeerTypeOK
    <3>5. /\ peers' \in [Node -> [Node -> 0 .. MaxLinks]] /\ peers'[n][o] = k
          /\ \A i, m \in Node : i # n \/ m # o => peers'[i][m] = peers[i][m]
      <4>1. k \in 0 .. MaxLinks
        BY Naturals DEF Link
      <4> QED
        BY <3>1, <3>2, <3>3, <4>1 DEF PeerTypeOK
    <3>6. PeerTypeOK'
      BY <2>1, <3>3, <3>4, <3>5 DEF PeerTypeOK, nodeVars
    <3>7. PeersRead'
      <4> SUFFICES ASSUME NEW i \in Node, NEW m \in Node, NEW j \in Link
                   PROVE  peers'[i][m] = j <=> /\ i \in Ends(j) /\ m = Other(j, i) /\ i # m
                                               /\ end'[j][i].phase \in Serving
        BY <2>1 DEF PeersRead, Ends, Other, Phased
      <4>1. peers[i][m] = j <=> /\ i \in Ends(j) /\ m = Other(j, i) /\ i # m
                                /\ end[j][i].phase \in Serving
        BY DEF PeerInv, PeersRead, Phased
      <4>2. CASE i = n /\ j = k
        <5>1. end[k][n].phase \notin Serving /\ end'[k][n].phase \in Serving
          BY <2>1, <3>4, EndTypes DEF Phased, Serving
        <5>2. peers[n][m] # k
          BY <4>1, <4>2, <5>1
        <5> QED
          BY <3>2, <3>5, <4>2, <5>1, <5>2
      <4>3. CASE i = n /\ j # k
        <5>1. end'[j][i] = end[j][i]
          BY <3>4, <4>3
        <5>2. CASE m = o
          <6>1. peers[n][o] # j
            BY <2>3, Naturals DEF NoLink
          <6> QED
            BY <3>5, <4>1, <4>3, <5>1, <5>2, <6>1
        <5>3. CASE m # o
          BY <3>5, <4>1, <4>3, <5>1, <5>3
        <5> QED
          BY <5>2, <5>3
      <4>4. CASE i # n
        BY <3>4, <3>5, <4>1, <4>4
      <4> QED
        BY <4>2, <4>3, <4>4
    <3>8. SeenRead'
      <4> SUFFICES ASSUME NEW i \in Node, NEW m \in seen[i]
                   PROVE  peers'[i][m] # NoLink /\ end'[peers'[i][m]][i].phase \in {"reading", "leaving"}
        BY <2>1 DEF SeenRead, Phased
      <4>1. m \in Node /\ peers[i][m] \in 0 .. MaxLinks /\ peers[i][m] # NoLink
            /\ end[peers[i][m]][i].phase \in {"reading", "leaving"}
        BY DEF PeerInv, PeerTypeOK, SeenRead, Phased
      <4>2. peers[i][m] \in Link
        BY <4>1, Naturals DEF Link, NoLink
      <4>3. peers'[i][m] = peers[i][m]
        BY <2>3, <3>5, <4>1
      <4>4. i # n \/ peers[i][m] # k
        BY <2>1, <4>1 DEF Phased
      <4> QED
        BY <3>4, <4>1, <4>2, <4>3, <4>4
    <3> QED
      BY <3>2, <3>6, <3>7, <3>8 DEF PeerInv
  <2> QED
    BY <2>2, <2>3
<1> QED
  BY <1>1, <1>2

\* A reader goes round its loop, or leaves it.
LEMMA ReaderMoves ==
  ASSUME PeerInv, NEW k \in Link, NEW n \in Node, NEW e \in End,
         Phased(k, n) \in {"reading", "leaving"}, e.phase \in {"reading", "leaving"},
         e.shut = end[k][n].shut, end' = [end EXCEPT ![k][n] = e],
         UNCHANGED <<nodeVars, ends, peers, seen, pending, held>>
  PROVE  PeerInv'
<1>1. \A m \in Node : m \notin pending'[m]
  BY DEF PeerInv, Made
<1>2. Made' /\ DeadGone' /\ ShutStopped'
  BY <1>1, Moved
<1>3. PeersRead'
  BY StaysServed DEF Serving
<1>4. SeenRead'
  BY StaysSeen
<1>5. PeerTypeOK'
  BY OneEnd DEF PeerInv, PeerTypeOK, nodeVars
<1> QED
  BY <1>2, <1>3, <1>4, <1>5 DEF PeerInv

LEMMA ReadSteps ==
  ASSUME PeerInv, NEW k \in Link, NEW n \in Node
  PROVE  Read(k, n) \/ ReadError(k, n) => PeerInv'
<1>1. PeerTypeOK /\ end[k][n] \in End
  BY DEF PeerInv, PeerTypeOK
<1>2. ASSUME NEW p \in {"reading", "leaving"}, Phased(k, n) = "reading",
             end' = [end EXCEPT ![k][n].phase = p, ![k][n].arrived = FALSE],
             UNCHANGED <<nodeVars, ends, peers, seen, pending, held>>
      PROVE  PeerInv'
  <2> DEFINE e == [[end[k][n] EXCEPT !.phase = p] EXCEPT !.arrived = FALSE]
  <2>1. e \in End /\ e.phase = p /\ e.shut = end[k][n].shut
    <3>1. p \in Phase /\ FALSE \in BOOLEAN
      BY DEF Phase
    <3>2. /\ [end[k][n] EXCEPT !.phase = p] \in End
          /\ [end[k][n] EXCEPT !.phase = p].phase = p
          /\ [end[k][n] EXCEPT !.phase = p].shut = end[k][n].shut
      BY <1>1, <3>1, EndFields
    <3> QED
      BY <3>1, <3>2, EndFields
  <2>2. end' = [end EXCEPT ![k][n] = e]
    BY <1>1, <1>2 DEF PeerTypeOK, End
  <2>3. Phased(k, n) = "reading" /\ UNCHANGED <<nodeVars, ends, peers, seen, pending, held>>
    BY <1>2
  <2> HIDE DEF e
  <2> QED
    BY <2>1, <2>2, <2>3, ReaderMoves
<1>3. [end EXCEPT ![k][n].arrived = FALSE, ![k][n].phase = Onwards(n)]
        = [end EXCEPT ![k][n].phase = Onwards(n), ![k][n].arrived = FALSE]
  <2>1. end \in [Link -> [Node -> End]]
    BY <1>1 DEF PeerTypeOK
  <2> QED
    BY <2>1 DEF End
<1>4. Onwards(n) \in {"reading", "leaving"}
  BY DEF Onwards
<1> QED
  BY <1>2, <1>3, <1>4 DEF Read, ReadError, ReadFail

\* What such a step leaves as it was.
PhaseMoved(k, n, p) ==
  /\ n \in Ends(k) /\ Other(k, n) \in Node /\ Other(k, n) # n
  /\ Made' /\ DeadGone' /\ ShutStopped'
  /\ end' \in [Link -> [Node -> End]] /\ end'[k][n].phase = p
  /\ \A j \in Link, m \in Node : j # k \/ m # n => end'[j][m] = end[j][m]

\* A step that only gives one end another phase.
LEMMA PhaseOnly ==
  ASSUME PeerInv, NEW k \in Link, NEW n \in Node, NEW p \in Phase,
         Phased(k, n) # "gone", UNCHANGED <<nodeVars, ends, pending>>
  PROVE  end' = [end EXCEPT ![k][n].phase = p] => PhaseMoved(k, n, p)
<1> DEFINE e == [end[k][n] EXCEPT !.phase = p]
<1>1. PeerTypeOK /\ end[k][n] \in End
  BY DEF PeerInv, PeerTypeOK
<1>2. e \in End /\ e.phase = p /\ e.shut = end[k][n].shut
  BY <1>1, EndFields
<1>3. \A m \in Node : m \notin pending'[m]
  BY DEF PeerInv, Made
<1>4. [end EXCEPT ![k][n].phase = p] = [end EXCEPT ![k][n] = e]
  BY <1>1 DEF PeerTypeOK
<1> HIDE DEF e
<1>5. ASSUME end' = [end EXCEPT ![k][n] = e]
      PROVE  /\ n \in Ends(k) /\ Other(k, n) \in Node /\ Other(k, n) # n
             /\ Made' /\ DeadGone' /\ ShutStopped'
             /\ end' \in [Link -> [Node -> End]] /\ end'[k][n] = e
             /\ \A j \in Link, m \in Node : j # k \/ m # n => end'[j][m] = end[j][m]
  <2>1. /\ n \in Ends(k) /\ Other(k, n) \in Node /\ Other(k, n) # n
        /\ Made' /\ DeadGone' /\ ShutStopped'
    BY <1>2, <1>3, <1>5, Moved
  <2>2. /\ end' \in [Link -> [Node -> End]] /\ end'[k][n] = e
        /\ \A j \in Link, m \in Node : j # k \/ m # n => end'[j][m] = end[j][m]
    BY <1>1, <1>2, <1>5 DEF PeerTypeOK
  <2> QED
    BY <2>1, <2>2
<1> QED
  BY <1>2, <1>4, <1>5 DEF PhaseMoved

\* The reader starts and announces the peer.
LEMMA ConnectStep ==
  ASSUME PeerInv, NEW k \in Link, NEW n \in Node, PeerConnected(k, n)
  PROVE  PeerInv'
<1> DEFINE o == Other(k, n)
<1>1. /\ PeerTypeOK /\ Phased(k, n) = "added"
      /\ seen' = [seen EXCEPT ![n] = @ \cup {o}] /\ seen \in [Node -> SUBSET Node]
      /\ UNCHANGED <<nodeVars, ends, peers, pending, held>>
  BY DEF PeerInv, PeerConnected, PeerTypeOK
<1>2. PICK p \in {"reading", "leaving"} : end' = [end EXCEPT ![k][n].phase = p]
  BY DEF PeerConnected, Onwards
<1>3. p \in Phase
  BY DEF Phase
<1>4. /\ n \in Ends(k) /\ o \in Node /\ o # n
      /\ Made' /\ DeadGone' /\ ShutStopped'
      /\ end' \in [Link -> [Node -> End]] /\ end'[k][n].phase = p
      /\ \A j \in Link, m \in Node : j # k \/ m # n => end'[j][m] = end[j][m]
  <2>1. UNCHANGED <<nodeVars, ends, pending>> /\ Phased(k, n) # "gone"
    BY <1>1
  <2>2. PhaseMoved(k, n, p)
    BY <1>2, <1>3, <2>1, PhaseOnly
  <2> QED
    BY <2>2 DEF PhaseMoved
<1> HIDE DEF o
<1>5. PeerTypeOK'
  BY <1>1, <1>4 DEF PeerTypeOK, nodeVars
<1>6. PeersRead'
  <2>1. \A j \in Link, m \in Node : Phased(j, m)' \in Serving <=> Phased(j, m) \in Serving
    BY <1>1, <1>4 DEF Phased, Serving
  <2> QED
    BY <1>1, <2>1 DEF PeerInv, PeersRead, Ends, Other
<1>7. peers[n][o] = k
  BY <1>1, <1>4 DEF PeerInv, PeersRead, Serving, o
<1>8. SeenRead'
  <2> SUFFICES ASSUME NEW i \in Node, NEW m \in seen'[i]
               PROVE  peers[i][m] # NoLink /\ end'[peers[i][m]][i].phase \in {"reading", "leaving"}
    BY <1>1 DEF SeenRead, Phased
  <2>1. CASE i = n /\ m = o
    BY <1>4, <1>7, <2>1, Naturals DEF NoLink
  <2>2. CASE i # n \/ m # o
    <3>1. m \in seen[i] /\ m \in Node
      BY <1>1, <2>2
    <3>2. /\ peers[i][m] \in 0 .. MaxLinks /\ peers[i][m] # NoLink
          /\ end[peers[i][m]][i].phase \in {"reading", "leaving"}
      BY <1>1, <3>1 DEF PeerInv, PeerTypeOK, SeenRead, Phased
    <3>3. peers[i][m] \in Link
      BY <3>2, Naturals DEF Link, NoLink
    <3>4. peers[i][m] # k \/ i # n
      BY <1>1, <3>2 DEF Phased
    <3> QED
      BY <1>4, <3>2, <3>3, <3>4
  <2> QED
    BY <2>1, <2>2
<1> QED
  BY <1>4, <1>5, <1>6, <1>8 DEF PeerInv

\* The deferred calls of the reader, in their order.
LEMMA LeaveSteps ==
  ASSUME PeerInv, NEW k \in Link, NEW n \in Node, LeaveStep(k, n)
  PROVE  PeerInv'
<1> DEFINE o == Other(k, n)
<1>1. PeerTypeOK /\ UNCHANGED <<nodeVars, ends, pending, held>>
  BY DEF PeerInv, LeaveStep
<1>2. ASSUME NEW p \in Phase, Phased(k, n) \in Serving, end' = [end EXCEPT ![k][n].phase = p]
      PROVE  /\ n \in Ends(k) /\ o \in Node /\ o # n
             /\ Made' /\ DeadGone' /\ ShutStopped'
             /\ end' \in [Link -> [Node -> End]] /\ end'[k][n].phase = p
             /\ \A j \in Link, m \in Node : j # k \/ m # n => end'[j][m] = end[j][m]
             /\ \A m \in Node : peers[n][m] = k <=> m = o
  <2>1. Phased(k, n) # "gone"
    BY <1>2 DEF Serving
  <2>2. /\ n \in Ends(k) /\ o \in Node /\ o # n
        /\ Made' /\ DeadGone' /\ ShutStopped'
        /\ end' \in [Link -> [Node -> End]] /\ end'[k][n].phase = p
        /\ \A j \in Link, m \in Node : j # k \/ m # n => end'[j][m] = end[j][m]
    <3>1. UNCHANGED <<nodeVars, ends, pending>>
      BY <1>1
    <3>2. PhaseMoved(k, n, p)
      BY <1>2, <2>1, <3>1, PhaseOnly
    <3> QED
      BY <3>2 DEF PhaseMoved
  <2> HIDE DEF o
  <2>3. \A m \in Node : peers[n][m] = k <=> m = o
    BY <1>2, <2>2 DEF PeerInv, PeersRead, o
  <2> QED
    BY <2>2, <2>3
<1>3. \A i \in Node : \A m \in seen[i] :
        /\ m \in Node /\ peers[i][m] \in Link /\ peers[i][m] # NoLink
        /\ end[peers[i][m]][i].phase \in {"reading", "leaving"}
  <2> SUFFICES ASSUME NEW i \in Node, NEW m \in seen[i]
               PROVE  /\ m \in Node /\ peers[i][m] \in Link /\ peers[i][m] # NoLink
                      /\ end[peers[i][m]][i].phase \in {"reading", "leaving"}
    OBVIOUS
  <2>1. /\ m \in Node /\ peers[i][m] \in 0 .. MaxLinks /\ peers[i][m] # NoLink
        /\ end[peers[i][m]][i].phase \in {"reading", "leaving"}
    BY <1>1 DEF PeerInv, PeerTypeOK, SeenRead, Phased
  <2> QED
    BY <2>1, Naturals DEF Link, NoLink
<1> HIDE DEF o
\* The peer is announced closed.
<1>4. ASSUME Phased(k, n) = "leaving", seen' = [seen EXCEPT ![n] = @ \ {o}],
             end' = [end EXCEPT ![k][n].phase = "deleting"], UNCHANGED peers
      PROVE  PeerInv'
  <2>1. Phased(k, n) \in Serving /\ "deleting" \in Phase
    BY <1>4 DEF Serving, Phase
  <2>2. /\ n \in Ends(k) /\ o \in Node /\ o # n
        /\ Made' /\ DeadGone' /\ ShutStopped'
        /\ end' \in [Link -> [Node -> End]] /\ end'[k][n].phase = "deleting"
        /\ \A j \in Link, m \in Node : j # k \/ m # n => end'[j][m] = end[j][m]
        /\ \A m \in Node : peers[n][m] = k <=> m = o
    BY <1>2, <1>4, <2>1
  <2>3. seen' \in [Node -> SUBSET Node] /\ seen \in [Node -> SUBSET Node]
    BY <1>1, <1>4 DEF PeerTypeOK
  <2>4. PeerTypeOK'
    BY <1>1, <1>4, <2>2, <2>3 DEF PeerTypeOK, nodeVars
  <2>5. PeersRead'
    <3>1. \A j \in Link, m \in Node : Phased(j, m)' \in Serving <=> Phased(j, m) \in Serving
      BY <2>1, <2>2 DEF Phased, Serving
    <3> QED
      BY <1>1, <1>4, <3>1 DEF PeerInv, PeersRead, Ends, Other
  <2>6. SeenRead'
    <3> SUFFICES ASSUME NEW i \in Node, NEW m \in seen'[i]
                 PROVE  peers[i][m] # NoLink /\ end'[peers[i][m]][i].phase \in {"reading", "leaving"}
      BY <1>4 DEF SeenRead, Phased
    <3>1. m \in seen[i] /\ (i # n \/ m # o)
      BY <1>4, <2>3
    <3> QED
      BY <1>3, <2>2, <3>1
  <2> QED
    BY <2>2, <2>4, <2>5, <2>6 DEF PeerInv
\* The entry is deleted; it is the one of this link.
<1>5. ASSUME Phased(k, n) = "deleting", peers' = [peers EXCEPT ![n][o] = NoLink],
             end' = [end EXCEPT ![k][n].phase = "closing"], UNCHANGED seen
      PROVE  PeerInv'
  <2>1. Phased(k, n) \in Serving /\ "closing" \in Phase
    BY <1>5 DEF Serving, Phase
  <2>2. /\ n \in Ends(k) /\ o \in Node /\ o # n
        /\ Made' /\ DeadGone' /\ ShutStopped'
        /\ end' \in [Link -> [Node -> End]] /\ end'[k][n].phase = "closing"
        /\ \A j \in Link, m \in Node : j # k \/ m # n => end'[j][m] = end[j][m]
        /\ \A m \in Node : peers[n][m] = k <=> m = o
    BY <1>2, <1>5, <2>1
  <2>3. /\ peers' \in [Node -> [Node -> 0 .. MaxLinks]] /\ peers'[n][o] = NoLink
        /\ \A i, m \in Node : i # n \/ m # o => peers'[i][m] = peers[i][m]
    <3>1. NoLink \in 0 .. MaxLinks
      BY Naturals DEF NoLink
    <3> QED
      BY <1>1, <1>5, <2>2, <3>1 DEF PeerTypeOK
  <2>4. PeerTypeOK'
    BY <1>1, <1>5, <2>2, <2>3 DEF PeerTypeOK, nodeVars
  <2>5. PeersRead'
    <3> SUFFICES ASSUME NEW i \in Node, NEW m \in Node, NEW j \in Link
                 PROVE  peers'[i][m] = j <=> /\ i \in Ends(j) /\ m = Other(j, i) /\ i # m
                                             /\ end'[j][i].phase \in Serving
      BY <1>1 DEF PeersRead, Ends, Other, Phased
    <3>1. peers[i][m] = j <=> /\ i \in Ends(j) /\ m = Other(j, i) /\ i # m
                              /\ end[j][i].phase \in Serving
      BY DEF PeerInv, PeersRead, Phased
    <3>2. CASE i = n /\ j = k
      <4>1. end'[j][i].phase \notin Serving
        BY <2>2, <3>2 DEF Serving
      <4>2. peers'[i][m] # j
        BY <2>2, <2>3, <3>2, Naturals DEF NoLink
      <4> QED
        BY <4>1, <4>2
    <3>3. CASE i # n \/ j # k
      <4>1. end'[j][i] = end[j][i]
        BY <2>2, <3>3
      <4>2. CASE i = n /\ m = o
        <5>1. peers[i][m] # j /\ peers'[i][m] # j
          BY <2>2, <2>3, <3>3, <4>2, Naturals DEF NoLink
        <5> QED
          BY <3>1, <4>1, <5>1
      <4>3. CASE i # n \/ m # o
        BY <2>3, <3>1, <4>1, <4>3
      <4> QED
        BY <4>2, <4>3
    <3> QED
      BY <3>2, <3>3
  <2>6. SeenRead'
    <3> SUFFICES ASSUME NEW i \in Node, NEW m \in seen[i]
                 PROVE  peers'[i][m] # NoLink /\ end'[peers'[i][m]][i].phase \in {"reading", "leaving"}
      BY <1>5 DEF SeenRead, Phased
    <3>1. i # n \/ peers[i][m] # k
      BY <1>3, <1>5 DEF Phased
    <3>2. i # n \/ m # o
      BY <2>2, <3>1
    <3> QED
      <4>1. peers'[i][m] = peers[i][m] /\ peers[i][m] \in Link
        BY <1>3, <2>3, <3>2
      <4>2. end'[peers[i][m]][i] = end[peers[i][m]][i]
        BY <2>2, <3>1, <4>1
      <4> QED
        BY <1>3, <4>1, <4>2
  <2> QED
    BY <2>2, <2>4, <2>5, <2>6 DEF PeerInv
\* The peer is closed.
<1>6. ASSUME Phased(k, n) = "closing", end' = [end EXCEPT ![k][n] = Gone],
             UNCHANGED <<peers, seen>>
      PROVE  PeerInv'
  <2>1. pending' \in [Node -> SUBSET Node] /\ \A m \in Node : m \notin pending'[m]
    BY <1>1 DEF PeerInv, PeerTypeOK, Made
  <2> QED
    BY <1>1, <1>6, <2>1, EndGoes
<1> QED
  BY <1>4, <1>5, <1>6 DEF LeaveStep, Leave, o

-----------------------------------------------------------------------------
(***************************************************************************)
(* Theorems.                                                               *)
(***************************************************************************)
LEMMA LinkNext == PeerInv /\ [Next]_vars => PeerInv'
<1> SUFFICES ASSUME PeerInv, [Next]_vars PROVE PeerInv'
  OBVIOUS
<1>1. CASE UNCHANGED vars
  BY <1>1 DEF vars, PeerInv, PeerTypeOK, Made, DeadGone, ShutStopped, PeersRead, SeenRead,
              Ends, Other, Phased
<1>2. ASSUME NEW n \in Node, Crash(n) \/ WritePanic(n) PROVE PeerInv'
  BY <1>2, KillStep DEF Crash, WritePanic
<1>3. ASSUME NEW n \in Node, NEW k \in Link, EndStep(k, n) PROVE PeerInv'
  BY <1>3, HandshakeSteps, ConnectStep, ReadSteps, LeaveSteps DEF EndStep
<1> QED
  BY <1>1, <1>2, <1>3, CalmSteps, WriteSteps, StartStep, StopStep, DialStep DEF Next

LEMMA LinkInvariant == LinkSpec => []PeerInv
  BY LinkInit, LinkNext, PTL DEF LinkSpec

\* What the invariant says of the map: a link that is listed is being served.
LEMMA ListedServed ==
  ASSUME PeerInv, NEW n \in Node, NEW m \in Node, peers[n][m] # NoLink
  PROVE  peers[n][m] \in Link /\ Phased(peers[n][m], n) \in Serving
<1>1. peers[n][m] \in 0 .. MaxLinks
  BY DEF PeerInv, PeerTypeOK
<1>2. peers[n][m] \in Link
  BY <1>1, Naturals DEF Link, NoLink
<1> QED
  BY <1>2 DEF PeerInv, PeersRead

\* The nodes' p2p (src/p2p/p2p.go, peer.go) and the boot node's register
\* (src/p2p/bootnode.go, linker.go) keep their types, whatever the number of
\* nodes, connections and restarts and whatever the capacity of the queues.
THEOREM LinksTypeCorrect == LinksSpec => []LinksTypeOK
<1>1. PeerInv => PeerTypeOK
  BY DEF PeerInv
<1> QED
  BY <1>1, LinkInvariant, BootListedCorrect, PTL DEF LinksSpec, LinksTypeOK

\* The entries of p2p.peers are exactly the links with a reader that has not yet
\* deleted its entry (p2p.go addPeer, peer.go loopRead): although
\* delete(self.peers, peer.peerId) names an identifier, no interleaving of
\* dials, handshakes, crashes, restarts and Stop lets a reader delete the entry
\* of another link.
THEOREM OneReaderPerEntry == LinkSpec => []PeersRead
<1>1. PeerInv => PeersRead
  BY DEF PeerInv
<1> QED
  BY <1>1, LinkInvariant, PTL

\* The syncer's set of peers, which the readers keep by announcing identifiers
\* (p2p.go loopRead, src/syncer), holds no peer that p2p.peers has dropped.
THEOREM SeenPeersListed == LinkSpec => []SeenArePeers
<1>1. PeerInv => SeenArePeers
  BY DEF PeerInv, SeenRead, SeenArePeers
<1> QED
  BY <1>1, LinkInvariant, PTL

\* Until Stop sweeps over the peers, a peer of the map is open, so that Write
\* (peer.go) finds its queue unless the peer was taken from the map before.
THEOREM ListedPeersOpen == LinkSpec => []ListedOpen
<1>1. PeerInv => ListedOpen
  <2> SUFFICES ASSUME PeerInv, NEW n \in Node, NEW m \in Node,
                      status[n] = "up", peers[n][m] # NoLink
               PROVE  ~PeerClosed(peers[n][m], n)
    BY DEF ListedOpen
  <2>1. peers[n][m] \in Link /\ Phased(peers[n][m], n) \in Serving
    BY ListedServed
  <2> QED
    BY <2>1 DEF PeerInv, ShutStopped, PeerClosed, Serving
<1> QED
  BY <1>1, LinkInvariant, PTL

=============================================================================
