------------------------------ MODULE BootNode ------------------------------
(***************************************************************************)
(* The boot node (src/p2p/bootnode.go) and the linkers of the nodes        *)
(* (src/p2p/bootnode_linker.go).  A linker connects once, when its node    *)
(* starts, sends its identifier, and from then on asks who is listed; the  *)
(* answers change nothing here, and AddDial in PeerLink takes them.  Nodes *)
(* come and go as they like.                                               *)
(***************************************************************************)
EXTENDS Integers, FiniteSets

CONSTANTS
  Node,       \* the identifiers of the nodes
  MaxStarts   \* how many linkers connect

None == "none"
NoId == "no id"      \* the identifier of a peer whose first request was lost

\* Neither of the two markers is the identifier of a node.
ASSUME BootAssumption ==
  /\ IsFiniteSet(Node) /\ Cardinality(Node) >= 2 /\ MaxStarts \in Nat
  /\ None \notin Node /\ NoId \notin Node

VARIABLES
  bootUp,   \* the boot node runs
  conn,     \* the connections of linkers, in the order they were made
  linked,   \* the connection of each node's linker, 0 for none
  listed    \* bootnode.peers: the connection listed for an identifier

bootVars == <<bootUp, conn, linked, listed>>

Id == Node \cup {NoId}
Conn == 1 .. MaxStarts

\* "sent": the identifier is on its way; "read": loopread runs.
ConnType == [node : Node \cup {None}, at : {"none", "sent", "read", "end"},
             open : BOOLEAN, id : Id]
NoConn == [node |-> None, at |-> "none", open |-> FALSE, id |-> NoId]

BootInit ==
  /\ bootUp = TRUE
  /\ conn = [i \in Conn |-> NoConn]
  /\ linked = [n \in Node |-> 0]
  /\ listed = [id \in Id |-> 0]

\* linker.start; without a boot node to dial the linker stays without one.
LinkerStart(n) ==
  /\ linked[n] = 0 /\ bootUp
  /\ \E i \in Conn :
       /\ conn[i] = NoConn /\ \A j \in Conn : j < i => conn[j] # NoConn
       /\ conn' = [conn EXCEPT ![i] =
                     [node |-> n, at |-> "sent", open |-> TRUE, id |-> n]]
       /\ linked' = [linked EXCEPT ![n] = i]
  /\ UNCHANGED <<bootUp, listed>>

\* linker.stop, or the end of the node's process, closes the connection.
LinkerStop(n) ==
  /\ linked[n] # 0
  /\ conn' = [conn EXCEPT ![linked[n]].open = FALSE]
  /\ linked' = [linked EXCEPT ![n] = 0]
  /\ UNCHANGED <<bootUp, listed>>

\* bootnode.addPeer: the newest connection of an identifier is listed, and the
\* one before is closed.
AddBootPeer(i, id) ==
  /\ conn' = [j \in Conn |->
       IF j = i THEN [conn[i] EXCEPT !.at = "read", !.id = id]
       ELSE IF j = listed[id] THEN [conn[j] EXCEPT !.open = FALSE]
       ELSE conn[j]]
  /\ listed' = [listed EXCEPT ![id] = i]

\* bootnode.ws.  When the identifier cannot be read any more, the error is
\* logged and a peer without identifier is listed.
BootWs(i) ==
  /\ conn[i].at = "sent"
  /\ \E id \in {conn[i].node} \cup (IF conn[i].open THEN {} ELSE {NoId}) :
       AddBootPeer(i, id)
  /\ UNCHANGED <<bootUp, linked>>

\* Faulty: removes whatever connection the identifier has.
RemovePeerAny(i) ==
  /\ listed' = [listed EXCEPT ![conn[i].id] = 0]
  /\ conn' = [conn EXCEPT ![i].at = "end", ![i].open = FALSE]

\* bootnode.removePeer: only the listed connection itself is removed.
RemovePeer(i) ==
  IF listed[conn[i].id] = i
  THEN /\ listed' = [listed EXCEPT ![conn[i].id] = 0]
       /\ conn' = [conn EXCEPT ![i].at = "end", ![i].open = FALSE]
  ELSE conn' = [conn EXCEPT ![i].at = "end"] /\ UNCHANGED listed

\* Faulty: the reader goes on after an error.
ReadingEndsStop(i) == ~bootUp

\* bootnode.loopread returns: the connection was closed at either side, or the
\* boot node is stopped.
ReadingEnds(i) == ~conn[i].open \/ ~bootUp

BootLeave(i) ==
  /\ conn[i].at = "read" /\ ReadingEnds(i)
  /\ RemovePeer(i)
  /\ UNCHANGED <<bootUp, linked>>

\* bootnode.Stop: every listed peer is closed, and the readers are told.
BootStop ==
  /\ bootUp
  /\ bootUp' = FALSE
  /\ conn' = [i \in Conn |-> IF \E id \in Id : listed[id] = i
                             THEN [conn[i] EXCEPT !.open = FALSE] ELSE conn[i]]
  /\ UNCHANGED <<linked, listed>>

BootNext ==
  \/ \E n \in Node : LinkerStart(n) \/ LinkerStop(n)
  \/ \E i \in Conn : BootWs(i) \/ BootLeave(i)
  \/ BootStop

\* The handlers of the boot node go on.
BootFairness ==
  \A i \in Conn : WF_bootVars(BootWs(i) \/ BootLeave(i))

-----------------------------------------------------------------------------

\* The variables have their types.
BootTypeOK ==
  /\ bootUp \in BOOLEAN
  /\ conn \in [Conn -> ConnType]
  /\ linked \in [Node -> 0 .. MaxStarts]
  /\ listed \in [Id -> 0 .. MaxStarts]

\* The boot node lists exactly the connections it still reads and has not
\* closed itself.  When a node comes back before the end of its old connection
\* is noticed, that end does not remove the new one, and while both are being
\* read only one of them is open.
BootListed ==
  \A i \in Conn :
    /\ conn[i].at = "read" /\ conn[i].open => listed[conn[i].id] = i
    /\ \A id \in Id : listed[id] = i => conn[i].at = "read" /\ conn[i].id = id

\* The boot node forgets: a connection that was closed, by its node, by a crash
\* or by the boot node, does not stay listed.
BootForgets ==
  \A i \in Conn :
    (conn[i].at # "none" /\ ~conn[i].open) ~>
      (\A id \in Id : listed[id] # i)

=============================================================================
