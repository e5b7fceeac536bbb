------------------------------- MODULE MCLinks -------------------------------
(***************************************************************************)
(* The links of two nodes, and the boot node.  The two share no state: a   *)
(* node dials whomever an answer of the boot node may name, and the boot   *)
(* node serves linkers that come and go in any way.  So they are explored  *)
(* one beside the other and not in every combination of their states.      *)
(***************************************************************************)
EXTENDS PeerLink

VARIABLE part    \* the component this behaviour is about

MCNetId == [n \in Node |-> 1]

MCInit == Init /\ BootInit /\ part \in {"links", "boot"}

MCNext ==
  \/ part = "links" /\ Next /\ UNCHANGED <<part, bootVars>>
  \/ part = "boot" /\ BootNext /\ UNCHANGED <<part, vars>>

MCSpec ==
  MCInit /\ [][MCNext]_<<part, vars, bootVars>> /\ Fairness /\ BootFairness

=============================================================================
