------------------------------ MODULE MCLedger ------------------------------
(***************************************************************************)
(* Instances of Ledger.  Account A has money at genesis, account F is new. *)
(* A sends to F twice (s1, s2); x1 is another first block of A.  F         *)
(* receives s1 with its first block, s2 with its second, and d2 receives   *)
(* s2 once more.                                                           *)
(***************************************************************************)
EXTENDS Ledger

Blk(h, pre, a, type, amount, modified, snapshot, source) ==
    [height |-> h, preHash |-> pre, signer |-> a, blockType |-> type, to |-> "F",
     amount |-> amount, modified |-> modified, snapshot |-> snapshot, source |-> source]

MCBody ==
    [b \in ABlock |->
        CASE b = "a0" -> Blk(0, Nil, "A", "GENESIS", 4, 0, "S0", Nil)
          [] b = "s1" -> Blk(1, "a0", "A", "SEND", 3, -1, "S0", Nil)
          [] b = "x1" -> Blk(1, "a0", "A", "SEND", 3, -1, "S0", Nil)
          [] b = "s2" -> Blk(2, "s1", "A", "SEND", 2, -1, "S0", Nil)
          [] b = "r1" -> Blk(0, Nil, "F", "RECEIVED", 1, 1, "S0", "s1")
          [] b = "r2" -> Blk(1, "r1", "F", "RECEIVED", 2, 1, "S1", "s2")
          [] b = "d2" -> Blk(2, "r2", "F", "RECEIVED", 3, 1, "S1", "s2")
          [] b = "d1" -> Blk(1, "r1", "F", "RECEIVED", 2, 1, "S0", "s1")]

MCGenesisOf == [a \in Account |-> IF a = "A" THEN "a0" ELSE Nil]

At(a, b) == [addr |-> a, block |-> b]
MCSBody ==
    [s \in SBlock |->
        CASE s = "S0" -> [height |-> 0, accounts |-> <<At("A", "a0")>>]
          [] s = "S1" -> [height |-> 1, accounts |-> <<At("A", "s1"), At("F", "r1")>>]
          [] s = "S2" -> [height |-> 2, accounts |-> <<At("A", "s2")>>]
          [] s = "U2" -> [height |-> 2, accounts |-> <<At("F", "r2")>>]
          [] s = "T1" -> [height |-> 1, accounts |-> <<At("A", "x1")>>]]

MCBranch == <<<<"S1", "S2">>, <<"T1">>, <<"S1", "U2">>>>
\* No snapshot block but genesis.
MCNoBranch == <<<<>>>>
=============================================================================
