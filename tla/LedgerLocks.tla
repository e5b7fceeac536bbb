---------------------------- MODULE LedgerLocks ----------------------------
(***************************************************************************)
(* The locks that the goroutines around the ledger take, and in which      *)
(* order.  One sync.RWMutex, made by NewLedger, is shared by the ledger,   *)
(* the snapshot pool and every account pool; each account pool has a       *)
(* NonBlockLock (compactLock) and each pool a mutex (rMu).                 *)
(*                                                                         *)
(* Every function takes its locks one after the other and gives them back  *)
(* in the reverse order when it returns (defer).  A function is therefore  *)
(* a sequence of lock steps, its body runs when all of them are held, and  *)
(* the goroutines differ only in the functions they call.                  *)
(***************************************************************************)
EXTENDS Naturals, Sequences

CONSTANTS
    Account,   \* the addresses that have an account pool
    Caller,    \* goroutines that send or receive money through the ledger
    Miner,     \* the worker's goroutine: at most one
    Snapshot,  \* the snapshot pool, as the owner of an rMu
    None       \* no goroutine

Goroutine == {"loop", "loopCheckFork", "loopTryInsert", "loopCompact"}
             \cup Caller \cup Miner

ASSUME LocksAssumption == Snapshot \notin Account /\ None \notin Goroutine

Owner == Account \cup {Snapshot}

-----------------------------------------------------------------------------
(***************************************************************************)
(* The functions, as the locks they take.                                  *)
(***************************************************************************)
RLock == [op |-> "RLock", of |-> Snapshot]
Lock == [op |-> "Lock", of |-> Snapshot]
TryLock(a) == [op |-> "TryLock", of |-> a]
MuLock(o) == [op |-> "MuLock", of |-> o]

LoopCheckCurrentInsert == <<RLock>>
SnapshotFork == <<Lock>>

\* Faulty: the compaction in progress is not looked at.
TryInsertAnyway(a) == <<RLock, MuLock(a)>>

TryInsert(a) == <<TryLock(a), RLock, MuLock(a)>>
Compact(a) == <<TryLock(a)>>

\* Faulty: the read lock is taken again further down.
AddDirectTwice(a) == <<RLock, RLock, MuLock(a)>>

AddDirectAccountBlock(a) == <<RLock, MuLock(a)>>
\* AddDirectSnapshotBlock takes the read lock under MiningSnapshotBlock's own
\* write lock.
MiningSnapshotBlock == <<Lock, RLock, MuLock(Snapshot)>>

Calls(g) ==
    CASE g = "loop"          -> {LoopCheckCurrentInsert}
      [] g = "loopCheckFork" -> {SnapshotFork}
      [] g = "loopTryInsert" -> {TryInsert(a) : a \in Account}
      [] g = "loopCompact"   -> {Compact(a) : a \in Account}
      [] g \in Caller        -> {AddDirectAccountBlock(a) : a \in Account}
      [] g \in Miner         -> {MiningSnapshotBlock}

-----------------------------------------------------------------------------
VARIABLES
    running,   \* running[g]: the function g is in, <<>> when in none
    held,      \* held[g]: how many of its locks g holds
    leaving,   \* the goroutines that are returning
    \* sync.RWMutex
    writer,    \* who holds its inner mutex: a writer, announced or active
    readers,   \* the read locks held
    waiting,   \* readers that came after the announcement
    ahead,     \* readers that the announced writer still waits for
    \* the other locks
    compacting,  \* compactLock: who holds it
    inserting    \* rMu: who holds it

rwVars == <<writer, readers, waiting, ahead>>
vars == <<running, held, leaving, rwVars, compacting, inserting>>

Init ==
    /\ running = [g \in Goroutine |-> <<>>]
    /\ held = [g \in Goroutine |-> 0]
    /\ leaving = {}
    /\ writer = None /\ readers = {} /\ waiting = {} /\ ahead = {}
    /\ compacting = [a \in Account |-> None]
    /\ inserting = [o \in Owner |-> None]

\* The lock step that g is at, and the last one it made.
AtStep(g, op) == /\ running[g] # <<>> /\ g \notin leaving
                 /\ held[g] < Len(running[g])
                 /\ running[g][held[g] + 1].op = op
Wanted(g) == running[g][held[g] + 1].of
LastStep(g, op) == /\ g \in leaving
                   /\ held[g] > 0
                   /\ running[g][held[g]].op = op
Owned(g) == running[g][held[g]].of

Taken(g) == held' = [held EXCEPT ![g] = @ + 1]
Given(g) == held' = [held EXCEPT ![g] = @ - 1]

Call(g) ==
    /\ running[g] = <<>>
    /\ \E f \in Calls(g) : running' = [running EXCEPT ![g] = f]
    /\ UNCHANGED <<held, leaving, rwVars, compacting, inserting>>

\* NonBlockLock.TryLock: the function returns when the lock is taken.
TryLockStep(g) ==
    /\ AtStep(g, "TryLock")
    /\ IF compacting[Wanted(g)] = None
       THEN /\ compacting' = [compacting EXCEPT ![Wanted(g)] = g]
            /\ Taken(g)
            /\ UNCHANGED leaving
       ELSE /\ leaving' = leaving \cup {g}
            /\ UNCHANGED <<compacting, held>>
    /\ UNCHANGED <<running, rwVars, inserting>>

\* RWMutex.RLock: behind a writer that has announced itself, g waits.
RLockStep(g) ==
    /\ AtStep(g, "RLock") /\ g \notin waiting
    /\ IF writer = None
       THEN /\ readers' = readers \cup {g}
            /\ Taken(g)
            /\ UNCHANGED waiting
       ELSE /\ waiting' = waiting \cup {g}
            /\ UNCHANGED <<readers, held>>
    /\ UNCHANGED <<running, leaving, writer, ahead, compacting, inserting>>

\* RWMutex.Lock: the writers exclude each other, then the writer announces
\* itself and waits for the readers that are there.
LockAnnounce(g) ==
    /\ AtStep(g, "Lock") /\ writer = None
    /\ writer' = g
    /\ ahead' = readers
    /\ UNCHANGED <<running, held, leaving, readers, waiting, compacting, inserting>>

LockEnter(g) ==
    /\ AtStep(g, "Lock") /\ writer = g /\ ahead = {}
    /\ Taken(g)
    /\ UNCHANGED <<running, leaving, rwVars, compacting, inserting>>

MuLockStep(g) ==
    /\ AtStep(g, "MuLock") /\ inserting[Wanted(g)] = None
    /\ inserting' = [inserting EXCEPT ![Wanted(g)] = g]
    /\ Taken(g)
    /\ UNCHANGED <<running, leaving, rwVars, compacting>>

InBody(g) == running[g] # <<>> /\ g \notin leaving /\ held[g] = Len(running[g])

\* Functions that return with some of their locks: TryInsert when the last
\* verification is not done, MiningSnapshotBlock when there is no next account
\* snapshot.
MayReturn(g) == /\ g \notin leaving
                /\ held[g] = 1
                /\ running[g] \in {TryInsert(a) : a \in Account} \cup {MiningSnapshotBlock}
                /\ g \notin waiting

\* The body is done, or the function returns early.
Return(g) ==
    /\ InBody(g) \/ MayReturn(g)
    /\ leaving' = leaving \cup {g}
    /\ UNCHANGED <<running, held, rwVars, compacting, inserting>>

RUnlockStep(g) ==
    /\ LastStep(g, "RLock")
    /\ readers' = readers \ {g}
    /\ ahead' = ahead \ {g}
    /\ Given(g)
    /\ UNCHANGED <<running, leaving, writer, waiting, compacting, inserting>>

\* RWMutex.Unlock: the readers that waited are let in before another writer.
UnlockStep(g) ==
    /\ LastStep(g, "Lock")
    /\ writer' = None
    /\ readers' = readers \cup waiting
    /\ waiting' = {}
    /\ held' = [h \in Goroutine |-> IF h = g THEN held[h] - 1
                                    ELSE IF h \in waiting THEN held[h] + 1
                                    ELSE held[h]]
    /\ UNCHANGED <<running, leaving, ahead, compacting, inserting>>

MuUnlockStep(g) ==
    /\ LastStep(g, "MuLock")
    /\ inserting' = [inserting EXCEPT ![Owned(g)] = None]
    /\ Given(g)
    /\ UNCHANGED <<running, leaving, rwVars, compacting>>

TryUnlockStep(g) ==
    /\ LastStep(g, "TryLock")
    /\ compacting' = [compacting EXCEPT ![Owned(g)] = None]
    /\ Given(g)
    /\ UNCHANGED <<running, leaving, rwVars, inserting>>

Returned(g) ==
    /\ g \in leaving /\ held[g] = 0
    /\ running' = [running EXCEPT ![g] = <<>>]
    /\ leaving' = leaving \ {g}
    /\ UNCHANGED <<held, rwVars, compacting, inserting>>

\* What g does without waiting for another goroutine.
Run(g) == \/ TryLockStep(g) \/ RLockStep(g) \/ LockEnter(g) \/ Return(g)
          \/ RUnlockStep(g) \/ UnlockStep(g) \/ MuUnlockStep(g) \/ TryUnlockStep(g)
          \/ Returned(g)

Next == \E g \in Goroutine : Call(g) \/ Run(g) \/ LockAnnounce(g) \/ MuLockStep(g)

Spec == Init /\ [][Next]_vars

(***************************************************************************)
(* A goroutine that can run does.  A sync.Mutex (rMu, and the one inside   *)
(* RWMutex) hands itself to a waiter it has kept waiting for 1 ms, so that *)
(* nobody who asks again and again is passed over for ever.                *)
(***************************************************************************)
FairSpec ==
    /\ Spec
    /\ \A g \in Goroutine : WF_vars(Run(g))
    /\ \A g \in {"loopCheckFork"} \cup Miner : SF_vars(LockAnnounce(g))
    /\ \A g \in {"loopTryInsert"} \cup Caller : SF_vars(MuLockStep(g))

-----------------------------------------------------------------------------
InsertsInto(g, a) == running[g] \in {TryInsert(a), AddDirectAccountBlock(a)}

\* The bodies that the locks keep apart.  A fork of the snapshot chain runs
\* while nobody inserts, into the snapshot chain or an account chain; an
\* account chain has one inserter at a time, from the network or from the
\* ledger; and an account pool's chains are not compacted while tryInsert
\* walks the current one.
BodiesApart ==
    \A g, h \in Goroutine : g # h /\ InBody(g) /\ InBody(h) =>
        /\ running[g] = SnapshotFork => running[h] \in {Compact(a) : a \in Account}
        /\ \A a \in Account :
              /\ InsertsInto(g, a) => ~InsertsInto(h, a)
              /\ running[g] = TryInsert(a) => running[h] # Compact(a)

\* Every function that is called returns: no order of lock steps makes
\* goroutines wait for each other, and neither the fork nor an insertion is
\* kept out for ever by the others.
EveryCallReturns == \A g \in Goroutine : running[g] # <<>> ~> running[g] = <<>>

\* The worker inserts the snapshot blocks it is told to make: a call of
\* MiningSnapshotBlock returns.
MiningReturns == \A g \in Miner : running[g] # <<>> ~> running[g] = <<>>
=============================================================================
