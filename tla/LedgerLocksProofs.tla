------------------------- MODULE LedgerLocksProofs -------------------------
(***************************************************************************)
(* Proofs about LedgerLocks, for any number of accounts, of goroutines     *)
(* that call the ledger and of workers.                                    *)
(***************************************************************************)
EXTENDS LedgerLocks, TLAPS

(***************************************************************************)
(* The inductive invariant.                                                *)
(***************************************************************************)
Func == {<<>>, LoopCheckCurrentInsert, SnapshotFork, MiningSnapshotBlock}
        \cup {TryInsert(a) : a \in Account} \cup {Compact(a) : a \in Account}
        \cup {AddDirectAccountBlock(a) : a \in Account}

LocksTypeOK ==
    /\ running \in [Goroutine -> Func] /\ held \in [Goroutine -> Nat]
    /\ leaving \in SUBSET Goroutine /\ waiting \in SUBSET Goroutine
    /\ readers \in SUBSET Goroutine /\ ahead \in SUBSET Goroutine
    /\ writer \in Goroutine \cup {None}
    /\ compacting \in [Account -> Goroutine \cup {None}]
    /\ inserting \in [Owner -> Goroutine \cup {None}]

\* The lock of a step belongs to g.  A writer that owns its lock no longer waits
\* for readers.
Owns(g, s) ==
    /\ s.op = "RLock" => g \in readers
    /\ s.op = "Lock" => writer = g /\ ahead = {}
    /\ s.op = "TryLock" => compacting[s.of] = g
    /\ s.op = "MuLock" => inserting[s.of] = g

\* A goroutine owns the locks of the steps it made.
StepsOwned ==
    \A g \in Goroutine :
        /\ held[g] <= Len(running[g])
        /\ \A i \in 1 .. held[g] : Owns(g, running[g][i])

\* No reader has come after an announced writer.
ReadersAhead == writer # None => readers \subseteq ahead

\* A goroutine that waits for its read lock stays where it is.
WaitingStays == \A g \in waiting : AtStep(g, "RLock")

LocksInv == LocksTypeOK /\ StepsOwned /\ ReadersAhead /\ WaitingStays

-----------------------------------------------------------------------------
(***************************************************************************)
(* The functions.                                                          *)
(***************************************************************************)
Op == {"RLock", "Lock", "TryLock", "MuLock"}

\* A function takes one lock of each kind at most.
OneOfEach(f) ==
    /\ Len(f) \in Nat
    /\ \A i \in 1 .. Len(f) :
          /\ f[i].op \in Op /\ f[i].of \in Owner
          /\ f[i].op = "TryLock" => f[i].of \in Account
          /\ \A j \in 1 .. Len(f) : j # i => f[j].op # f[i].op

LEMMA StepFields ==
    /\ RLock.op = "RLock" /\ RLock.of = Snapshot
    /\ Lock.op = "Lock" /\ Lock.of = Snapshot
    /\ \A a : TryLock(a).op = "TryLock" /\ TryLock(a).of = a
    /\ \A o : MuLock(o).op = "MuLock" /\ MuLock(o).of = o
  BY DEF RLock, Lock, TryLock, MuLock

LEMMA FuncSteps == ASSUME NEW f \in Func PROVE OneOfEach(f)
<1> USE DEF OneOfEach, Op, Owner
<1>1. CASE f = <<>>
  BY <1>1
<1>2. CASE f = LoopCheckCurrentInsert
  BY <1>2, StepFields DEF LoopCheckCurrentInsert
<1>3. CASE f = SnapshotFork
  BY <1>3, StepFields DEF SnapshotFork
<1>4. CASE f = MiningSnapshotBlock
  <2>1. Len(f) = 3 /\ f[1] = Lock /\ f[2] = RLock /\ f[3] = MuLock(Snapshot)
    BY <1>4 DEF MiningSnapshotBlock
  <2> QED
    BY <2>1, StepFields
<1>5. ASSUME NEW a \in Account, f = TryInsert(a) PROVE OneOfEach(f)
  <2>1. Len(f) = 3 /\ f[1] = TryLock(a) /\ f[2] = RLock /\ f[3] = MuLock(a)
    BY <1>5 DEF TryInsert
  <2> QED
    BY <2>1, StepFields
<1>6. ASSUME NEW a \in Account, f = Compact(a) PROVE OneOfEach(f)
  BY <1>6, StepFields DEF Compact
<1>7. ASSUME NEW a \in Account, f = AddDirectAccountBlock(a) PROVE OneOfEach(f)
  <2>1. Len(f) = 2 /\ f[1] = RLock /\ f[2] = MuLock(a)
    BY <1>7 DEF AddDirectAccountBlock
  <2> QED
    BY <2>1, StepFields
<1> QED
  BY <1>1, <1>2, <1>3, <1>4, <1>5, <1>6, <1>7 DEF Func

LEMMA CallsFuncs == ASSUME NEW g \in Goroutine PROVE Calls(g) \subseteq Func
  BY DEF Calls, Func, Goroutine

\* The step a goroutine is at, and the ones it made.
LEMMA AtSteps ==
  ASSUME LocksInv, NEW g \in Goroutine
  PROVE  /\ held[g] \in Nat /\ Len(running[g]) \in Nat /\ held[g] <= Len(running[g])
         /\ \A i \in 1 .. Len(running[g]) :
               /\ running[g][i].op \in Op /\ running[g][i].of \in Owner
               /\ running[g][i].op = "TryLock" => running[g][i].of \in Account
               /\ \A j \in 1 .. Len(running[g]) : j # i => running[g][j].op # running[g][i].op
         /\ \A i \in 1 .. held[g] : i \in 1 .. Len(running[g]) /\ Owns(g, running[g][i])
<1>1. held[g] \in Nat /\ running[g] \in Func
  BY DEF LocksInv, LocksTypeOK
<1>2. OneOfEach(running[g])
  BY <1>1, FuncSteps
<1>3. held[g] <= Len(running[g]) /\ \A i \in 1 .. held[g] : Owns(g, running[g][i])
  BY DEF LocksInv, StepsOwned
<1> QED
  BY <1>1, <1>2, <1>3 DEF OneOfEach

-----------------------------------------------------------------------------
(***************************************************************************)
(* Steps that take or give back the last lock of a goroutine.              *)
(***************************************************************************)
LEMMA TakenOwned ==
  ASSUME LocksInv, NEW g \in Goroutine, NEW k \in Nat, k = held[g] + 1,
         k <= Len(running[g]), Taken(g), UNCHANGED running,
         Owns(g, running[g][k])',
         \A h \in Goroutine : \A i \in 1 .. held[h] : Owns(h, running[h][i])'
  PROVE  StepsOwned' /\ held' \in [Goroutine -> Nat]
<1>1. held \in [Goroutine -> Nat] /\ held' = [held EXCEPT ![g] = k]
  BY DEF LocksInv, LocksTypeOK, Taken
<1>2. ASSUME NEW h \in Goroutine
      PROVE  held'[h] <= Len(running'[h]) /\ \A i \in 1 .. held'[h] : Owns(h, running[h][i])'
  <2>1. CASE h = g
    <3>1. held'[h] = k /\ held[g] \in Nat
      BY <1>1, <2>1
    <3>2. \A i \in 1 .. held'[h] : i \in 1 .. held[g] \/ i = k
      BY <3>1
    <3> QED
      BY <2>1, <3>1, <3>2
  <2>2. CASE h # g
    <3>1. held'[h] = held[h]
      BY <1>1, <2>2
    <3> QED
      BY <3>1, AtSteps
  <2> QED
    BY <2>1, <2>2
<1> QED
  BY <1>1, <1>2 DEF StepsOwned

LEMMA GivenOwned ==
  ASSUME LocksInv, NEW g \in Goroutine, held[g] > 0, Given(g), UNCHANGED running,
         \A h \in Goroutine : \A i \in 1 .. held[h] :
            h # g \/ i < held[h] => Owns(h, running[h][i])'
  PROVE  StepsOwned' /\ held' \in [Goroutine -> Nat]
<1>1. held \in [Goroutine -> Nat] /\ held' = [held EXCEPT ![g] = held[g] - 1]
  BY DEF LocksInv, LocksTypeOK, Given
<1>2. ASSUME NEW h \in Goroutine
      PROVE  held'[h] <= Len(running'[h]) /\ \A i \in 1 .. held'[h] : Owns(h, running[h][i])'
  <2>1. held[h] \in Nat /\ Len(running[h]) \in Nat /\ held[h] <= Len(running[h])
    BY AtSteps
  <2>2. CASE h = g
    <3>1. held'[h] = held[h] - 1
      BY <1>1, <2>2
    <3>2. \A i \in 1 .. held'[h] : i \in 1 .. held[h] /\ i < held[h]
      BY <2>1, <3>1
    <3> QED
      BY <2>1, <3>1, <3>2
  <2>3. CASE h # g
    <3>1. held'[h] = held[h]
      BY <1>1, <2>3
    <3> QED
      BY <2>1, <2>3, <3>1
  <2> QED
    BY <2>2, <2>3
<1> QED
  BY <1>1, <1>2 DEF StepsOwned

\* A goroutine that waits stays: the others move, or it would not wait.
LEMMA StillWaiting ==
  ASSUME LocksInv, NEW g \in Goroutine, g \notin waiting,
         waiting' \subseteq waiting,
         \A h \in Goroutine : h # g => /\ running'[h] = running[h] /\ held'[h] = held[h]
                                       /\ h \in leaving' => h \in leaving
  PROVE  WaitingStays'
  BY DEF LocksInv, LocksTypeOK, WaitingStays, AtStep

\* Only a goroutine that is at a read lock waits.
LEMMA NotWaiting ==
  ASSUME LocksInv, NEW g \in Goroutine
  PROVE  /\ g \in leaving \/ running[g] = <<>> \/ InBody(g) => g \notin waiting
         /\ \A op \in Op \ {"RLock"} : AtStep(g, op) => g \notin waiting
<1>1. g \in waiting => AtStep(g, "RLock")
  BY DEF LocksInv, WaitingStays
<1>2. held[g] \in Nat /\ Len(running[g]) \in Nat
  BY AtSteps
<1> QED
  BY <1>1, <1>2 DEF AtStep, InBody

-----------------------------------------------------------------------------
(***************************************************************************)
(* One lemma per group of actions.                                         *)
(***************************************************************************)
LEMMA LocksInit == Init => LocksInv
<1> SUFFICES ASSUME Init PROVE LocksInv
  OBVIOUS
<1>1. LocksTypeOK
  BY DEF Init, LocksTypeOK, Func
<1>2. StepsOwned
  BY DEF Init, StepsOwned
<1> QED
  BY <1>1, <1>2 DEF Init, LocksInv, ReadersAhead, WaitingStays

\* A function is entered, is done or returns early, and is left.
LEMMA CallSteps ==
  ASSUME LocksInv, NEW g \in Goroutine, Call(g) \/ Return(g) \/ Returned(g)
  PROVE  LocksInv'
<1>1. LocksTypeOK /\ UNCHANGED <<held, rwVars, compacting, inserting>>
  BY DEF LocksInv, Call, Return, Returned
<1>2. LocksTypeOK'
  BY <1>1, CallsFuncs DEF LocksTypeOK, Call, Return, Returned, rwVars, Func
<1>3. ReadersAhead'
  BY <1>1 DEF LocksInv, ReadersAhead, rwVars
<1>4. g \notin waiting
  BY NotWaiting DEF Call, Return, Returned, MayReturn
<1>5. \A h \in Goroutine : h # g => /\ running'[h] = running[h]
                                    /\ h \in leaving' => h \in leaving
  BY <1>1 DEF LocksTypeOK, Call, Return, Returned
<1>6. WaitingStays'
  BY <1>1, <1>4, <1>5, StillWaiting DEF rwVars
<1>7. \A h \in Goroutine : running'[h] # running[h] => held[h] = 0
  <2>1. running[g] = <<>> => held[g] = 0
    BY AtSteps
  <2> QED
    BY <1>1, <1>5, <2>1 DEF Call, Return, Returned
<1>8. StepsOwned'
  <2> SUFFICES ASSUME NEW h \in Goroutine
               PROVE  held[h] <= Len(running'[h])
                      /\ \A i \in 1 .. held[h] : Owns(h, running[h][i])'
    BY <1>1 DEF StepsOwned
  <2>1. held[h] \in Nat /\ held[h] <= Len(running[h])
        /\ \A i \in 1 .. held[h] : Owns(h, running[h][i])
    BY AtSteps
  <2>2. CASE running'[h] = running[h]
    BY <1>1, <2>1, <2>2 DEF Owns, rwVars
  <2>3. CASE running'[h] # running[h]
    <3>1. running'[h] \in Func /\ held[h] = 0
      BY <1>2, <1>7, <2>3 DEF LocksTypeOK
    <3>2. Len(running'[h]) \in Nat
      BY <3>1, FuncSteps DEF OneOfEach
    <3> QED
      BY <3>1, <3>2
  <2> QED
    BY <2>2, <2>3
<1> QED
  BY <1>2, <1>3, <1>6, <1>8 DEF LocksInv

\* What a goroutine at a lock step is about to take.
LEMMA Wants ==
  ASSUME LocksInv, NEW g \in Goroutine, NEW op \in Op, AtStep(g, op)
  PROVE  \E k \in Nat : /\ k = held[g] + 1 /\ k <= Len(running[g])
                        /\ running[g][k].op = op /\ running[g][k].of = Wanted(g)
                        /\ Wanted(g) \in Owner /\ (op = "TryLock" => Wanted(g) \in Account)
<1>1. held[g] + 1 \in Nat /\ held[g] + 1 \in 1 .. Len(running[g])
  BY AtSteps DEF AtStep
<1> QED
  BY <1>1, AtSteps DEF AtStep, Wanted

LEMMA TryLockKeeps == ASSUME LocksInv, NEW g \in Goroutine, TryLockStep(g) PROVE LocksInv'
<1> DEFINE a == Wanted(g)
<1>1. LocksTypeOK /\ AtStep(g, "TryLock") /\ UNCHANGED <<running, rwVars, inserting>>
  BY DEF LocksInv, TryLockStep
<1>2. PICK k \in Nat : /\ k = held[g] + 1 /\ k <= Len(running[g])
                       /\ running[g][k].op = "TryLock" /\ running[g][k].of = a
                       /\ a \in Account
  BY <1>1, Wants DEF Op
<1> HIDE DEF a
<1>3. g \notin waiting
  BY <1>1, NotWaiting DEF Op
<1>4. ReadersAhead'
  BY <1>1 DEF LocksInv, ReadersAhead, rwVars
<1>5. CASE compacting[a] # None
  <2>1. leaving' = leaving \cup {g} /\ UNCHANGED <<compacting, held>>
    BY <1>5 DEF TryLockStep, a
  <2>2. LocksTypeOK'
    BY <1>1, <2>1 DEF LocksTypeOK, rwVars
  <2>3. StepsOwned'
    BY <1>1, <2>1 DEF LocksInv, StepsOwned, Owns, rwVars
  <2>4. WaitingStays'
    BY <1>1, <1>3, <2>1, StillWaiting DEF rwVars
  <2> QED
    BY <1>4, <2>2, <2>3, <2>4 DEF LocksInv
<1>6. CASE compacting[a] = None
  <2>1. compacting' = [compacting EXCEPT ![a] = g] /\ Taken(g) /\ UNCHANGED leaving
    BY <1>6 DEF TryLockStep, a
  <2>2. compacting'[a] = g /\ \A b \in Account : b # a => compacting'[b] = compacting[b]
        /\ compacting' \in [Account -> Goroutine \cup {None}]
    BY <1>1, <1>2, <2>1 DEF LocksTypeOK
  <2>3. Owns(g, running[g][k])'
    BY <1>1, <1>2, <2>2 DEF Owns
  <2>4. ASSUME NEW h \in Goroutine, NEW i \in 1 .. held[h]
        PROVE  Owns(h, running[h][i])'
    <3>1. /\ Owns(h, running[h][i])
          /\ running[h][i].op = "TryLock" => running[h][i].of \in Account
      BY AtSteps
    <3>2. running[h][i].op = "TryLock" => running[h][i].of # a
      BY <1>6, <3>1, LocksAssumption DEF Owns
    <3> QED
      BY <1>1, <2>2, <3>1, <3>2 DEF Owns, rwVars
  <2>5. StepsOwned' /\ held' \in [Goroutine -> Nat]
    BY <1>1, <1>2, <2>1, <2>3, <2>4, TakenOwned
  <2>6. LocksTypeOK'
    BY <1>1, <2>1, <2>2, <2>5 DEF LocksTypeOK, rwVars
  <2>7. \A h \in Goroutine : h # g => held'[h] = held[h]
    BY <1>1, <2>1 DEF LocksTypeOK, Taken
  <2>8. WaitingStays'
    BY <1>1, <1>3, <2>1, <2>7, StillWaiting DEF rwVars
  <2> QED
    BY <1>4, <2>5, <2>6, <2>8 DEF LocksInv
<1> QED
  BY <1>5, <1>6

LEMMA MuLockKeeps == ASSUME LocksInv, NEW g \in Goroutine, MuLockStep(g) PROVE LocksInv'
<1> DEFINE o == Wanted(g)
<1>1. /\ LocksTypeOK /\ AtStep(g, "MuLock") /\ inserting[o] = None
      /\ inserting' = [inserting EXCEPT ![o] = g] /\ Taken(g)
      /\ UNCHANGED <<running, leaving, rwVars, compacting>>
  BY DEF LocksInv, MuLockStep
<1>2. PICK k \in Nat : /\ k = held[g] + 1 /\ k <= Len(running[g])
                       /\ running[g][k].op = "MuLock" /\ running[g][k].of = o
                       /\ o \in Owner
  BY <1>1, Wants DEF Op
<1> HIDE DEF o
<1>3. g \notin waiting
  BY <1>1, NotWaiting DEF Op
<1>4. ReadersAhead'
  BY <1>1 DEF LocksInv, ReadersAhead, rwVars
<1>5. inserting'[o] = g /\ \A b \in Owner : b # o => inserting'[b] = inserting[b]
      /\ inserting' \in [Owner -> Goroutine \cup {None}]
  BY <1>1, <1>2 DEF LocksTypeOK
<1>6. Owns(g, running[g][k])'
  BY <1>1, <1>2, <1>5 DEF Owns
<1>7. ASSUME NEW h \in Goroutine, NEW i \in 1 .. held[h]
      PROVE  Owns(h, running[h][i])'
  <2>1. Owns(h, running[h][i]) /\ running[h][i].of \in Owner
    BY AtSteps
  <2>2. running[h][i].op = "MuLock" => running[h][i].of # o
    BY <1>1, <2>1, LocksAssumption DEF Owns
  <2> QED
    BY <1>1, <1>5, <2>1, <2>2 DEF Owns, rwVars
<1>8. StepsOwned' /\ held' \in [Goroutine -> Nat]
  BY <1>1, <1>2, <1>6, <1>7, TakenOwned
<1>9. LocksTypeOK'
  BY <1>1, <1>5, <1>8 DEF LocksTypeOK, rwVars
<1>10. \A h \in Goroutine : h # g => held'[h] = held[h]
  BY <1>1 DEF LocksTypeOK, Taken
<1>11. WaitingStays'
  BY <1>1, <1>3, <1>10, StillWaiting DEF rwVars
<1> QED
  BY <1>4, <1>8, <1>9, <1>11 DEF LocksInv

LEMMA RLockKeeps == ASSUME LocksInv, NEW g \in Goroutine, RLockStep(g) PROVE LocksInv'
<1>1. /\ LocksTypeOK /\ AtStep(g, "RLock") /\ g \notin waiting
      /\ UNCHANGED <<running, leaving, writer, ahead, compacting, inserting>>
  BY DEF LocksInv, RLockStep
<1>2. PICK k \in Nat : /\ k = held[g] + 1 /\ k <= Len(running[g])
                       /\ running[g][k].op = "RLock"
  BY <1>1, Wants DEF Op
<1>3. CASE writer # None
  <2>1. waiting' = waiting \cup {g} /\ UNCHANGED <<readers, held>>
    BY <1>3 DEF RLockStep
  <2>2. LocksTypeOK' /\ ReadersAhead'
    BY <1>1, <2>1 DEF LocksInv, LocksTypeOK, ReadersAhead
  <2>3. StepsOwned'
    BY <1>1, <2>1 DEF LocksInv, StepsOwned, Owns
  <2>4. WaitingStays'
    BY <1>1, <2>1 DEF LocksInv, WaitingStays, AtStep
  <2> QED
    BY <2>2, <2>3, <2>4 DEF LocksInv
<1>4. CASE writer = None
  <2>1. readers' = readers \cup {g} /\ Taken(g) /\ UNCHANGED waiting
    BY <1>4 DEF RLockStep
  <2>2. Owns(g, running[g][k])'
    BY <1>1, <1>2, <2>1 DEF Owns
  <2>3. \A h \in Goroutine : \A i \in 1 .. held[h] : Owns(h, running[h][i])'
    BY <1>1, <2>1, AtSteps DEF Owns
  <2>4. StepsOwned' /\ held' \in [Goroutine -> Nat]
    BY <1>1, <1>2, <2>1, <2>2, <2>3, TakenOwned
  <2>5. LocksTypeOK' /\ ReadersAhead'
    BY <1>1, <1>4, <2>1, <2>4 DEF LocksTypeOK, ReadersAhead
  <2>6. \A h \in Goroutine : h # g => held'[h] = held[h]
    BY <1>1, <2>1 DEF LocksTypeOK, Taken
  <2>7. WaitingStays'
    BY <1>1, <2>1, <2>6, StillWaiting
  <2> QED
    BY <2>4, <2>5, <2>7 DEF LocksInv
<1> QED
  BY <1>3, <1>4

\* A writer announces itself, and enters when the readers are gone.
LEMMA LockKeeps ==
  ASSUME LocksInv, NEW g \in Goroutine, LockAnnounce(g) \/ LockEnter(g)
  PROVE  LocksInv'
<1>1. LocksTypeOK /\ AtStep(g, "Lock")
      /\ UNCHANGED <<running, leaving, readers, waiting, compacting, inserting>>
  BY DEF LocksInv, LockAnnounce, LockEnter, rwVars
<1>2. PICK k \in Nat : /\ k = held[g] + 1 /\ k <= Len(running[g])
                       /\ running[g][k].op = "Lock"
  BY <1>1, Wants DEF Op
<1>3. g \notin waiting
  BY <1>1, NotWaiting DEF Op
<1>4. CASE LockAnnounce(g)
  <2>1. writer = None /\ writer' = g /\ ahead' = readers /\ UNCHANGED held
    BY <1>4 DEF LockAnnounce
  <2>2. LocksTypeOK' /\ ReadersAhead'
    BY <1>1, <2>1 DEF LocksTypeOK, ReadersAhead
  <2>3. ASSUME NEW h \in Goroutine, NEW i \in 1 .. held[h] PROVE Owns(h, running[h][i])'
    <3>1. Owns(h, running[h][i]) /\ running[h][i].op # "Lock"
      BY <2>1, AtSteps, LocksAssumption DEF Owns
    <3> QED
      BY <1>1, <3>1 DEF Owns
  <2>4. StepsOwned'
    BY <1>1, <2>1, <2>3, AtSteps DEF StepsOwned
  <2>5. WaitingStays'
    BY <1>1, <2>1, <1>3, StillWaiting
  <2> QED
    BY <2>2, <2>4, <2>5 DEF LocksInv
<1>5. CASE LockEnter(g)
  <2>1. writer = g /\ ahead = {} /\ Taken(g) /\ UNCHANGED <<writer, ahead>>
    BY <1>5 DEF LockEnter, rwVars
  <2>2. Owns(g, running[g][k])'
    BY <1>1, <1>2, <2>1 DEF Owns
  <2>3. \A h \in Goroutine : \A i \in 1 .. held[h] : Owns(h, running[h][i])'
    BY <1>1, <2>1, AtSteps DEF Owns
  <2>4. StepsOwned' /\ held' \in [Goroutine -> Nat]
    BY <1>1, <1>2, <2>1, <2>2, <2>3, TakenOwned
  <2>5. LocksTypeOK' /\ ReadersAhead'
    BY <1>1, <2>1, <2>4 DEF LocksInv, LocksTypeOK, ReadersAhead
  <2>6. \A h \in Goroutine : h # g => held'[h] = held[h]
    BY <1>1, <2>1 DEF LocksTypeOK, Taken
  <2>7. WaitingStays'
    BY <1>1, <1>3, <2>1, <2>6, StillWaiting
  <2> QED
    BY <2>4, <2>5, <2>7 DEF LocksInv
<1> QED
  BY <1>4, <1>5

\* What a returning goroutine gives back next: it owns it, and needs it for no
\* earlier step.
LEMMA GivesBack ==
  ASSUME LocksInv, NEW g \in Goroutine, NEW op \in Op, LastStep(g, op)
  PROVE  /\ held[g] \in 1 .. Len(running[g]) /\ running[g][held[g]].op = op
         /\ Owned(g) \in Owner /\ (op = "TryLock" => Owned(g) \in Account)
         /\ Owns(g, running[g][held[g]]) /\ g \notin waiting
         /\ \A i \in 1 .. held[g] : i < held[g] => running[g][i].op # op
<1>1. held[g] \in Nat /\ held[g] > 0 /\ Len(running[g]) \in Nat /\ held[g] <= Len(running[g])
  BY AtSteps DEF LastStep
<1>2. held[g] \in 1 .. held[g] /\ held[g] \in 1 .. Len(running[g])
  BY <1>1
<1>3. g \notin waiting
  BY NotWaiting DEF LastStep
<1>4. ASSUME NEW i \in 1 .. held[g], i < held[g] PROVE running[g][i].op # op
  <2>1. i \in 1 .. Len(running[g]) /\ i # held[g]
    BY <1>1, <1>4
  <2> QED
    BY <1>2, <2>1, AtSteps DEF LastStep
<1> QED
  BY <1>2, <1>3, <1>4, AtSteps DEF LastStep, Owned

LEMMA RUnlockKeeps == ASSUME LocksInv, NEW g \in Goroutine, RUnlockStep(g) PROVE LocksInv'
<1>1. /\ LocksTypeOK /\ LastStep(g, "RLock")
      /\ readers' = readers \ {g} /\ ahead' = ahead \ {g} /\ Given(g)
      /\ UNCHANGED <<running, leaving, writer, waiting, compacting, inserting>>
  BY DEF LocksInv, RUnlockStep
<1>2. /\ held[g] > 0 /\ g \notin waiting
      /\ \A i \in 1 .. held[g] : i < held[g] => running[g][i].op # "RLock"
  BY <1>1, GivesBack DEF Op, LastStep
<1>3. ASSUME NEW h \in Goroutine, NEW i \in 1 .. held[h], h # g \/ i < held[h]
      PROVE  Owns(h, running[h][i])'
  <2>1. Owns(h, running[h][i])
    BY AtSteps
  <2>2. running[h][i].op = "RLock" => h # g
    BY <1>2, <1>3
  <2> QED
    BY <1>1, <2>1, <2>2 DEF Owns
<1>4. StepsOwned' /\ held' \in [Goroutine -> Nat]
  BY <1>1, <1>2, <1>3, GivenOwned
<1>5. LocksTypeOK' /\ ReadersAhead'
  BY <1>1, <1>4 DEF LocksInv, LocksTypeOK, ReadersAhead
<1>6. \A h \in Goroutine : h # g => held'[h] = held[h]
  BY <1>1 DEF LocksTypeOK, Given
<1>7. WaitingStays'
  BY <1>1, <1>2, <1>6, StillWaiting
<1> QED
  BY <1>4, <1>5, <1>7 DEF LocksInv

LEMMA MuUnlockKeeps == ASSUME LocksInv, NEW g \in Goroutine, MuUnlockStep(g) PROVE LocksInv'
<1> DEFINE o == Owned(g)
<1>1. /\ LocksTypeOK /\ LastStep(g, "MuLock")
      /\ inserting' = [inserting EXCEPT ![o] = None] /\ Given(g)
      /\ UNCHANGED <<running, leaving, rwVars, compacting>>
  BY DEF LocksInv, MuUnlockStep
<1>2. /\ held[g] > 0 /\ g \notin waiting /\ o \in Owner /\ inserting[o] = g
      /\ \A i \in 1 .. held[g] : i < held[g] => running[g][i].op # "MuLock"
  BY <1>1, GivesBack DEF Op, LastStep, Owns, Owned
<1> HIDE DEF o
<1>3. /\ inserting' \in [Owner -> Goroutine \cup {None}]
      /\ \A b \in Owner : b # o => inserting'[b] = inserting[b]
  BY <1>1, <1>2 DEF LocksTypeOK
<1>4. ASSUME NEW h \in Goroutine, NEW i \in 1 .. held[h], h # g \/ i < held[h]
      PROVE  Owns(h, running[h][i])'
  <2>1. Owns(h, running[h][i]) /\ running[h][i].of \in Owner
    BY AtSteps
  <2>2. running[h][i].op = "MuLock" => running[h][i].of # o
    BY <1>2, <1>4, <2>1 DEF Owns
  <2> QED
    BY <1>1, <1>3, <2>1, <2>2 DEF Owns, rwVars
<1>5. StepsOwned' /\ held' \in [Goroutine -> Nat]
  BY <1>1, <1>2, <1>4, GivenOwned
<1>6. LocksTypeOK' /\ ReadersAhead'
  BY <1>1, <1>3, <1>5 DEF LocksInv, LocksTypeOK, ReadersAhead, rwVars
<1>7. \A h \in Goroutine : h # g => held'[h] = held[h]
  BY <1>1 DEF LocksTypeOK, Given
<1>8. WaitingStays'
  BY <1>1, <1>2, <1>7, StillWaiting DEF rwVars
<1> QED
  BY <1>5, <1>6, <1>8 DEF LocksInv

LEMMA TryUnlockKeeps == ASSUME LocksInv, NEW g \in Goroutine, TryUnlockStep(g) PROVE LocksInv'
<1> DEFINE a == Owned(g)
<1>1. /\ LocksTypeOK /\ LastStep(g, "TryLock")
      /\ compacting' = [compacting EXCEPT ![a] = None] /\ Given(g)
      /\ UNCHANGED <<running, leaving, rwVars, inserting>>
  BY DEF LocksInv, TryUnlockStep
<1>2. /\ held[g] > 0 /\ g \notin waiting /\ a \in Account /\ compacting[a] = g
      /\ \A i \in 1 .. held[g] : i < held[g] => running[g][i].op # "TryLock"
  BY <1>1, GivesBack DEF Op, LastStep, Owns, Owned
<1> HIDE DEF a
<1>3. /\ compacting' \in [Account -> Goroutine \cup {None}]
      /\ \A b \in Account : b # a => compacting'[b] = compacting[b]
  BY <1>1, <1>2 DEF LocksTypeOK
<1>4. ASSUME NEW h \in Goroutine, NEW i \in 1 .. held[h], h # g \/ i < held[h]
      PROVE  Owns(h, running[h][i])'
  <2>1. /\ Owns(h, running[h][i])
        /\ running[h][i].op = "TryLock" => running[h][i].of \in Account
    BY AtSteps
  <2>2. running[h][i].op = "TryLock" => running[h][i].of # a
    BY <1>2, <1>4, <2>1 DEF Owns
  <2> QED
    BY <1>1, <1>3, <2>1, <2>2 DEF Owns, rwVars
<1>5. StepsOwned' /\ held' \in [Goroutine -> Nat]
  BY <1>1, <1>2, <1>4, GivenOwned
<1>6. LocksTypeOK' /\ ReadersAhead'
  BY <1>1, <1>3, <1>5 DEF LocksInv, LocksTypeOK, ReadersAhead, rwVars
<1>7. \A h \in Goroutine : h # g => held'[h] = held[h]
  BY <1>1 DEF LocksTypeOK, Given
<1>8. WaitingStays'
  BY <1>1, <1>2, <1>7, StillWaiting DEF rwVars
<1> QED
  BY <1>5, <1>6, <1>8 DEF LocksInv

\* The writer leaves; the readers that waited for it own their read locks.
LEMMA UnlockKeeps == ASSUME LocksInv, NEW g \in Goroutine, UnlockStep(g) PROVE LocksInv'
<1>1. /\ LocksTypeOK /\ LastStep(g, "Lock")
      /\ writer' = None /\ readers' = readers \cup waiting /\ waiting' = {}
      /\ UNCHANGED <<running, leaving, ahead, compacting, inserting>>
  BY DEF LocksInv, UnlockStep
<1>2. /\ held[g] > 0 /\ g \notin waiting /\ writer = g
      /\ \A i \in 1 .. held[g] : i < held[g] => running[g][i].op # "Lock"
  BY <1>1, GivesBack DEF Op, LastStep, Owns
<1>3. \A h \in Goroutine : held[h] \in Nat
  BY <1>1 DEF LocksTypeOK
<1>4. /\ held'[g] = held[g] - 1
      /\ \A h \in waiting : held'[h] = held[h] + 1
      /\ \A h \in Goroutine : h # g /\ h \notin waiting => held'[h] = held[h]
  BY <1>1, <1>2 DEF UnlockStep, LocksTypeOK
<1>5. held' \in [Goroutine -> Nat]
  <2>1. \A h \in Goroutine : held'[h] \in Nat
    BY <1>2, <1>3, <1>4
  <2> QED
    BY <2>1 DEF UnlockStep
<1>6. \A h \in waiting : h \in Goroutine /\ held[h] < Len(running[h])
                         /\ running[h][held[h] + 1].op = "RLock"
  BY <1>1 DEF LocksInv, LocksTypeOK, WaitingStays, AtStep
<1>7. ASSUME NEW h \in Goroutine, NEW i \in 1 .. held[h], h # g \/ i < held[h]
      PROVE  Owns(h, running[h][i])'
  <2>1. Owns(h, running[h][i])
    BY AtSteps
  <2>2. running[h][i].op # "Lock"
    BY <1>2, <1>7, <2>1 DEF Owns
  <2> QED
    BY <1>1, <2>1, <2>2 DEF Owns
<1>8. StepsOwned'
  <2> SUFFICES ASSUME NEW h \in Goroutine
               PROVE  held'[h] <= Len(running'[h])
                      /\ \A i \in 1 .. held'[h] : Owns(h, running[h][i])'
    BY DEF StepsOwned
  <2>1. held[h] \in Nat /\ Len(running[h]) \in Nat /\ held[h] <= Len(running[h])
    BY AtSteps
  <2>2. CASE h = g
    <3>1. \A i \in 1 .. held'[h] : i \in 1 .. held[h] /\ i < held[h]
      BY <1>4, <2>1, <2>2
    <3> QED
      BY <1>1, <1>4, <1>7, <2>1, <2>2, <3>1
  <2>3. CASE h \in waiting
    <3>1. h # g /\ held'[h] = held[h] + 1 /\ held[h] < Len(running[h])
      BY <1>2, <1>4, <1>6, <2>3
    <3>2. ASSUME NEW i \in 1 .. held'[h] PROVE Owns(h, running[h][i])'
      <4>1. CASE i \in 1 .. held[h]
        BY <1>7, <3>1, <4>1
      <4>2. CASE i = held[h] + 1
        BY <1>1, <1>6, <2>3, <4>2 DEF Owns
      <4> QED
        BY <2>1, <3>1, <4>1, <4>2
    <3> QED
      BY <1>1, <2>1, <3>1, <3>2
  <2>4. CASE h # g /\ h \notin waiting
    BY <1>1, <1>4, <1>7, <2>1, <2>4
  <2> QED
    BY <2>2, <2>3, <2>4
<1>9. LocksTypeOK'
  BY <1>1, <1>5 DEF LocksTypeOK
<1>10. ReadersAhead' /\ WaitingStays'
  BY <1>1 DEF ReadersAhead, WaitingStays
<1> QED
  BY <1>8, <1>9, <1>10 DEF LocksInv

LEMMA LocksNext == LocksInv /\ [Next]_vars => LocksInv'
<1> SUFFICES ASSUME LocksInv, [Next]_vars PROVE LocksInv'
  OBVIOUS
<1>1. CASE UNCHANGED vars
  BY <1>1 DEF vars, rwVars, LocksInv, LocksTypeOK, StepsOwned, ReadersAhead, WaitingStays,
              Owns, AtStep
<1>2. ASSUME NEW g \in Goroutine, Run(g) PROVE LocksInv'
  BY <1>2, CallSteps, TryLockKeeps, RLockKeeps, LockKeeps, RUnlockKeeps, UnlockKeeps,
     MuUnlockKeeps, TryUnlockKeeps DEF Run
<1> QED
  BY <1>1, <1>2, CallSteps, LockKeeps, MuLockKeeps DEF Next

-----------------------------------------------------------------------------
\* The locks of a function are all held in its body.
LEMMA BodyOwns ==
  ASSUME LocksInv, NEW g \in Goroutine, InBody(g)
  PROVE  \A i \in 1 .. Len(running[g]) : Owns(g, running[g][i])
  BY AtSteps DEF InBody

LEMMA Apart == LocksInv => BodiesApart
<1> SUFFICES ASSUME LocksInv, NEW g \in Goroutine, NEW h \in Goroutine,
                    g # h, InBody(g), InBody(h)
             PROVE  /\ running[g] = SnapshotFork => running[h] \in {Compact(a) : a \in Account}
                    /\ \A a \in Account :
                          /\ InsertsInto(g, a) => ~InsertsInto(h, a)
                          /\ running[g] = TryInsert(a) => running[h] # Compact(a)
  BY DEF BodiesApart
<1>1. ASSUME NEW a \in Account, NEW b \in Goroutine, InBody(b), InsertsInto(b, a)
      PROVE  inserting[a] = b
  <2>1. CASE running[b] = TryInsert(a)
    <3>1. 3 \in 1 .. Len(running[b]) /\ running[b][3] = MuLock(a)
      BY <2>1 DEF TryInsert
    <3> QED
      BY <1>1, <3>1, BodyOwns, StepFields DEF Owns
  <2>2. CASE running[b] = AddDirectAccountBlock(a)
    <3>1. 2 \in 1 .. Len(running[b]) /\ running[b][2] = MuLock(a)
      BY <2>2 DEF AddDirectAccountBlock
    <3> QED
      BY <1>1, <3>1, BodyOwns, StepFields DEF Owns
  <2> QED
    BY <1>1, <2>1, <2>2 DEF InsertsInto
<1>2. ASSUME NEW a \in Account, NEW b \in Goroutine, InBody(b),
             running[b] \in {TryInsert(a), Compact(a)}
      PROVE  compacting[a] = b
  <2>1. 1 \in 1 .. Len(running[b]) /\ running[b][1] = TryLock(a)
    BY <1>2 DEF TryInsert, Compact
  <2> QED
    BY <1>2, <2>1, BodyOwns, StepFields DEF Owns
<1>3. ASSUME running[g] = SnapshotFork PROVE running[h] \in {Compact(a) : a \in Account}
  <2>1. writer = g /\ ahead = {}
    <3>1. 1 \in 1 .. Len(running[g]) /\ running[g][1] = Lock
      BY <1>3 DEF SnapshotFork
    <3> QED
      BY <3>1, BodyOwns, StepFields DEF Owns
  <2>2. readers = {}
    BY <2>1, LocksAssumption DEF LocksInv, ReadersAhead
  <2>3. \A i \in 1 .. Len(running[h]) : running[h][i] # RLock /\ running[h][i] # Lock
    BY <2>1, <2>2, BodyOwns, StepFields DEF Owns
  <2>4. running[h] # LoopCheckCurrentInsert /\ running[h] # SnapshotFork
    <3>1. Len(LoopCheckCurrentInsert) = 1 /\ LoopCheckCurrentInsert[1] = RLock
      BY DEF LoopCheckCurrentInsert
    <3>2. Len(SnapshotFork) = 1 /\ SnapshotFork[1] = Lock
      BY DEF SnapshotFork
    <3>3. 1 \in 1 .. 1
      OBVIOUS
    <3>4. running[h] # LoopCheckCurrentInsert
      BY <2>3, <3>1, <3>3
    <3>5. running[h] # SnapshotFork
      BY <2>3, <3>2, <3>3
    <3> QED
      BY <3>4, <3>5
  <2>5. running[h] # MiningSnapshotBlock
    <3>1. Len(MiningSnapshotBlock) = 3 /\ MiningSnapshotBlock[1] = Lock
      BY DEF MiningSnapshotBlock
    <3>2. 1 \in 1 .. 3
      OBVIOUS
    <3> QED
      BY <2>3, <3>1, <3>2
  <2>6. ASSUME NEW a \in Account PROVE running[h] \notin {TryInsert(a), AddDirectAccountBlock(a)}
    <3>1. Len(TryInsert(a)) = 3 /\ TryInsert(a)[2] = RLock
      BY DEF TryInsert
    <3>2. Len(AddDirectAccountBlock(a)) = 2 /\ AddDirectAccountBlock(a)[1] = RLock
      BY DEF AddDirectAccountBlock
    <3>3. 2 \in 1 .. 3 /\ 1 \in 1 .. 2
      OBVIOUS
    <3>4. running[h] # TryInsert(a)
      BY <2>3, <3>1, <3>3
    <3>5. running[h] # AddDirectAccountBlock(a)
      BY <2>3, <3>2, <3>3
    <3> QED
      BY <3>4, <3>5
  <2>7. running[h] \in Func /\ running[h] # <<>>
    BY DEF LocksInv, LocksTypeOK, InBody
  <2> QED
    BY <2>4, <2>5, <2>6, <2>7 DEF Func
<1> QED
  BY <1>1, <1>2, <1>3

\* For any number of accounts and goroutines, and although RWMutex.Unlock lets in
\* the readers that waited and functions return early: a fork of the snapshot
\* chain (snapshotFork, under rwMu.Lock) runs while nobody inserts,
\* an account chain has one inserter at a time (rMu), and tryInsert and Compact
\* of one account exclude each other (compactLock).
THEOREM LocksKeepApart == Spec => []BodiesApart
  BY LocksInit, LocksNext, Apart, PTL DEF Spec

=============================================================================
