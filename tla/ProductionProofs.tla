-------------------------- MODULE ProductionProofs --------------------------
(***************************************************************************)
(* Proofs about Production, for any committee, any number of workers and   *)
(* any number of calls, peers and blocks; and about the node that produces *)
(* and fetches.                                                            *)
(***************************************************************************)
EXTENDS MCProduction, FetchProofs

ProdSpec == ProdInit /\ [][ProdNext]_allVars

\* Production and fetching share no variable.
NodeSpec == ProdSpec /\ FetchSpec

(***************************************************************************)
(* Why a slot is served once: the committee gives it out in the round it   *)
(* belongs to, and goes on to a later round.                               *)
(***************************************************************************)
Mining(w, s) == worker[w].at = "mining" /\ worker[w].slot = s

\* A block for s was made, or is being made.
Served(s) == mined[s] > 0 \/ \E w \in Worker : Mining(w, s)

\* The committee will not give out a slot of round i again.
Past(i) == i <= lastIndex \/ (committee.at = "rest" /\ i <= committee.index)

SlotInv ==
  /\ committee.at \in {"notify", "rest"} => committee.index > lastIndex
  /\ committee.at = "notify" => committee.slot \in Plans(committee.index, Coinbase)
  /\ \A s \in Slot : Served(s) => VerifyProducer(Coinbase, s) /\ Past(time2Index(s))
  /\ \A s \in Slot : mined[s] \in {0, 1}
  /\ \A s \in Slot, v \in Worker : Mining(v, s) =>
       mined[s] = 0 /\ \A w \in Worker : Mining(w, s) => w = v

(***************************************************************************)
(* Why a miner is subscribed: the handler of DwlDone is registered before  *)
(* the event, and after the event the task is marked done.                 *)
(***************************************************************************)
SubscribeInv ==
  /\ at = "publish" \/ published => done
  /\ minerStatus # 0 /\ ~published => once
  /\ call \in {"start2", "start3", "stop2", "node stop2"} => minerStatus # 0
  /\ published /\ (call = "start3" \/ minerStatus = 4) => subscribed

(***************************************************************************)
(* Why the task is closed once: without a timeout firstSyncDone is called  *)
(* from the end of syncFirst only.                                         *)
(***************************************************************************)
DoneInv ==
  ~timedOut =>
    /\ at \in {"close", "mark", "publish"} => after = "end"
    /\ taClosed => at \in {"mark", "publish", "end"}
    /\ at # "panic"

ProdInv == ProdTypeOK /\ SlotInv /\ SubscribeInv /\ DoneInv

-----------------------------------------------------------------------------
(***************************************************************************)
(* Rounds and slots.                                                       *)
(***************************************************************************)
LEMMA Bounded ==
  /\ MemberCnt \in Nat /\ MemberCnt > 0 /\ Len(Member) = MemberCnt
  /\ MaxTime \in Nat /\ MaxCalls \in Nat /\ MaxHeight \in Nat
  /\ Slot = 0 .. (MaxTime + MemberCnt)
BY MemberAssumption, SyncAssumption DEF Slot

\* The round of a time is no later than the time.
LEMMA RoundOf == ASSUME NEW t \in 0 .. MaxTime PROVE time2Index(t) \in 0 .. MaxTime
<1>1. \A m \in Nat \ {0} : t \div m \in Nat /\ t \div m <= t
  OBVIOUS
<1> QED
  BY <1>1, Bounded DEF time2Index

\* A slot belongs to the round it is given out in.
LEMMA SlotOfRound ==
  ASSUME NEW i \in Nat, NEW m, NEW s \in Plans(i, m)
  PROVE  time2Index(s) = i /\ VerifyProducer(m, s)
<1>1. PICK j \in 1 .. MemberCnt : s = i * MemberCnt + (j - 1)
  BY Bounded DEF Plans, PlanTime
<1>2. \A c \in Nat \ {0} : \A r \in 0 .. (c - 1) : (i * c + r) \div c = i
  OBVIOUS
<1>3. time2Index(s) = i
  BY <1>1, <1>2, Bounded DEF time2Index
<1> QED
  BY <1>3 DEF VerifyProducer

\* The slots of the round of a time are near that time.
LEMMA SlotBound ==
  ASSUME NEW t \in 0 .. MaxTime, NEW m, NEW s \in Plans(time2Index(t), m)
  PROVE  s \in Slot
<1>1. PICK j \in 1 .. MemberCnt : s = time2Index(t) * MemberCnt + (j - 1)
  BY Bounded DEF Plans, PlanTime
<1>2. \A c \in Nat \ {0} : (t \div c) * c \in Nat /\ (t \div c) * c <= t
  OBVIOUS
<1>3. time2Index(t) * MemberCnt \in 0 .. MaxTime
  BY <1>2, Bounded DEF time2Index
<1> QED
  BY <1>1, <1>3, Bounded

-----------------------------------------------------------------------------
(***************************************************************************)
(* Types.                                                                  *)
(***************************************************************************)
SyncType ==
  /\ at \in Waiting \cup {"ask", "close", "mark", "publish", "end", "panic"}
  /\ after \in Waiting \cup {"end"}
  /\ {timedOut, taClosed, done, published, syncClosed} \subseteq BOOLEAN
  /\ peerHeight \in [Peer -> Height \cup {NoPeer}]
  /\ {taHeight, head, top} \subseteq Height

CommitteeType == [at : {"elect", "nap", "notify", "rest", "end"},
                  index : 0 .. MaxTime, slot : Slot]
WorkerType == [at : {"none", "new", "idle", "mining", "inserting"},
               slot : Slot, told : BOOLEAN]

OwnType ==
  /\ now \in 0 .. MaxTime /\ lastIndex \in -1 .. MaxTime
  /\ {subscribed, conStopped, once} \subseteq BOOLEAN
  /\ committee \in CommitteeType
  /\ minerStatus \in MinerStatus
  /\ worker \in [Worker -> WorkerType]
  /\ updateCh \in Worker \cup {0} /\ calls \in 0 .. MaxCalls
  /\ mined \in [Slot -> 0 .. 2]

LEMMA TypeParts == ProdTypeOK <=> SyncType /\ OwnType
BY DEF ProdTypeOK, SyncType, OwnType, CommitteeType, WorkerType

LEMMA SyncTypeStep == ASSUME SyncType, [ProdNext]_allVars PROVE SyncType'
<1> USE DEF task, world
<1>1. CASE UNCHANGED syncVars
  BY <1>1 DEF SyncType, syncVars
<1>2. ASSUME NEW p \in Peer, PeerState(p) PROVE SyncType'
  <2>1. \A h \in 0 .. top : h \in Height
    BY Bounded DEF SyncType, Height
  <2> QED
    BY <1>2, <2>1 DEF PeerState, SyncType
<1>3. ASSUME NEW p \in Peer, PeerGone(p) PROVE SyncType'
  BY <1>3 DEF PeerGone, SyncType
<1>4. CASE ChainGrows
  BY <1>4, Bounded DEF ChainGrows, SyncType, Height
<1>5. CASE NetworkGrows
  BY <1>5, Bounded DEF NetworkGrows, SyncType, Height
<1>6. CASE SyncTimeout
  BY <1>6 DEF SyncTimeout, SyncType, CallDone, Waiting
<1>7. CASE FindPeer
  BY <1>7 DEF FindPeer, SyncType
<1>8. CASE AskPeer
  BY <1>8 DEF AskPeer, SyncType, CallDone, Waiting
<1>9. CASE Reached
  BY <1>9 DEF Reached, SyncType, CallDone, Waiting
<1>10. CASE SyncReturns
  BY <1>10 DEF SyncReturns, SyncType, Waiting
<1>11. CASE CloseTask
  BY <1>11 DEF CloseTask, SyncType, DoneNext
<1>12. CASE MarkDone
  BY <1>12 DEF MarkDone, SyncType, DoneNext
<1>13. CASE PublishDone
  BY <1>13 DEF PublishDone, SyncType, DoneNext
<1>14. CASE StopRest
  BY <1>14 DEF StopRest, SyncType
<1>15. CASE Sync
  BY <1>15, <1>2, <1>3, <1>4, <1>5, <1>6, <1>7, <1>8, <1>9, <1>10, <1>11, <1>12
     DEF Sync, SyncStep, SyncWorld
<1>16. CASE Elect \/ NotifyTimeout \/ Wake \/ \E w \in Worker : Notify(w)
  BY <1>1, <1>16 DEF Elect, NotifyTimeout, Wake, Notify, committeeOnly
<1>17. CASE \E w \in Worker : WorkerStep(w) \/ Inserted(w)
  BY <1>1, <1>17 DEF WorkerStep, WorkerBegins, Mine, Inserted, WorkerEnds, workerOnly
<1>18. CASE CallStep
  BY <1>1, <1>14, <1>18 DEF CallStep, StartInit, StartSubscribe, StartWorker,
     StopTell, StopWait, StopNothing, StopDone
<1>19. CASE Clock \/ \E c \in {"start", "stop", "node stop"} : Begin(c)
  BY <1>1, <1>19 DEF Clock, Begin
<1>20. CASE UNCHANGED allVars
  BY <1>1, <1>20 DEF allVars
<1> QED
  BY <1>13, <1>15, <1>16, <1>17, <1>18, <1>19, <1>20 DEF ProdNext, DwlDone

\* The records a step writes have their types.
LEMMA NewCommittee ==
  ASSUME NEW a \in {"elect", "nap", "notify", "rest", "end"},
         NEW i \in 0 .. MaxTime, NEW s \in Slot
  PROVE  [at |-> a, index |-> i, slot |-> s] \in CommitteeType
BY DEF CommitteeType

LEMMA ToldWorker ==
  ASSUME NEW w \in WorkerType
  PROVE  LET v == [w EXCEPT !.told = TRUE]
         IN  v \in WorkerType /\ v.at = w.at /\ v.slot = w.slot
BY DEF WorkerType

(***************************************************************************)
(* What a step makes of the worker goroutines: at most one changes.        *)
(***************************************************************************)
OneWorker(w, a, s) ==
  /\ worker' \in [Worker -> WorkerType]
  /\ worker'[w].at = a /\ worker'[w].slot = s
  /\ \A v \in Worker : v # w => worker'[v].at = worker[v].at /\ worker'[v].slot = worker[v].slot

LEMMA WorkerMoves ==
  ASSUME OwnType, NEW w \in Worker, NEW a \in {"none", "new", "idle", "mining", "inserting"}, NEW s \in Slot
  PROVE  /\ worker' = [worker EXCEPT ![w].at = a] => OneWorker(w, a, worker[w].slot)
         /\ worker' = [worker EXCEPT ![w].at = a, ![w].slot = s] => OneWorker(w, a, s)
         /\ worker' = [worker EXCEPT ![w] = [at |-> a, slot |-> s, told |-> FALSE]]
              => OneWorker(w, a, s)
<1>1. worker \in [Worker -> WorkerType] /\ worker[w] \in WorkerType
  BY DEF OwnType
<1> USE DEF OneWorker
<1>2. ASSUME NEW e \in WorkerType, worker' = [worker EXCEPT ![w] = e]
      PROVE  OneWorker(w, e.at, e.slot)
  BY <1>1, <1>2
<1>3. ASSUME worker' = [worker EXCEPT ![w].at = a] PROVE OneWorker(w, a, worker[w].slot)
  <2> DEFINE e == [worker[w] EXCEPT !.at = a]
  <2>1. e \in WorkerType /\ e.at = a /\ e.slot = worker[w].slot
    BY <1>1 DEF WorkerType
  <2>2. worker' = [worker EXCEPT ![w] = e]
    BY <1>1, <1>3
  <2> HIDE DEF e, OneWorker
  <2>3. OneWorker(w, e.at, e.slot)
    BY <1>2, <2>1, <2>2
  <2> QED
    BY <2>1, <2>3
<1>4. ASSUME worker' = [worker EXCEPT ![w].at = a, ![w].slot = s] PROVE OneWorker(w, a, s)
  <2> DEFINE d == [worker[w] EXCEPT !.at = a]
             e == [d EXCEPT !.slot = s]
  <2>1. d \in WorkerType /\ d.at = a
    BY <1>1 DEF WorkerType
  <2>2. e \in WorkerType /\ e.at = a /\ e.slot = s
    <3> HIDE DEF d
    <3> QED
      BY <2>1 DEF WorkerType
  <2>3. worker' = [worker EXCEPT ![w] = e]
    BY <1>1, <1>4
  <2> HIDE DEF e, OneWorker
  <2>4. OneWorker(w, e.at, e.slot)
    BY <1>2, <2>2, <2>3
  <2> QED
    BY <2>2, <2>4
<1>5. ASSUME worker' = [worker EXCEPT ![w] = [at |-> a, slot |-> s, told |-> FALSE]]
      PROVE  OneWorker(w, a, s)
  <2>1. [at |-> a, slot |-> s, told |-> FALSE] \in WorkerType
    BY DEF WorkerType
  <2> QED
    BY <1>2, <1>5, <2>1
<1> HIDE DEF OneWorker
<1> QED
  BY <1>3, <1>4, <1>5

\* worker.Stop tells a goroutine, if one was started.
LEMMA Tells ==
  ASSUME OwnType, worker' = Tell(updateCh)
  PROVE  /\ worker' \in [Worker -> WorkerType]
         /\ \A v \in Worker : worker'[v].at = worker[v].at /\ worker'[v].slot = worker[v].slot
<1>1. worker \in [Worker -> WorkerType]
  BY DEF OwnType
<1>2. \A v \in Worker : worker'[v] = worker[v] \/ worker'[v] = [worker[v] EXCEPT !.told = TRUE]
  BY <1>1 DEF Tell
<1>3. \A v \in Worker : /\ worker'[v] \in WorkerType
                        /\ worker'[v].at = worker[v].at /\ worker'[v].slot = worker[v].slot
  <2> SUFFICES ASSUME NEW v \in Worker
               PROVE  /\ worker'[v] \in WorkerType
                      /\ worker'[v].at = worker[v].at /\ worker'[v].slot = worker[v].slot
    OBVIOUS
  <2>1. worker[v] \in WorkerType
    BY <1>1
  <2>2. CASE worker'[v] = worker[v]
    BY <2>1, <2>2
  <2>3. CASE worker'[v] = [worker[v] EXCEPT !.told = TRUE]
    BY <2>1, <2>3, ToldWorker
  <2> QED
    BY <1>2, <2>2, <2>3
<1>4. worker' = [v \in Worker |-> worker'[v]]
  BY <1>1 DEF Tell
<1>5. worker' \in [Worker -> WorkerType]
  BY <1>3, <1>4
<1> QED
  BY <1>3, <1>5

-----------------------------------------------------------------------------
(***************************************************************************)
(* What a step makes of the committee.                                     *)
(***************************************************************************)
LEMMA GoTo ==
  ASSUME OwnType, NEW a \in {"elect", "nap", "notify", "rest", "end"}, Go(a)
  PROVE  /\ committee' \in CommitteeType /\ committee'.at = a
         /\ committee'.index = committee.index /\ committee'.slot = committee.slot
<1>1. committee \in CommitteeType
  BY DEF OwnType
<1> QED
  BY <1>1 DEF Go, CommitteeType

\* Elect gives out a slot of a round that is not past.
LEMMA Elects ==
  ASSUME OwnType, Elect
  PROVE  /\ committee.at = "elect" /\ committee' \in CommitteeType
         /\ committee'.at \in {"end", "nap", "notify", "rest"}
         /\ committee'.at \in {"notify", "rest"} => committee'.index > lastIndex
         /\ committee'.at = "notify" => committee'.slot \in Plans(committee'.index, Coinbase)
<1> DEFINE i == time2Index(now)
<1>1. committee.at = "elect" /\ i \in 0 .. MaxTime /\ lastIndex \in Int /\ 0 \in Slot
  BY RoundOf, Bounded DEF Elect, OwnType
<1>2. \A s \in Plans(i, Coinbase) : s \in Slot
  BY SlotBound DEF OwnType
<1> HIDE DEF i
<1>3. CASE Go("end")
  BY <1>1, <1>3, GoTo
<1>4. CASE committee' = [at |-> "nap", index |-> i, slot |-> 0]
  BY <1>1, <1>4, NewCommittee
<1>5. CASE i > lastIndex /\ committee' = [at |-> "rest", index |-> i, slot |-> 0]
  BY <1>1, <1>5, NewCommittee
<1>6. ASSUME i > lastIndex, NEW s \in Plans(i, Coinbase),
             committee' = [at |-> "notify", index |-> i, slot |-> s]
      PROVE  /\ committee' \in CommitteeType /\ committee'.at = "notify"
             /\ committee'.index > lastIndex
             /\ committee'.slot \in Plans(committee'.index, Coinbase)
  BY <1>1, <1>2, <1>6, NewCommittee
<1>7. \/ Go("end")
      \/ committee' = [at |-> "nap", index |-> i, slot |-> 0]
      \/ i > lastIndex /\ committee' = [at |-> "rest", index |-> i, slot |-> 0]
      \/ i > lastIndex /\ \E s \in Plans(i, Coinbase) :
                             committee' = [at |-> "notify", index |-> i, slot |-> s]
  <2>1. i <= lastIndex \/ i > lastIndex
    BY <1>1
  <2> QED
    BY <2>1 DEF Elect, i
<1>8. CASE i > lastIndex /\ \E s \in Plans(i, Coinbase) :
                               committee' = [at |-> "notify", index |-> i, slot |-> s]
  <2>1. PICK s \in Plans(i, Coinbase) : committee' = [at |-> "notify", index |-> i, slot |-> s]
    BY <1>8
  <2> QED
    BY <1>1, <1>6, <1>8, <2>1
<1> QED
  BY <1>3, <1>4, <1>5, <1>7, <1>8

LEMMA Wakes ==
  ASSUME OwnType, Wake
  PROVE  /\ committee' \in CommitteeType /\ committee'.at = "elect"
         /\ lastIndex' \in -1 .. MaxTime
<1>1. 0 \in Slot /\ 0 \in 0 .. MaxTime /\ committee.index \in -1 .. MaxTime
  <2>1. committee.index \in 0 .. MaxTime
    BY DEF OwnType, CommitteeType
  <2> QED
    BY <2>1, Bounded
<1>2. committee' = [at |-> "elect", index |-> 0, slot |-> 0]
  BY DEF Wake
<1>3. lastIndex' = committee.index \/ lastIndex' = lastIndex
  BY DEF Wake
<1> QED
  BY <1>1, <1>2, <1>3, NewCommittee DEF OwnType

\* Starting and stopping keep the types.
LEMMA CallTypes == ASSUME OwnType, CallStep PROVE OwnType'
<1> USE DEF callOnly
<1>1. CASE StartInit
  <2>1. minerStatus' \in MinerStatus
    BY <1>1 DEF StartInit, MinerInit, OwnType, MinerStatus
  <2>2. once' \in BOOLEAN
    BY <1>1 DEF StartInit, MinerInit, OwnType
  <2> QED
    BY <1>1, <2>1, <2>2 DEF StartInit, OwnType
<1>2. CASE StartSubscribe
  <2>1. minerStatus' \in MinerStatus
    BY <1>2 DEF StartSubscribe, PreStart, OwnType, MinerStatus
  <2>2. subscribed' \in BOOLEAN
    BY <1>2 DEF StartSubscribe
  <2> QED
    BY <1>2, <2>1, <2>2 DEF StartSubscribe, OwnType
<1>3. CASE StartWorker
  <2>1. PICK w \in Worker :
          worker' = [worker EXCEPT ![w] = [at |-> "new", slot |-> 0, told |-> FALSE]]
          /\ updateCh' = w
    BY <1>3 DEF StartWorker
  <2>2. worker' \in [Worker -> WorkerType]
    <3>1. 0 \in Slot
      BY Bounded
    <3> QED
      BY <2>1, <3>1, WorkerMoves DEF OneWorker
  <2> QED
    BY <1>3, <2>1, <2>2 DEF StartWorker, OwnType, MinerStatus
<1>4. CASE StopTell
  <2>1. worker' \in [Worker -> WorkerType]
    BY <1>4, Tells DEF StopTell, OwnType
  <2>2. minerStatus' \in MinerStatus
    BY <1>4 DEF StopTell, OwnType, MinerStatus
  <2> QED
    BY <1>4, <2>1, <2>2 DEF StopTell, OwnType
<1>5. CASE StopWait
  BY <1>5 DEF StopWait, OwnType, MinerStatus
<1>6. CASE StopNothing \/ StopRest \/ StopDone
  BY <1>6 DEF StopNothing, StopRest, StopDone, OwnType
<1> QED
  BY <1>1, <1>2, <1>3, <1>4, <1>5, <1>6 DEF CallStep

\* A block is made for a slot that has none.
LEMMA OwnTypeStep == ASSUME OwnType, SlotInv, [ProdNext]_allVars PROVE OwnType'
<1>1. CASE UNCHANGED prodVars
  BY <1>1 DEF OwnType, prodVars
<1>2. CASE Clock
  BY <1>2, Bounded DEF Clock, OwnType
<1>3. CASE DwlDone
  <2>1. subscribed' \in BOOLEAN /\ once' \in BOOLEAN
    BY <1>3 DEF DwlDone
  <2> QED
    BY <1>3, <2>1 DEF DwlDone, OwnType
<1>4. CASE Elect
  BY <1>4, Elects DEF Elect, OwnType, committeeOnly
<1>5. CASE NotifyTimeout
  BY <1>5, GoTo DEF NotifyTimeout, OwnType, committeeOnly
<1>6. CASE Wake
  BY <1>6, Wakes DEF Wake, OwnType, committeeOnly
<1>7. ASSUME NEW w \in Worker, Notify(w) PROVE OwnType'
  <2>1. committee.slot \in Slot
    BY DEF OwnType, CommitteeType
  <2>2. worker' \in [Worker -> WorkerType]
    BY <1>7, <2>1, WorkerMoves DEF Notify, OneWorker
  <2>3. committee' \in CommitteeType
    BY <1>7, GoTo DEF Notify
  <2> QED
    BY <1>7, <2>2, <2>3 DEF Notify, OwnType, committeeOnly
<1>8. ASSUME NEW w \in Worker, WorkerStep(w) \/ Inserted(w) PROVE OwnType'
  <2>1. Looped \in {"none", "new", "idle", "mining", "inserting"} /\ 0 \in Slot
    BY Bounded DEF Looped
  <2>2. worker' \in [Worker -> WorkerType]
    <3>1. CASE WorkerBegins(w)
      BY <2>1, <3>1, WorkerMoves DEF WorkerBegins, OneWorker
    <3>2. CASE Mine(w)
      BY <2>1, <3>2, WorkerMoves DEF Mine, OneWorker
    <3>3. CASE WorkerEnds(w)
      BY <2>1, <3>3, WorkerMoves DEF WorkerEnds, OneWorker
    <3>4. CASE Inserted(w)
      BY <2>1, <3>4, WorkerMoves DEF Inserted, OneWorker
    <3> QED
      BY <1>8, <3>1, <3>2, <3>3, <3>4 DEF WorkerStep
  <2>3. mined' \in [Slot -> 0 .. 2]
    <3>1. CASE Mine(w)
      <4>1. worker[w].slot \in Slot /\ mined \in [Slot -> 0 .. 2]
        BY DEF OwnType, WorkerType
      <4>2. mined[worker[w].slot] \in {0, 1}
        BY <4>1 DEF SlotInv
      <4> QED
        BY <3>1, <4>1, <4>2 DEF Mine
    <3>2. CASE ~Mine(w)
      BY <1>8, <3>2 DEF WorkerStep, WorkerBegins, WorkerEnds, Inserted, OwnType
    <3> QED
      BY <3>1, <3>2
  <2>4. UNCHANGED workerOnly
    BY <1>8 DEF WorkerStep, WorkerBegins, Mine, Inserted, WorkerEnds
  <2> QED
    BY <2>2, <2>3, <2>4 DEF workerOnly, OwnType
<1>9. ASSUME NEW c, Begin(c) PROVE OwnType'
  BY <1>9, Bounded DEF Begin, OwnType
<1>10. CASE UNCHANGED allVars
  BY <1>1, <1>10 DEF allVars
<1> QED
  BY <1>1, <1>2, <1>3, <1>4, <1>5, <1>6, <1>7, <1>8, <1>9, <1>10, CallTypes DEF ProdNext, Sync

-----------------------------------------------------------------------------
(***************************************************************************)
(* One block for a slot.                                                   *)
(***************************************************************************)

\* A step that makes no block and sets no goroutine to work leaves what is
\* served as it is, or less.
LEMMA LessServed ==
  ASSUME OwnType, SlotInv, UNCHANGED mined,
         \A w \in Worker : worker'[w].at = "mining" =>
           worker[w].at = "mining" /\ worker'[w].slot = worker[w].slot,
         \A i \in Int : Past(i) => Past(i)',
         committee'.at \in {"notify", "rest"} => committee'.index > lastIndex',
         committee'.at = "notify" => committee'.slot \in Plans(committee'.index, Coinbase)
  PROVE  SlotInv'
<1>1. \A w \in Worker, s \in Slot : Mining(w, s)' => Mining(w, s)
  BY DEF Mining
<1>2. \A s \in Slot : Served(s)' => Served(s)
  BY <1>1 DEF Served
<1>3. \A s \in Slot : time2Index(s) \in Int
  BY Bounded DEF time2Index
<1>4. \A s \in Slot : Served(s)' => VerifyProducer(Coinbase, s) /\ Past(time2Index(s))'
  BY <1>2, <1>3 DEF SlotInv
<1>5. \A s \in Slot, v \in Worker : Mining(v, s)' =>
         mined'[s] = 0 /\ \A w \in Worker : Mining(w, s)' => w = v
  BY <1>1 DEF SlotInv
<1>6. \A s \in Slot : mined'[s] \in {0, 1}
  BY DEF SlotInv
<1> QED
  BY <1>4, <1>5, <1>6 DEF SlotInv, time2Index, VerifyProducer, Plans, PlanTime

\* A step that concerns neither the committee nor the workers.
LEMMA SlotCalm ==
  ASSUME OwnType, SlotInv, UNCHANGED <<mined, committee, lastIndex>>,
         \A w \in Worker : worker'[w].at = "mining" =>
           worker[w].at = "mining" /\ worker'[w].slot = worker[w].slot
  PROVE  SlotInv'
<1>1. \A i \in Int : Past(i) => Past(i)'
  BY DEF Past
<1>2. /\ committee'.at \in {"notify", "rest"} => committee'.index > lastIndex'
      /\ committee'.at = "notify" => committee'.slot \in Plans(committee'.index, Coinbase)
  BY DEF SlotInv
<1> QED
  BY <1>1, <1>2, LessServed

\* The committee moves and the workers do not.
LEMMA SlotCommittee ==
  ASSUME OwnType, SlotInv, Elect \/ NotifyTimeout \/ Wake
  PROVE  SlotInv'
<1>1. UNCHANGED <<worker, mined>>
  BY DEF Elect, NotifyTimeout, Wake
<1>2. committee.index \in Int /\ lastIndex \in Int
  BY DEF OwnType, CommitteeType
<1>3. CASE Elect
  <2>1. /\ committee.at = "elect" /\ UNCHANGED lastIndex
        /\ committee'.at \in {"notify", "rest"} => committee'.index > lastIndex'
        /\ committee'.at = "notify" => committee'.slot \in Plans(committee'.index, Coinbase)
    BY <1>3, Elects DEF Elect
  <2>2. \A i \in Int : Past(i) => Past(i)'
    BY <2>1 DEF Past
  <2> QED
    BY <1>1, <2>1, <2>2, LessServed
<1>4. CASE NotifyTimeout
  <2>1. committee.at = "notify" /\ committee'.at = "elect" /\ UNCHANGED lastIndex
    BY <1>4, GoTo DEF NotifyTimeout
  <2>2. \A i \in Int : Past(i) => Past(i)'
    BY <2>1 DEF Past
  <2> QED
    BY <1>1, <2>1, <2>2, LessServed
<1>5. CASE Wake
  <2>1. committee'.at = "elect"
    BY <1>5, Wakes
  <2>2. \A i \in Int : Past(i) => Past(i)'
    <3>1. CASE committee.at = "rest"
      <4>1. lastIndex' = committee.index /\ committee.index > lastIndex
        BY <1>5, <3>1 DEF Wake, SlotInv
      <4> QED
        BY <1>2, <4>1 DEF Past
    <3>2. CASE committee.at # "rest"
      <4>1. lastIndex' = lastIndex
        BY <1>5, <3>2 DEF Wake
      <4> QED
        BY <3>2, <4>1 DEF Past
    <3> QED
      BY <3>1, <3>2
  <2> QED
    BY <1>1, <2>1, <2>2, LessServed
<1> QED
  BY <1>3, <1>4, <1>5

\* A slot that is given out was not served, because its round was not past.
LEMMA SlotNotify ==
  ASSUME OwnType, SlotInv, NEW w \in Worker, Notify(w)
  PROVE  SlotInv'
<1>1. committee.slot \in Slot
  BY DEF OwnType, CommitteeType
<1>2. PICK s \in Slot : s = committee.slot
  BY <1>1
<1>3. /\ committee.at = "notify" /\ worker[w].at = "idle" /\ UNCHANGED <<mined, lastIndex>>
      /\ committee.index \in Nat /\ lastIndex \in Int
      /\ committee.index > lastIndex /\ s \in Plans(committee.index, Coinbase)
  BY <1>2 DEF Notify, OwnType, CommitteeType, SlotInv
<1>4. committee'.at = "rest" /\ committee'.index = committee.index
  BY GoTo DEF Notify
<1>5. /\ worker'[w].at = "mining" /\ worker'[w].slot = s
      /\ \A v \in Worker : v # w => worker'[v].at = worker[v].at
                                    /\ worker'[v].slot = worker[v].slot
  BY <1>2, WorkerMoves DEF Notify, OneWorker
<1>6. time2Index(s) = committee.index /\ VerifyProducer(Coinbase, s)
  BY <1>3, SlotOfRound
<1>7. ~Past(time2Index(s)) /\ Past(time2Index(s))'
  <2>1. ~Past(committee.index)
    BY <1>3 DEF Past
  <2>2. committee.index <= committee'.index
    BY <1>3, <1>4
  <2>3. Past(time2Index(s))' <=> (time2Index(s) <= lastIndex' \/
                                  (committee'.at = "rest" /\ time2Index(s) <= committee'.index))
    BY DEF Past, time2Index
  <2> QED
    BY <1>4, <1>6, <2>1, <2>2, <2>3
<1>8. ~Served(s)
  BY <1>7 DEF SlotInv
<1>9. \A v \in Worker, t \in Slot : Mining(v, t)' <=> Mining(v, t) \/ (v = w /\ t = s)
  BY <1>3, <1>5 DEF Mining
<1>10. \A i \in Int : Past(i) => Past(i)'
  BY <1>3 DEF Past
<1>11. \A t \in Slot : Served(t)' => VerifyProducer(Coinbase, t) /\ Past(time2Index(t))'
  <2> SUFFICES ASSUME NEW t \in Slot, Served(t)'
               PROVE  VerifyProducer(Coinbase, t) /\ Past(time2Index(t))'
    OBVIOUS
  <2>1. CASE t = s
    BY <1>6, <1>7, <2>1
  <2>2. CASE t # s
    <3>1. Served(t)
      BY <1>3, <1>9, <2>2 DEF Served
    <3>2. time2Index(t) \in Int
      BY Bounded DEF time2Index
    <3> QED
      BY <1>10, <3>1, <3>2 DEF SlotInv
  <2> QED
    BY <2>1, <2>2
<1>12. \A t \in Slot, v \in Worker : Mining(v, t)' =>
         mined'[t] = 0 /\ \A u \in Worker : Mining(u, t)' => u = v
  <2> SUFFICES ASSUME NEW t \in Slot, NEW v \in Worker, Mining(v, t)'
               PROVE  mined'[t] = 0 /\ \A u \in Worker : Mining(u, t)' => u = v
    OBVIOUS
  <2>1. CASE t = s
    <3>1. mined[s] = 0 /\ \A u \in Worker : ~Mining(u, s)
      BY <1>8 DEF SlotInv, Served
    <3> QED
      BY <1>3, <1>9, <2>1, <3>1
  <2>2. CASE t # s
    BY <1>3, <1>9, <2>2 DEF SlotInv
  <2> QED
    BY <2>1, <2>2
<1>13. committee'.at \in {"notify", "rest"} => committee'.index > lastIndex'
  BY <1>3, <1>4
<1>14. \A t \in Slot : mined'[t] \in {0, 1}
  BY <1>3 DEF SlotInv
<1> QED
  BY <1>4, <1>11, <1>12, <1>13, <1>14 DEF SlotInv, time2Index, VerifyProducer, Plans, PlanTime

\* The block is made, and the goroutine goes on to insert it.
LEMMA SlotMine ==
  ASSUME OwnType, SlotInv, NEW w \in Worker, Mine(w)
  PROVE  SlotInv'
<1>1. worker[w].slot \in Slot /\ mined \in [Slot -> 0 .. 2] /\ 0 \in Slot
  BY Bounded DEF OwnType, WorkerType
<1>2. PICK s \in Slot : s = worker[w].slot
  BY <1>1
<1>3. Mining(w, s) /\ mined' = [mined EXCEPT ![s] = mined[s] + 1]
      /\ UNCHANGED <<committee, lastIndex>>
  BY <1>2 DEF Mine, Mining, workerOnly
<1>4. mined[s] = 0 /\ \A v \in Worker : Mining(v, s) => v = w
  BY <1>3 DEF SlotInv
<1>5. mined'[s] = 1 /\ \A t \in Slot : t # s => mined'[t] = mined[t]
  BY <1>1, <1>3, <1>4
<1>6. /\ worker'[w].at # "mining"
      /\ \A v \in Worker : v # w => worker'[v].at = worker[v].at
                                    /\ worker'[v].slot = worker[v].slot
  BY <1>1, WorkerMoves DEF Mine, OneWorker
<1>7. \A v \in Worker, t \in Slot : Mining(v, t)' => Mining(v, t) /\ v # w /\ t # s
  BY <1>4, <1>6 DEF Mining
<1>8. \A t \in Slot : Served(t)' => Served(t)
  <2>1. Served(s)
    BY <1>3 DEF Served
  <2> QED
    BY <1>5, <1>7, <2>1 DEF Served
<1>9. \A t \in Slot : Past(time2Index(t)) => Past(time2Index(t))'
  BY <1>3 DEF Past, time2Index
<1>10. \A t \in Slot : Served(t)' => VerifyProducer(Coinbase, t) /\ Past(time2Index(t))'
  BY <1>8, <1>9 DEF SlotInv
<1>11. \A t \in Slot, v \in Worker : Mining(v, t)' =>
         mined'[t] = 0 /\ \A u \in Worker : Mining(u, t)' => u = v
  BY <1>5, <1>7 DEF SlotInv
<1>12. \A t \in Slot : mined'[t] \in {0, 1}
  BY <1>5 DEF SlotInv
<1> QED
  BY <1>3, <1>10, <1>11, <1>12 DEF SlotInv, time2Index, VerifyProducer, Plans, PlanTime

LEMMA SlotStep == ASSUME OwnType, SlotInv, [ProdNext]_allVars PROVE SlotInv'
<1>1. CASE UNCHANGED prodVars
  BY <1>1, SlotCalm DEF prodVars
<1>2. CASE Clock \/ DwlDone \/ \E c \in {"start", "stop", "node stop"} : Begin(c)
  BY <1>2, SlotCalm DEF Clock, DwlDone, Begin
<1>3. ASSUME NEW w \in Worker, WorkerBegins(w) \/ WorkerEnds(w) \/ Inserted(w) PROVE SlotInv'
  <2>1. Looped \in {"none", "idle"} /\ 0 \in Slot
    BY Bounded DEF Looped
  <2>2. UNCHANGED <<mined, committee, lastIndex>>
    BY <1>3 DEF WorkerBegins, WorkerEnds, Inserted, workerOnly
  <2>3. /\ worker'[w].at # "mining"
        /\ \A v \in Worker : v # w => worker'[v].at = worker[v].at
                                      /\ worker'[v].slot = worker[v].slot
    <3>1. CASE WorkerBegins(w)
      BY <2>1, <3>1, WorkerMoves DEF WorkerBegins, OneWorker
    <3>2. CASE WorkerEnds(w)
      BY <2>1, <3>2, WorkerMoves DEF WorkerEnds, OneWorker
    <3>3. CASE Inserted(w)
      BY <2>1, <3>3, WorkerMoves DEF Inserted, OneWorker
    <3> QED
      BY <1>3, <3>1, <3>2, <3>3
  <2> QED
    BY <2>2, <2>3, SlotCalm
<1>4. CASE StartWorker
  <2>1. PICK w \in Worker :
          worker' = [worker EXCEPT ![w] = [at |-> "new", slot |-> 0, told |-> FALSE]]
    BY <1>4 DEF StartWorker
  <2>2. 0 \in Slot
    BY Bounded
  <2>3. /\ worker'[w].at = "new"
        /\ \A v \in Worker : v # w => worker'[v].at = worker[v].at
                                      /\ worker'[v].slot = worker[v].slot
    BY <2>1, <2>2, WorkerMoves DEF OneWorker
  <2>4. UNCHANGED <<mined, committee, lastIndex>>
    BY <1>4 DEF StartWorker, callOnly
  <2> QED
    BY <2>3, <2>4, SlotCalm
<1>5. CASE StopTell
  <2>1. UNCHANGED <<mined, committee, lastIndex>>
    BY <1>5 DEF StopTell, callOnly
  <2>2. \A w \in Worker : worker'[w].at = worker[w].at /\ worker'[w].slot = worker[w].slot
    BY <1>5, Tells DEF StopTell
  <2> QED
    BY <2>1, <2>2, SlotCalm
<1>6. CASE StartInit \/ StartSubscribe \/ StopWait \/ StopNothing \/ StopRest \/ StopDone
  <2>1. UNCHANGED <<mined, committee, lastIndex, worker>>
    BY <1>6 DEF StartInit, StartSubscribe, StopWait, StopNothing, StopRest, StopDone, callOnly
  <2> QED
    BY <2>1, SlotCalm
<1>7. CASE CallStep
  BY <1>4, <1>5, <1>6, <1>7 DEF CallStep
<1>8. CASE UNCHANGED allVars
  BY <1>1, <1>8 DEF allVars
<1> QED
  BY <1>1, <1>2, <1>3, <1>7, <1>8, SlotCommittee, SlotNotify, SlotMine
     DEF ProdNext, Sync, WorkerStep

-----------------------------------------------------------------------------
(***************************************************************************)
(* The subscription of the miner, and the end of the first synchronisation.*)
(***************************************************************************)
LEMMA SubscribeStep == ASSUME SyncType, SubscribeInv, [ProdNext]_allVars PROVE SubscribeInv'
<1> USE DEF SubscribeInv, task, world, callOnly
<1>1. CASE UNCHANGED <<at, published, done, minerStatus, once, call, subscribed>>
  BY <1>1
<1>2. CASE DwlDone
  <2>1. at = "publish" /\ published' = TRUE /\ UNCHANGED <<done, minerStatus, call>>
    BY <1>2 DEF DwlDone, PublishDone
  <2>2. subscribed' <=> subscribed \/ once
    BY <1>2 DEF DwlDone
  <2>3. minerStatus # 0 => subscribed \/ once \/ published
    BY Zenon
  <2>4. call = "start3" => minerStatus # 0
    OBVIOUS
  <2>5. published /\ (call = "start3" \/ minerStatus = 4) => subscribed
    OBVIOUS
  <2> HIDE DEF SubscribeInv
  <2>6. minerStatus = 4 => minerStatus # 0
    OBVIOUS
  <2>7. call = "start3" \/ minerStatus = 4 => subscribed'
    BY <2>2, <2>3, <2>4, <2>5, <2>6, Zenon
  <2> QED
    BY <2>1, <2>7 DEF SubscribeInv
<1>3. CASE SyncStep /\ UNCHANGED prodVars
  <2>1. UNCHANGED <<published, minerStatus, once, call, subscribed>>
    BY <1>3 DEF prodVars, SyncStep, SyncTimeout, FindPeer, AskPeer, Reached, SyncReturns,
                CloseTask, MarkDone
  <2>2. (done => done') /\ (at' = "publish" => done')
    BY <1>3 DEF SyncStep, SyncTimeout, FindPeer, AskPeer, Reached, SyncReturns,
                CloseTask, MarkDone, CallDone, DoneNext
  <2> QED
    BY <2>1, <2>2
<1>4. CASE SyncWorld /\ UNCHANGED prodVars
  BY <1>1, <1>4 DEF prodVars, SyncWorld, PeerState, PeerGone, ChainGrows, NetworkGrows
<1>5. CASE Elect \/ NotifyTimeout \/ Wake \/ \E w \in Worker : Notify(w)
  BY <1>1, <1>5 DEF Elect, NotifyTimeout, Wake, Notify, committeeOnly, syncVars
<1>6. CASE \E w \in Worker : WorkerStep(w) \/ Inserted(w)
  BY <1>1, <1>6 DEF WorkerStep, WorkerBegins, Mine, Inserted, WorkerEnds, workerOnly, syncVars
<1>7. CASE Clock
  BY <1>1, <1>7 DEF Clock, syncVars
<1>8. ASSUME NEW c \in {"start", "stop", "node stop"}, Begin(c) PROVE SubscribeInv'
  BY <1>8 DEF Begin, syncVars
<1>9. CASE StartInit
  BY <1>9 DEF StartInit, MinerInit, syncVars
<1>10. CASE StartSubscribe
  <2>1. call = "start2" /\ call' = "start3" /\ UNCHANGED <<at, done, published, once>>
    BY <1>10 DEF StartSubscribe, syncVars
  <2>2. subscribed' <=> subscribed \/ done
    BY <1>10 DEF StartSubscribe
  <2>3. minerStatus # 0 /\ minerStatus' # 0
    BY <1>10, <2>1 DEF StartSubscribe, PreStart
  <2> QED
    BY <2>1, <2>2, <2>3
<1>11. CASE StartWorker
  BY <1>11 DEF StartWorker, syncVars
<1>12. CASE StopTell
  <2>1. UNCHANGED <<at, done, published, once, subscribed>>
    BY <1>12 DEF StopTell, syncVars
  <2>2. minerStatus # 0 /\ call' \in {"stop2", "node stop2", "panic"}
    BY <1>12 DEF StopTell
  <2>3. minerStatus' \in {5, minerStatus}
    BY <1>12 DEF StopTell
  <2> HIDE DEF SubscribeInv
  <2>4. minerStatus' # 0
    <3>1. minerStatus # 0
      BY <2>2
    <3> QED
      BY <2>3, <3>1
  <2>5. minerStatus' = 4 => minerStatus = 4
    BY <2>3
  <2> QED
    BY <2>1, <2>2, <2>4, <2>5 DEF SubscribeInv
<1>13. CASE StopWait
  <2>1. minerStatus' = 6 /\ UNCHANGED <<at, done, published, once>>
    BY <1>13 DEF StopWait, syncVars
  <2>2. minerStatus # 0 /\ call' \in {"none", "node stop3"}
    BY <1>13 DEF StopWait
  <2>3. ~published => once
    BY <2>2
  <2> HIDE DEF SubscribeInv
  <2>4. minerStatus' # 0 /\ minerStatus' # 4
    BY <2>1
  <2>5. call' \notin {"start2", "start3", "stop2", "node stop2"}
    BY <2>2
  <2> QED
    BY <2>1, <2>3, <2>4, <2>5 DEF SubscribeInv
<1>14. CASE StopNothing \/ StopRest \/ StopDone
  <2>1. UNCHANGED <<at, done, published, minerStatus, once, subscribed>>
    BY <1>14 DEF StopNothing, StopRest, StopDone, syncVars
  <2>2. call' \in {"none", "node stop3", "node stop4", "stopped"}
    BY <1>14 DEF StopNothing, StopRest, StopDone
  <2> QED
    BY <2>1, <2>2
<1>15. CASE UNCHANGED allVars
  BY <1>1, <1>15 DEF allVars, syncVars, prodVars
<1> QED
  BY <1>2, <1>3, <1>4, <1>5, <1>6, <1>7, <1>8, <1>9, <1>10, <1>11, <1>12, <1>13, <1>14, <1>15
     DEF ProdNext, Sync, CallStep

LEMMA DoneStep == ASSUME SyncType, DoneInv, [ProdNext]_allVars PROVE DoneInv'
<1> USE DEF DoneInv, task, world
<1>1. CASE UNCHANGED <<timedOut, at, after, taClosed>>
  BY <1>1
<1>2. CASE SyncTimeout
  BY <1>2 DEF SyncTimeout
<1>3. CASE FindPeer
  BY <1>3 DEF FindPeer
<1>4. CASE AskPeer
  BY <1>4 DEF AskPeer, CallDone
<1>5. CASE Reached
  BY <1>5 DEF Reached, CallDone
<1>6. CASE SyncReturns
  BY <1>6 DEF SyncReturns
<1>7. CASE CloseTask
  BY <1>7 DEF CloseTask, DoneNext
<1>8. CASE MarkDone
  BY <1>8 DEF MarkDone, DoneNext
<1>9. CASE PublishDone
  BY <1>9 DEF PublishDone, DoneNext
<1>10. CASE SyncWorld
  BY <1>1, <1>10 DEF SyncWorld, PeerState, PeerGone, ChainGrows, NetworkGrows
<1>11. CASE Elect \/ NotifyTimeout \/ Wake \/ \E w \in Worker : Notify(w)
  BY <1>1, <1>11 DEF Elect, NotifyTimeout, Wake, Notify, committeeOnly, syncVars
<1>12. CASE \E w \in Worker : WorkerStep(w) \/ Inserted(w)
  BY <1>1, <1>12 DEF WorkerStep, WorkerBegins, Mine, Inserted, WorkerEnds, workerOnly, syncVars
<1>13. CASE Clock \/ \E c \in {"start", "stop", "node stop"} : Begin(c)
  BY <1>1, <1>13 DEF Clock, Begin, syncVars
<1>14. CASE CallStep
  BY <1>1, <1>14 DEF CallStep, StartInit, StartSubscribe, StartWorker,
     StopTell, StopWait, StopNothing, StopRest, StopDone, syncVars
<1>15. CASE UNCHANGED allVars
  BY <1>1, <1>15 DEF allVars, syncVars
<1> QED
  BY <1>2, <1>3, <1>4, <1>5, <1>6, <1>7, <1>8, <1>9, <1>10, <1>11, <1>12, <1>13, <1>14, <1>15
     DEF ProdNext, Sync, SyncStep, DwlDone

-----------------------------------------------------------------------------
(***************************************************************************)
(* Theorems.                                                               *)
(***************************************************************************)
LEMMA ProdStart == ProdInit => ProdInv
<1> SUFFICES ASSUME ProdInit PROVE ProdInv
  OBVIOUS
<1>1. 0 \in Slot /\ 0 \in 0 .. MaxTime /\ -1 \in -1 .. MaxTime /\ 0 \in 0 .. MaxCalls
      /\ 0 \in Height
  BY Bounded DEF Height
<1>2. SyncType
  BY <1>1 DEF ProdInit, SyncInit, SyncType, Waiting
<1>3. OwnType
  <2>1. committee \in CommitteeType
    BY <1>1, NewCommittee DEF ProdInit
  <2>2. worker \in [Worker -> WorkerType]
    BY <1>1 DEF ProdInit, WorkerType
  <2>3. minerStatus \in MinerStatus /\ once \in BOOLEAN
    BY DEF ProdInit, MinerStatus
  <2>4. mined \in [Slot -> 0 .. 2]
    BY DEF ProdInit
  <2> QED
    BY <1>1, <2>1, <2>2, <2>3, <2>4 DEF ProdInit, OwnType
<1>4. SlotInv
  BY DEF ProdInit, SlotInv, Served, Mining
<1>5. SubscribeInv
  BY DEF ProdInit, SyncInit, SubscribeInv
<1>6. DoneInv
  BY DEF ProdInit, SyncInit, DoneInv
<1> QED
  BY <1>2, <1>3, <1>4, <1>5, <1>6, TypeParts DEF ProdInv

LEMMA ProdInvariant == ProdSpec => []ProdInv
<1>1. ProdInv /\ [ProdNext]_allVars => ProdInv'
  <2> SUFFICES ASSUME ProdInv, [ProdNext]_allVars PROVE ProdInv'
    OBVIOUS
  <2>1. SyncType /\ OwnType /\ SlotInv /\ SubscribeInv /\ DoneInv
    BY TypeParts DEF ProdInv
  <2>2. SyncType' /\ OwnType'
    BY <2>1, SyncTypeStep, OwnTypeStep
  <2>3. SlotInv' /\ SubscribeInv' /\ DoneInv'
    BY <2>1, SlotStep, SubscribeStep, DoneStep
  <2>4. ProdTypeOK'
    BY <2>2, TypeParts, PTL
  <2> QED
    BY <2>3, <2>4 DEF ProdInv
<1> QED
  BY <1>1, ProdStart, PTL DEF ProdSpec

\* Production, first synchronisation and fetching keep their types for every
\* committee and every limit of the retry policy; in particular the rounds and
\* slots of hdpos.go stay within the times that have passed.
THEOREM NodeTypeCorrect == NodeSpec => []NodeTypeOK
<1>1. ProdInv => ProdTypeOK
  BY DEF ProdInv
<1> QED
  BY <1>1, ProdInvariant, FetchTypeCorrect, PTL DEF NodeSpec, NodeTypeOK

\* The miner makes at most one block for a slot (src/consensus/hdpos.go,
\* src/miner/worker.go): for every committee, however late the goroutines are and
\* however often the miner is stopped and started.
THEOREM SlotsServedOnce == ProdSpec => []OneBlockPerSlot
<1>1. ProdInv => OneBlockPerSlot
  BY DEF ProdInv, SlotInv, OneBlockPerSlot, Served
<1> QED
  BY <1>1, ProdInvariant, PTL

\* Every block the miner makes carries a time that verifyProducer (hdpos.go)
\* accepts for its coinbase, in every committee.
THEOREM BlocksVerify == ProdSpec => []ProducedVerifies
<1>1. ProdInv => ProducedVerifies
  BY DEF ProdInv, SlotInv, ProducedVerifies, Served
<1> QED
  BY <1>1, ProdInvariant, PTL

\* A started miner is subscribed to the committee once DwlDone has been published
\* (src/miner/miner.go Init and Start), whatever the order of the event, of
\* NewMiner and of Start.
THEOREM MinerGetsSubscribed == ProdSpec => []MinerSubscribed
<1>1. ProdInv => MinerSubscribed
  BY DEF ProdInv, SubscribeInv, MinerSubscribed
<1> QED
  BY <1>1, ProdInvariant, PTL

\* firstSyncDone (src/syncer/state.go) closes firstTa.closed twice only after the
\* timeout of 50 s.
THEOREM SyncEndsOnce == ProdSpec => []SyncDoneOnce
<1>1. ProdInv => SyncDoneOnce
  BY DEF ProdInv, DoneInv, SyncDoneOnce
<1> QED
  BY <1>1, ProdInvariant, PTL

=============================================================================
