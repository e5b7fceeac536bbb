----------------------------- MODULE Production -----------------------------
(***************************************************************************)
(* Block production of a node: the committee that gives every member a     *)
(* slot of each round (src/consensus/hdpos.go), the miner and its worker   *)
(* (src/miner), the node that starts and stops them (src/node/node.go),    *)
(* and the first synchronisation, whose end lets the miner subscribe.      *)
(*                                                                         *)
(* Time is counted in intervals since genesis.  Every goroutine may be     *)
(* late: a sleep ends at its time or after it.                             *)
(***************************************************************************)
EXTENDS FirstSync, Sequences, FiniteSets

CONSTANTS
  Member,      \* DefaultMembers, in their order
  MemberCnt,   \* the number of members the committee is configured for
  Coinbase,    \* the address of this node's miner
  Worker,      \* the worker goroutines, one for each call of worker.Start
  MaxTime,     \* the last interval
  MaxCalls     \* how many calls of StartMiner, StopMiner and Stop are made

\* Every configuration in the repository has MemCnt = len(DefaultMembers).
ASSUME MemberAssumption ==
  /\ MemberCnt = Len(Member) /\ MemberCnt \in Nat \ {0}
  /\ {MaxTime, MaxCalls} \subseteq Nat
  /\ \A i, j \in 1 .. Len(Member) : Member[i] = Member[j] => i = j

VARIABLES
  now,          \* the time
  subscribed,   \* Committee.subscribeMem is the miner's, and not nil
  committee,    \* where Committee.update is, and what it has in hand
  lastIndex,    \* its variable of that name
  conStopped,   \* Committee.Stop has been called
  minerStatus,  \* the life cycle of the miner, 0 without a miner
  once,         \* the miner's handler of DwlDone is registered
  worker,       \* the worker goroutines
  updateCh,     \* the worker whose channel worker.updateCh is
  call,         \* where the call of StartMiner, StopMiner or Stop is
  calls,        \* the calls made
  mined         \* history: how many blocks were made for a slot

prodVars == <<now, subscribed, committee, lastIndex, conStopped, minerStatus,
              once, worker, updateCh, call, calls, mined>>

allVars == <<syncVars, prodVars>>

Slot == 0 .. MaxTime + Len(Member)

\* Without a miner, initialised, starting, started, stopping, stopped.
MinerStatus == {0, 2, 3, 4, 5, 6}

-----------------------------------------------------------------------------
(* The election.                                                           *)

time2Index(t) == t \div MemberCnt

\* Faulty: the time is advanced before the slot is given.
PlanTimeNext(i, j) == i * MemberCnt + j

\* genPlan: the start of the slot of the j-th member in round i.
PlanTime(i, j) == i * MemberCnt + (j - 1)

EndTime(i) == i * MemberCnt + Len(Member)

\* electionTime and the search for the plan of a member.
Plans(i, m) == {PlanTime(i, j) : j \in {k \in 1 .. Len(Member) : Member[k] = m}}

\* verifyProducer: the time of the block is the slot of its signer.
VerifyProducer(signer, t) == t \in Plans(time2Index(t), signer)

ProdInit ==
  /\ SyncInit
  /\ now = 0 /\ subscribed = FALSE
  /\ committee = [at |-> "elect", index |-> 0, slot |-> 0]
  /\ lastIndex = -1 /\ conStopped = FALSE
  /\ \E enabled \in BOOLEAN :    \* MinerCfg.Enabled: NewNode makes the miner
       minerStatus = (IF enabled THEN 2 ELSE 0) /\ once = enabled
  /\ worker = [w \in Worker |-> [at |-> "none", slot |-> 0, told |-> FALSE]]
  /\ updateCh = 0 /\ call = "none" /\ calls = 0
  /\ mined = [s \in Slot |-> 0]

Clock ==
  /\ now < MaxTime
  /\ now' = now + 1
  /\ UNCHANGED <<syncVars, subscribed, committee, lastIndex, conStopped,
                 minerStatus, once, worker, updateCh, call, calls, mined>>

-----------------------------------------------------------------------------
(* Committee.update.                                                       *)

committeeOnly == <<syncVars, now, subscribed, conStopped, minerStatus, once,
                   updateCh, call, calls>>

Go(a) == committee' = [committee EXCEPT !.at = a]

\* The round of the present time.  Nothing to do, or nobody to do it for: the
\* rest of the round is slept over.
Elect ==
  /\ committee.at = "elect"
  /\ LET i == time2Index(now) IN
     IF conStopped THEN Go("end")
     ELSE IF i <= lastIndex \/ ~subscribed
     THEN committee' = [at |-> "nap", index |-> i, slot |-> 0]
     ELSE IF Plans(i, Coinbase) # {} /\ lastIndex # -1
     THEN \E s \in Plans(i, Coinbase) :
            committee' = [at |-> "notify", index |-> i, slot |-> s]
     ELSE committee' = [at |-> "rest", index |-> i, slot |-> 0]
  /\ UNCHANGED <<committeeOnly, lastIndex, worker, mined>>

\* Faulty: the loop goes on at once after the notification.
NotifyAgain(w) ==
  /\ committee.at = "notify" /\ now >= committee.slot
  /\ worker[w].at = "idle"
  /\ worker' = [worker EXCEPT ![w].at = "mining", ![w].slot = committee.slot]
  /\ Go("elect")
  /\ UNCHANGED <<committeeOnly, lastIndex, mined>>

\* A worker takes the slot from the channel, in time or late.
Notify(w) ==
  /\ committee.at = "notify" /\ now >= committee.slot
  /\ worker[w].at = "idle"
  /\ worker' = [worker EXCEPT ![w].at = "mining", ![w].slot = committee.slot]
  /\ Go("rest")
  /\ UNCHANGED <<committeeOnly, lastIndex, mined>>

\* Nobody takes it until the round is over; the round is not recorded.
NotifyTimeout ==
  /\ committee.at = "notify" /\ now >= EndTime(committee.index)
  /\ Go("elect")
  /\ UNCHANGED <<committeeOnly, lastIndex, worker, mined>>

\* The sleep until the end of the round is over.
Wake ==
  /\ committee.at \in {"nap", "rest"} /\ now >= EndTime(committee.index)
  /\ lastIndex' = IF committee.at = "rest" THEN committee.index
                  ELSE lastIndex
  /\ committee' = [at |-> "elect", index |-> 0, slot |-> 0]
  /\ UNCHANGED <<committeeOnly, worker, mined>>

-----------------------------------------------------------------------------
(* The worker.                                                             *)

workerOnly == <<syncVars, now, subscribed, committee, lastIndex, conStopped,
                minerStatus, once, updateCh, call, calls>>

\* The head of the loop of worker.update: Stopped() ends it.
Looped == IF minerStatus = 6 THEN "none" ELSE "idle"

\* The goroutine starts, and is counted from now on.
WorkerBegins(w) ==
  /\ worker[w].at = "new"
  /\ worker' = [worker EXCEPT ![w].at = Looped]
  /\ UNCHANGED <<workerOnly, mined>>

\* genAndInsert under worker.mu: MiningSnapshotBlock makes a block for the slot
\* and goes on to insert it.
Mine(w) ==
  /\ worker[w].at = "mining" /\ \A v \in Worker : worker[v].at # "inserting"
  /\ mined' = [mined EXCEPT ![worker[w].slot] = @ + 1]
  /\ worker' = [worker EXCEPT ![w].at = "inserting", ![w].slot = 0]
  /\ UNCHANGED workerOnly

\* MiningSnapshotBlock of a ledger that inserts the block returns.  That of
\* ledger.go never does: it asks for the read lock under its own write lock (run
\* mining).  Both ledgers are allowed, for this step need not be taken.
Inserted(w) ==
  /\ worker[w].at = "inserting"
  /\ worker' = [worker EXCEPT ![w].at = Looped]
  /\ UNCHANGED <<workerOnly, mined>>

\* The channel of the goroutine is closed.
WorkerEnds(w) ==
  /\ worker[w].at = "idle" /\ worker[w].told
  /\ worker' = [worker EXCEPT ![w].at = "none"]
  /\ UNCHANGED <<workerOnly, mined>>

-----------------------------------------------------------------------------
(* The calls of the node.                                                  *)

callOnly == <<now, committee, lastIndex, calls, mined>>

Begin(c) ==
  /\ call = "none" /\ calls < MaxCalls
  /\ c = "start" => \E w \in Worker : worker[w].at = "none"
  /\ call' = c /\ calls' = calls + 1
  /\ UNCHANGED <<syncVars, now, subscribed, committee, lastIndex, conStopped,
                 minerStatus, once, worker, updateCh, mined>>

\* NewMiner and Init, which registers the handler of DwlDone.
MinerInit == minerStatus' = 2 /\ once' = TRUE

\* node.StartMiner and node.Start: a miner is made and initialised if there is
\* none.
StartInit ==
  /\ call = "start"
  /\ call' = "start2"
  /\ IF minerStatus = 0 THEN MinerInit
     ELSE UNCHANGED <<minerStatus, once>>
  /\ UNCHANGED <<syncVars, subscribed, conStopped, worker, updateCh, callOnly>>

\* PreStart fails without effect unless the miner was initialised or stopped.
PreStart(s) == IF s \in {2, 6} THEN 3 ELSE s

\* miner.Start: the result of PreStart is not looked at.
StartSubscribe ==
  /\ call = "start2"
  /\ call' = "start3"
  /\ minerStatus' = PreStart(minerStatus)
  /\ subscribed' = (subscribed \/ done)
  /\ UNCHANGED <<syncVars, conStopped, once, worker, updateCh, callOnly>>

\* worker.Start: a channel and a goroutine of its own; PostStart.
StartWorker ==
  /\ call = "start3"
  /\ \E w \in Worker :
       /\ worker[w].at = "none" /\ \A v \in Worker : worker[v].at = "none" => w <= v
       /\ worker' = [worker EXCEPT ![w] = [at |-> "new", slot |-> 0, told |-> FALSE]]
       /\ updateCh' = w
  /\ call' = "none" /\ minerStatus' = 4
  /\ UNCHANGED <<syncVars, subscribed, conStopped, once, callOnly>>

\* Faulty: the goroutine is not told.
TellNone(w) == worker

\* close(self.updateCh) closes the channel of the goroutine started last.
Tell(w) == [worker EXCEPT ![w].told = TRUE]

\* miner.Stop and worker.Stop: PreStop panics unless the miner was started.
StopTell ==
  /\ call \in {"stop", "node stop"} /\ minerStatus # 0
  /\ IF minerStatus = 4
     THEN /\ call' = IF call = "stop" THEN "stop2" ELSE "node stop2"
          /\ minerStatus' = 5
          /\ worker' = Tell(updateCh)
     ELSE call' = "panic" /\ UNCHANGED <<minerStatus, worker>>
  /\ UNCHANGED <<syncVars, subscribed, conStopped, once, updateCh, callOnly>>

\* Goroutines that updateWg counts.
Counted(w) == worker[w].at \in {"idle", "mining", "inserting"}

\* updateWg.Wait returns; Subscribe(nil); PostStop.
StopWait ==
  /\ call \in {"stop2", "node stop2"}
  /\ \A w \in Worker : ~Counted(w)
  /\ subscribed' = FALSE /\ minerStatus' = 6
  /\ call' = IF call = "stop2" THEN "none" ELSE "node stop3"
  /\ UNCHANGED <<syncVars, conStopped, once, worker, updateCh, callOnly>>

\* node.StopMiner without a miner does nothing.
StopNothing ==
  /\ call \in {"stop", "node stop"} /\ minerStatus = 0
  /\ call' = IF call = "stop" THEN "none" ELSE "node stop3"
  /\ UNCHANGED <<syncVars, subscribed, conStopped, minerStatus, once, worker,
                 updateCh, callOnly>>

\* node.Stop: the committee is stopped, then state.stop closes state.closed.
StopRest ==
  /\ call = "node stop3"
  /\ conStopped' = TRUE /\ syncClosed' = TRUE
  /\ call' = "node stop4"
  /\ UNCHANGED <<at, after, timedOut, task, peerHeight, head, top, subscribed,
                 minerStatus, once, worker, updateCh, callOnly>>

\* state.stop waits for syncFirst.
StopDone ==
  /\ call = "node stop4" /\ at = "end"
  /\ call' = "stopped"
  /\ UNCHANGED <<syncVars, subscribed, conStopped, minerStatus, once, worker,
                 updateCh, callOnly>>

\* The miner's handler of DwlDone, which is run once.
DwlDone ==
  /\ PublishDone
  /\ subscribed' = (subscribed \/ once) /\ once' = FALSE
  /\ UNCHANGED <<now, committee, lastIndex, conStopped, minerStatus, worker,
                 updateCh, call, calls, mined>>

\* The first synchronisation and its surroundings.
Sync == (SyncStep \/ SyncWorld) /\ UNCHANGED prodVars

-----------------------------------------------------------------------------
CallStep ==
  \/ StartInit \/ StartSubscribe \/ StartWorker
  \/ StopTell \/ StopWait \/ StopNothing \/ StopRest \/ StopDone

\* The steps a worker takes on its own account.
WorkerStep(w) == WorkerBegins(w) \/ Mine(w) \/ WorkerEnds(w)

Running == call # "panic" /\ at # "panic"

ProdNext ==
  /\ Running
  /\ \/ Clock \/ Sync \/ DwlDone
     \/ Elect \/ NotifyTimeout \/ Wake
     \/ \E w \in Worker : Notify(w) \/ WorkerStep(w) \/ Inserted(w)
     \/ \E c \in {"start", "stop", "node stop"} : Begin(c)
     \/ CallStep

-----------------------------------------------------------------------------
(* Properties.                                                             *)

\* The variables have their types.
ProdTypeOK ==
  /\ at \in Waiting \cup {"ask", "close", "mark", "publish", "end", "panic"}
  /\ after \in Waiting \cup {"end"}
  /\ {timedOut, taClosed, done, published, syncClosed} \subseteq BOOLEAN
  /\ peerHeight \in [Peer -> Height \cup {NoPeer}]
  /\ {taHeight, head, top} \subseteq Height
  /\ now \in 0 .. MaxTime /\ lastIndex \in -1 .. MaxTime
  /\ {subscribed, conStopped, once} \subseteq BOOLEAN
  /\ committee \in [at : {"elect", "nap", "notify", "rest", "end"},
                    index : 0 .. MaxTime, slot : Slot]
  /\ minerStatus \in MinerStatus
  /\ worker \in [Worker -> [at : {"none", "new", "idle", "mining", "inserting"},
                            slot : Slot, told : BOOLEAN]]
  /\ updateCh \in Worker \cup {0} /\ calls \in 0 .. MaxCalls
  /\ mined \in [Slot -> 0 .. 2]

\* The miner makes at most one block for a slot: also when it is stopped and
\* started again while the committee holds its old subscription, when two
\* workers listen, and when a round is not recorded because its notification
\* timed out.
OneBlockPerSlot == \A s \in Slot : mined[s] <= 1

\* Every block the miner makes has a time that verifyProducer accepts for its
\* coinbase, also when the committee wakes up late.
ProducedVerifies ==
  \A s \in Slot : mined[s] > 0 => VerifyProducer(Coinbase, s)

\* A miner that runs after the first synchronisation is subscribed, whether it
\* was started before, while or after DwlDone was published, and also when it
\* is made later and misses the event.
MinerSubscribed ==
  published /\ minerStatus = 4 /\ call = "none" => subscribed

\* The first synchronisation is finished once.  Only if the 50 s ran out can a
\* tick that is ready at the same time find a peer and finish it again, which
\* closes firstTa.closed twice and panics.
SyncDoneOnce == at = "panic" => timedOut

\* A goroutine that StopMiner does not reach: the miner was started twice, and
\* worker.updateCh is the channel of the second goroutine.
Stray == \E w \in Worker : w # updateCh /\ Counted(w)

\* A goroutine is in MiningSnapshotBlock.
InLedger == \E w \in Worker : worker[w].at = "inserting"

=============================================================================
