-------------------------------- MODULE Fetch --------------------------------
(***************************************************************************)
(* Fetching one block of another node: the retry policy                    *)
(* (src/syncer/fetcher.go), the messages of the sender and the handlers on *)
(* both sides (src/syncer/sender.go, handler_reqs.go, receiver.go).        *)
(*                                                                         *)
(* The pool asks for the block as long as it lacks it.  A request first    *)
(* asks for hashes, under a key of hash and height, and the answer is      *)
(* turned into a request for blocks, under the hash alone; both keys are   *)
(* held back by the same policy.  Snapshot and account blocks go the same  *)
(* way, by handlers of the same form.  The first synchronisation asks for  *)
(* the head of its peer, once, and does not ask the policy.  Messages may  *)
(* be lost: a queue is full, there is no peer, a link breaks.              *)
(***************************************************************************)
EXTENDS Integers

CONSTANTS
  RetryLimit,   \* 10: calls of retry before an open request is repeated
  RetryTime,    \* 2 s: time before an open request is repeated
  DoneLimit,    \* 5: calls of retry before a finished request is repeated
  DoneTime      \* 3 s: time before a finished request is repeated

ASSUME FetchAssumption ==
  /\ {RetryLimit, RetryTime, DoneLimit, DoneTime} \subseteq Nat
  /\ RetryTime <= DoneTime

VARIABLES
  retryStatus,  \* fetchedHashs
  net,          \* messages on their way between the two nodes
  have,         \* the pool has the block, free, in a snippet or in a chain
  contained,    \* blockPool.contains: its hash is free or compounded
  firstAsked,   \* syncFirst has asked its peer for it
  since,        \* history: the time since retry last let a request under a
                \* key pass
  gap           \* history: the time between the last two it let pass

fetchVars == <<retryStatus, net, have, contained, firstAsked, since, gap>>

Key == {"hashes", "block"}
Message == {"RequestHash", "Hashes", "RequestBlocks", "Blocks"}
MaxAge == DoneTime + 1
MaxGap == RetryTime + 1
MaxCount == IF RetryLimit > DoneLimit THEN RetryLimit + 1 ELSE DoneLimit + 1

\* Counts and times matter up to the limits they are compared with.
UpTo(bound, x) == IF x > bound THEN bound ELSE x

\* `age' is the time since ftime, and since dtime once the request is done:
\* retry looks at no other.
NoStatus == [known |-> FALSE, cnt |-> 0, done |-> FALSE, age |-> 0]
NewStatus == [known |-> TRUE, cnt |-> 1, done |-> FALSE, age |-> 0]

FetchInit ==
  /\ retryStatus = [k \in Key |-> NoStatus]
  /\ net = {} /\ have = FALSE /\ contained = FALSE /\ firstAsked = FALSE
  /\ since = [k \in Key |-> MaxGap]
  /\ gap = [k \in Key |-> MaxGap]

-----------------------------------------------------------------------------

\* Faulty: calls that are held back are not counted.
IncNot(s) == s

Inc(s) == [s EXCEPT !.cnt = UpTo(MaxCount, @ + 1)]

\* The answer of retry, after the call has been counted.
MayRetry(s) ==
  \/ ~s.known
  \/ s.known /\ s.done /\ Inc(s).cnt > DoneLimit /\ s.age > DoneTime
  \/ s.known /\ ~s.done /\ Inc(s).cnt > RetryLimit /\ s.age > RetryTime

\* A request is written to the best peer.
Requested(m, rest) == rest \cup {m}

\* The answer a to the request q is written to the peer that asked.
Answered(q, a) == (net \ {q}) \cup {a}

\* retry, and message m is sent if it says so.
Retry(k, m, rest) ==
  IF MayRetry(retryStatus[k])
  THEN /\ retryStatus' = [retryStatus EXCEPT ![k] = NewStatus]
       /\ net' = Requested(m, rest)
       /\ since' = [since EXCEPT ![k] = 0]
       /\ gap' = [gap EXCEPT ![k] = since[k]]
  ELSE /\ retryStatus' = [retryStatus EXCEPT ![k] = Inc(@)]
       /\ net' = rest
       /\ UNCHANGED <<since, gap>>

\* Faulty: a request that is done is forgotten.
FinishForget(s) == NoStatus

\* done, whether or not the block was asked for.
Finish(s) == [known |-> TRUE, cnt |-> 0, done |-> TRUE, age |-> 0]

-----------------------------------------------------------------------------

pool == <<have, contained, firstAsked>>

\* Fetch, FetchSnapshot and FetchAccount: the pool lacks the block.
AskHashes ==
  /\ ~have
  /\ Retry("hashes", "RequestHash", net)
  /\ UNCHANGED pool

\* reqSnapshotHashHandler, reqAccountHashHandler: the peer has the block.
AnswerHashes ==
  /\ "RequestHash" \in net
  /\ net' = Answered("RequestHash", "Hashes")
  /\ UNCHANGED <<retryStatus, pool, since, gap>>

\* fetchSnapshotBlockByHash, fetchAccountBlockByHash.
FetchByHash(rest) == Retry("block", "RequestBlocks", rest)

\* snapshotHashHandler, accountHashHandler.
HandleHashes ==
  /\ "Hashes" \in net
  /\ FetchByHash(net \ {"Hashes"})
  /\ UNCHANGED pool

\* fetchSnapshotBlockFromPeer, which asks the peer that has it.
FetchFromPeer == Retry("block", "RequestBlocks", net)

\* stateHandler and state.update: a peer announces the block as its head, which
\* is above the node's own; the pool may have the block all the same.
HandleState ==
  /\ FetchFromPeer
  /\ UNCHANGED pool

\* syncFirst: the head of the peer it has found is asked for, whatever retry
\* would say and without its knowledge; once in the life of the node.
FirstRequest ==
  /\ ~firstAsked /\ firstAsked' = TRUE
  /\ net' = Requested("RequestBlocks", net)
  /\ UNCHANGED <<retryStatus, have, contained, since, gap>>

\* reqSnapshotBlocksHandler, reqAccountBlocksHandler.
AnswerBlocks ==
  /\ "RequestBlocks" \in net
  /\ net' = Answered("RequestBlocks", "Blocks")
  /\ UNCHANGED <<retryStatus, pool, since, gap>>

\* BroadcastSnapshotBlocks, BroadcastAccountBlocks: blocks nobody asked for.
Broadcast ==
  /\ "Blocks" \notin net
  /\ net' = net \cup {"Blocks"}
  /\ UNCHANGED <<retryStatus, pool, since, gap>>

\* snapshotBlocksHandler, accountBlocksHandler: done, then AddBlock, which
\* refuses a hash it contains.
HandleBlocks ==
  /\ "Blocks" \in net
  /\ net' = net \ {"Blocks"}
  /\ retryStatus' = [retryStatus EXCEPT !["block"] = Finish(@)]
  /\ have' = (have \/ ~contained) /\ contained' = TRUE
  /\ UNCHANGED <<firstAsked, since, gap>>

\* tryInsert drops the block inside the heights of a snippet, or the block goes
\* with its chain; its hash stays compounded.
DropBlock ==
  /\ have
  /\ have' = FALSE
  /\ UNCHANGED <<retryStatus, net, contained, firstAsked, since, gap>>

LoseMessage ==
  /\ \E m \in net : net' = net \ {m}
  /\ UNCHANGED <<retryStatus, pool, since, gap>>

Second ==
  /\ retryStatus' = [k \in Key |->
       IF ~retryStatus[k].known THEN NoStatus
       ELSE [retryStatus[k] EXCEPT !.age = UpTo(MaxAge, @ + 1)]]
  /\ since' = [k \in Key |-> UpTo(MaxGap, since[k] + 1)]
  /\ UNCHANGED <<net, pool, gap>>

FetchNext ==
  \/ AskHashes \/ AnswerHashes \/ HandleHashes \/ HandleState \/ FirstRequest
  \/ AnswerBlocks \/ Broadcast \/ HandleBlocks
  \/ DropBlock \/ LoseMessage \/ Second

-----------------------------------------------------------------------------

StatusType == [known : BOOLEAN, cnt : 0 .. MaxCount, done : BOOLEAN,
               age : 0 .. MaxAge]

\* The variables have their types.
FetchTypeOK ==
  /\ retryStatus \in [Key -> StatusType]
  /\ net \subseteq Message /\ {have, contained, firstAsked} \subseteq BOOLEAN
  /\ since \in [Key -> 0 .. MaxGap] /\ gap \in [Key -> 0 .. MaxGap]

\* Two requests for the same thing that go through retry are more than RetryTime
\* apart, also when the block arrived in between, asked for or not, by the answer
\* to the request of syncFirst or to another, was lost by the pool again, and is
\* announced by several peers at once.  syncFirst's own request is the only one
\* that may come closer.
SendsApart == \A k \in Key : gap[k] > RetryTime

=============================================================================
