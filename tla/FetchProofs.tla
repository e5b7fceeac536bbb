----------------------------- MODULE FetchProofs -----------------------------
(***************************************************************************)
(* Proofs about Fetch, for all limits of the retry policy and any loss of  *)
(* messages.                                                               *)
(***************************************************************************)
EXTENDS Fetch, TLAPS

FetchSpec == FetchInit /\ [][FetchNext]_fetchVars

(***************************************************************************)
(* Why requests stay apart: a status that is not known was never asked for *)
(* and nothing was asked under its key; a known one that is open is as old *)
(* as the last request.  A finished one may be younger than the request,   *)
(* never older, and waits longer.                                          *)
(***************************************************************************)
AgeKept ==
  \A k \in Key :
    /\ ~retryStatus[k].known => since[k] = MaxGap
    /\ UpTo(MaxGap, retryStatus[k].age) <= since[k]
    /\ gap[k] > RetryTime

LEMMA UpToType ==
  ASSUME NEW b \in Nat, NEW x \in Nat
  PROVE  UpTo(b, x) \in 0 .. b
BY DEF UpTo

\* The bounds are natural numbers, and a finished request waits longer.
LEMMA Bounds ==
  /\ MaxAge \in Nat /\ MaxGap \in Nat /\ MaxCount \in Nat
  /\ MaxGap <= MaxAge /\ MaxGap = RetryTime + 1 /\ MaxAge = DoneTime + 1
  /\ 1 <= MaxCount
  /\ RetryTime \in Nat /\ DoneTime \in Nat
BY FetchAssumption DEF MaxAge, MaxGap, MaxCount

\* retry keeps the types, whatever it answers.
LEMMA RetryType ==
  ASSUME FetchTypeOK, NEW k \in Key, NEW m \in Message, NEW rest \in SUBSET Message,
         Retry(k, m, rest)
  PROVE  /\ retryStatus' \in [Key -> StatusType] /\ net' \subseteq Message
         /\ since' \in [Key -> 0 .. MaxGap] /\ gap' \in [Key -> 0 .. MaxGap]
<1>1. NewStatus \in StatusType
  BY Bounds DEF NewStatus, StatusType
<1>2. Inc(retryStatus[k]) \in StatusType
  BY Bounds, UpToType DEF FetchTypeOK, StatusType, Inc
<1> QED
  BY <1>1, <1>2, Bounds DEF Retry, Requested, FetchTypeOK

\* The messages on their way, the pool and the clock keep the types.
LEMMA FetchTypeStep == FetchTypeOK /\ [FetchNext]_fetchVars => FetchTypeOK'
<1> SUFFICES ASSUME FetchTypeOK, [FetchNext]_fetchVars PROVE FetchTypeOK'
  OBVIOUS
<1> USE DEF FetchTypeOK, pool
<1>1. CASE AskHashes
  BY <1>1, RetryType DEF AskHashes, Key, Message
<1>2. CASE AnswerHashes
  BY <1>2 DEF AnswerHashes, Answered, Message
<1>3. CASE HandleHashes
  BY <1>3, RetryType DEF HandleHashes, FetchByHash, Key, Message
<1>4. CASE HandleState
  BY <1>4, RetryType DEF HandleState, FetchFromPeer, Key, Message
<1>5. CASE AnswerBlocks
  BY <1>5 DEF AnswerBlocks, Answered, Message
<1>6. CASE Broadcast
  BY <1>6 DEF Broadcast, Message
<1>7. CASE HandleBlocks
  <2>1. \A s : Finish(s) \in StatusType
    BY Bounds DEF Finish, StatusType
  <2>2. have' \in BOOLEAN /\ contained' \in BOOLEAN
    BY <1>7 DEF HandleBlocks
  <2> QED
    BY <1>7, <2>1, <2>2 DEF HandleBlocks, Key, Message
<1>8. CASE DropBlock
  BY <1>8 DEF DropBlock
<1>9. CASE LoseMessage
  BY <1>9 DEF LoseMessage
<1>10. CASE Second
  <2>1. NoStatus \in StatusType
    BY Bounds DEF NoStatus, StatusType
  <2>2. \A s \in StatusType : [s EXCEPT !.age = UpTo(MaxAge, @ + 1)] \in StatusType
    BY Bounds, UpToType DEF StatusType
  <2>3. \A k \in Key : UpTo(MaxGap, since[k] + 1) \in 0 .. MaxGap
    <3> SUFFICES ASSUME NEW k \in Key PROVE UpTo(MaxGap, since[k] + 1) \in 0 .. MaxGap
      OBVIOUS
    <3>1. since[k] \in 0 .. MaxGap
      OBVIOUS
    <3>2. since[k] + 1 \in Nat
      BY <3>1, Bounds
    <3> QED
      BY <3>2, Bounds, UpToType
  <2> QED
    BY <1>10, <2>1, <2>2, <2>3 DEF Second
<1>11. CASE FirstRequest
  BY <1>11 DEF FirstRequest, Requested, Message
<1>12. CASE UNCHANGED fetchVars
  BY <1>12 DEF fetchVars
<1> QED
  BY <1>1, <1>2, <1>3, <1>4, <1>5, <1>6, <1>7, <1>8, <1>9, <1>10, <1>11, <1>12
     DEF FetchNext

\* The retry policy's counts, times and messages keep their types.
THEOREM FetchTypeCorrect == FetchSpec => []FetchTypeOK
<1>1. FetchInit => FetchTypeOK
  <2>1. NoStatus \in StatusType
    BY Bounds DEF NoStatus, StatusType
  <2>2. MaxGap \in 0 .. MaxGap 
    BY Bounds
  <2> QED
    BY <2>1, <2>2, Zenon DEF FetchInit, FetchTypeOK
<1> QED
  BY <1>1, FetchTypeStep, PTL DEF FetchSpec

-----------------------------------------------------------------------------
\* A request is sent only when the last one under its key is old enough.
LEMMA RetryApart ==
  ASSUME FetchTypeOK, AgeKept, NEW k \in Key, MayRetry(retryStatus[k])
  PROVE  since[k] > RetryTime
<1>1. CASE ~retryStatus[k].known
  BY <1>1, Bounds DEF AgeKept
<1>2. CASE retryStatus[k].age > RetryTime
  <2>1. retryStatus[k].age \in Nat
    BY Bounds DEF FetchTypeOK, StatusType
  <2>2. UpTo(MaxGap, retryStatus[k].age) = MaxGap
    BY <1>2, <2>1, Bounds DEF UpTo
  <2> QED
    BY <2>2, Bounds DEF AgeKept, FetchTypeOK
<1>3. retryStatus[k].age \in Nat
  BY Bounds DEF FetchTypeOK, StatusType
<1> QED
  BY <1>1, <1>2, <1>3, FetchAssumption DEF MayRetry

\* Whatever retry answers, the ages stay in step with the requests.
LEMMA RetryAge ==
  ASSUME FetchTypeOK, AgeKept, NEW k \in Key, NEW m, NEW rest, Retry(k, m, rest)
  PROVE  AgeKept'
<1>1. CASE MayRetry(retryStatus[k])
  <2>1. since[k] > RetryTime
    BY <1>1, RetryApart
  <2>2. NewStatus.known /\ NewStatus.age = 0
    BY DEF NewStatus
  <2>3. UpTo(MaxGap, 0) = 0
    BY Bounds DEF UpTo
  <2> QED
    BY <1>1, <2>1, <2>2, <2>3, Bounds DEF Retry, AgeKept, FetchTypeOK
<1>2. CASE ~MayRetry(retryStatus[k])
  <2>1. /\ Inc(retryStatus[k]).age = retryStatus[k].age
        /\ Inc(retryStatus[k]).known = retryStatus[k].known
    BY DEF Inc, FetchTypeOK, StatusType
  <2> QED
    BY <1>2, <2>1 DEF Retry, AgeKept, FetchTypeOK
<1> QED
  BY <1>1, <1>2

LEMMA AgeStep == FetchTypeOK /\ AgeKept /\ [FetchNext]_fetchVars => AgeKept'
<1> SUFFICES ASSUME FetchTypeOK, AgeKept, [FetchNext]_fetchVars PROVE AgeKept'
  OBVIOUS
<1>1. CASE AskHashes
  BY <1>1, RetryAge DEF AskHashes, Key
<1>2. CASE HandleHashes
  BY <1>2, RetryAge DEF HandleHashes, FetchByHash, Key
<1>3. CASE HandleState
  BY <1>3, RetryAge DEF HandleState, FetchFromPeer, Key
<1>4. CASE HandleBlocks
  <2>1. \A s : Finish(s).known /\ Finish(s).age = 0
    BY DEF Finish
  <2>2. UpTo(MaxGap, 0) = 0
    BY Bounds DEF UpTo
  <2> QED
    BY <1>4, <2>1, <2>2, Bounds DEF HandleBlocks, AgeKept, FetchTypeOK
<1>5. CASE Second
  <2> SUFFICES ASSUME NEW k \in Key
               PROVE  /\ ~retryStatus'[k].known => since'[k] = MaxGap
                      /\ UpTo(MaxGap, retryStatus'[k].age) <= since'[k]
    BY <1>5 DEF Second, AgeKept
  <2>1. since'[k] = UpTo(MaxGap, since[k] + 1) /\ since[k] \in 0 .. MaxGap
    BY <1>5 DEF Second, FetchTypeOK
  <2>2. CASE ~retryStatus[k].known
    <3>1. since'[k] = MaxGap
      BY <2>1, <2>2, Bounds DEF AgeKept, UpTo
    <3>2. retryStatus'[k].age = 0
      BY <1>5, <2>2 DEF Second, NoStatus
    <3> QED
      BY <3>1, <3>2, Bounds DEF UpTo
  <2>3. CASE retryStatus[k].known
    <3>1. /\ retryStatus'[k].known
          /\ retryStatus'[k].age = UpTo(MaxAge, retryStatus[k].age + 1)
      BY <1>5, <2>3 DEF Second, FetchTypeOK, StatusType
    <3>2. retryStatus[k].age \in 0 .. MaxAge
      BY DEF FetchTypeOK, StatusType
    <3>3. UpTo(MaxGap, retryStatus[k].age) <= since[k]
      BY DEF AgeKept
    <3> QED
      BY <2>1, <3>1, <3>2, <3>3, Bounds DEF UpTo
  <2> QED
    BY <2>2, <2>3
<1>6. CASE UNCHANGED <<retryStatus, since, gap>>
  BY <1>6 DEF AgeKept
<1> QED
  BY <1>1, <1>2, <1>3, <1>4, <1>5, <1>6
     DEF FetchNext, fetchVars, AnswerHashes, AnswerBlocks, Broadcast, DropBlock,
         LoseMessage, FirstRequest

\* For all limits with RetryTime <= DoneTime, whatever is lost, broadcast or
\* dropped, two requests under one key that retry (src/syncer/fetcher.go) lets pass
\* are more than RetryTime apart: a block that arrives unasked, or as the answer to
\* the request that syncFirst sends past the policy, restarts the policy's clock
\* and never lets a request out early.
THEOREM RequestsApart == FetchSpec => []SendsApart
<1>1. FetchInit => AgeKept
  BY Bounds DEF FetchInit, AgeKept, NoStatus, UpTo
<1>2. AgeKept => SendsApart
  BY DEF AgeKept, SendsApart
<1> QED
  BY <1>1, <1>2, AgeStep, FetchTypeCorrect, PTL DEF FetchSpec

=============================================================================
