----------------------- MODULE FireworksTransport_proofs ----------------------
(***************************************************************************)
(* Proofs about one call of the Fireworks client, for every retry limit,   *)
(* budget, backoff and duration of a request.                              *)
(***************************************************************************)
EXTENDS FireworksTransport, TLAPS

\* Positions in the loop, with the number of posts made by then.
Position ==
    /\ pc = "check"   => attempt < MaxRetries /\ Len(replies) = attempt
    /\ pc = "post"    => attempt < MaxRetries /\ Len(replies) = attempt
    /\ pc = "backoff" => attempt < MaxRetries - 1 /\ Len(replies) = attempt + 1
    /\ pc = "done"    => Len(replies) <= MaxRetries

\* A request is in flight only if it started within the budget.
Budget ==
    /\ pc = "post" => now < Timeout
    /\ OverrunBounded

\* last_error is the failure of the latest post while the loop runs.
LastError ==
    pc # "done" =>
        last_error = IF replies = <<>> THEN NoError ELSE replies[Len(replies)]

IInv == TypeOK /\ Position /\ Budget

RInv == RetriesOnlyTransient /\ LastError /\ ReportsLastReply

LEMMA RepliesAreNotMarkers ==
    /\ NoError \notin Replies /\ Pending \notin Replies
    /\ BudgetError \in Replies
  BY DEF Replies, NoError, Pending, BudgetError, ReplyKinds, Texts

(***************************************************************************)
(* A sleep lasts a natural number of ticks and ends by the deadline, if    *)
(* the deadline has not passed already (the clamp of time.sleep).          *)
(***************************************************************************)
LEMMA SleepFits ==
    ASSUME now \in Nat, NEW index \in Nat, NEW delay \in RetryDelays(index)
    PROVE  /\ SleepFor(delay) \in Nat
           /\ now + SleepFor(delay) <= Timeout \/ SleepFor(delay) = 0
  <1>1. delay \in Nat
    BY TimeAssumption DEF RetryDelays
  <1> QED BY <1>1, TimeAssumption DEF SleepFor, Smaller

(***************************************************************************)
(* The inductive invariant: types, the position in the loop against the    *)
(* number of posts, and the clock against the budget.                      *)
(***************************************************************************)
LEMMA InitIInv == Init => IInv
  <1> SUFFICES ASSUME Init PROVE IInv
    OBVIOUS
  <1>1. TypeOK
    BY RetriesAssumption DEF Init, TypeOK
  <1>2. Position
    BY RetriesAssumption DEF Init, Position
  <1>3. Budget
    BY TimeAssumption DEF Init, Budget, OverrunBounded
  <1> QED BY <1>1, <1>2, <1>3 DEF IInv

LEMMA NextIInv == IInv /\ [Next]_vars => IInv'
  <1> SUFFICES ASSUME IInv, [Next]_vars PROVE IInv'
    OBVIOUS
  <1> USE RetriesAssumption, TimeAssumption DEF IInv, TypeOK
  <1>1. CASE GiveUp
    <2>1. TypeOK'
      BY <1>1, RepliesAreNotMarkers DEF GiveUp, Return
    <2>2. Position' /\ Budget'
      BY <1>1 DEF GiveUp, Return, Position, Budget, OverrunBounded
    <2> QED BY <2>1, <2>2
  <1>2. CASE SendPost
    BY <1>2 DEF SendPost, Position, Budget, OverrunBounded
  <1>3. ASSUME NEW reply \in Replies, NEW elapsed \in 0 .. MaxPost, pc = "post",
               Record(reply, elapsed)
        PROVE  /\ now' \in Nat /\ now' < Timeout + MaxPost
               /\ replies' \in Seq(Replies) /\ Len(replies') = attempt + 1
    BY <1>3 DEF Record, Position, Budget
  <1>4. ASSUME NEW reply \in Replies, NEW elapsed \in 0 .. MaxPost,
               PostAnswered(reply, elapsed)
        PROVE  IInv'
    <2>1. pc = "post" /\ Record(reply, elapsed)
      BY <1>4 DEF PostAnswered, Record
    <2>2. TypeOK'
      BY <1>3, <1>4, <2>1 DEF PostAnswered, Return
    <2>3. Position' /\ Budget'
      BY <1>3, <1>4, <2>1 DEF PostAnswered, Return, Position, Budget, OverrunBounded
    <2> QED BY <2>2, <2>3
  <1>5. ASSUME NEW reply \in Replies, NEW elapsed \in 0 .. MaxPost,
               PostFailed(reply, elapsed)
        PROVE  IInv'
    <2>1. pc = "post" /\ Record(reply, elapsed)
      BY <1>5 DEF PostFailed, Record
    <2>2. TypeOK'
      BY <1>3, <1>5, <2>1 DEF PostFailed, Return
    <2>3. Position' /\ Budget'
      BY <1>3, <1>5, <2>1 DEF PostFailed, Return, Position, Budget, OverrunBounded
    <2> QED BY <2>2, <2>3
  <1>6. ASSUME NEW reply \in Replies, NEW elapsed \in 0 .. MaxPost,
               PostTransient(reply, elapsed)
        PROVE  IInv'
    <2>1. pc = "post" /\ Record(reply, elapsed)
      BY <1>6 DEF PostTransient, Record
    <2>2. TypeOK'
      BY <1>3, <1>6, <2>1 DEF PostTransient, Return
    <2>3. Position' /\ Budget'
      BY <1>3, <1>6, <2>1
         DEF PostTransient, Return, Position, Budget, OverrunBounded, LastAttempt
    <2> QED BY <2>2, <2>3
  <1>7. CASE Backoff
    <2>1. PICK delay \in RetryDelays(attempt) : now' = now + SleepFor(delay)
      BY <1>7 DEF Backoff
    <2>2. /\ SleepFor(delay) \in Nat
          /\ now + SleepFor(delay) <= Timeout \/ SleepFor(delay) = 0
      BY SleepFits
    <2>3. now' \in Nat /\ now' < Timeout + MaxPost
      BY <2>1, <2>2 DEF Budget, OverrunBounded
    <2>4. attempt < MaxRetries - 1 /\ Len(replies) = attempt + 1
      BY <1>7 DEF Backoff, Position
    <2>5. TypeOK'
      BY <1>7, <2>3, <2>4 DEF Backoff
    <2>6. Position' /\ Budget'
      BY <1>7, <2>3, <2>4 DEF Backoff, Position, Budget, OverrunBounded
    <2> QED BY <2>5, <2>6
  <1>8. CASE UNCHANGED vars
    BY <1>8 DEF vars, Position, Budget, OverrunBounded
  <1> QED BY <1>1, <1>2, <1>4, <1>5, <1>6, <1>7, <1>8 DEF Next, PostReturns

(***************************************************************************)
(* Every reachable state is well typed.                                    *)
(***************************************************************************)
THEOREM TypeCorrect == Spec => []TypeOK
  <1>1. IInv => TypeOK
    BY DEF IInv
  <1> QED BY InitIInv, NextIInv, <1>1, PTL DEF Spec

(***************************************************************************)
(* A call never overruns its budget by more than the one request that was  *)
(* in flight at the deadline: backoff cannot stretch it.                   *)
(***************************************************************************)
THEOREM OverrunTheorem == Spec => []OverrunBounded
  <1>1. IInv => OverrunBounded
    BY DEF IInv, Budget
  <1> QED BY InitIInv, NextIInv, <1>1, PTL DEF Spec

(***************************************************************************)
(* A call never posts more than max_transport_retries times.               *)
(***************************************************************************)
THEOREM PostsTheorem == Spec => []BoundedPosts
  <1>1. IInv => BoundedPosts
    BY RetriesAssumption DEF IInv, TypeOK, Position, BoundedPosts
  <1> QED BY InitIInv, NextIInv, <1>1, PTL DEF Spec

-----------------------------------------------------------------------------
LEMMA InitRInv == Init => RInv
  BY DEF Init, RInv, RetriesOnlyTransient, LastError, ReportsLastReply

(***************************************************************************)
(* What a post adds to the replies: one at the end, the others unchanged.  *)
(***************************************************************************)
LEMMA RecordAppends ==
    ASSUME replies \in Seq(Replies), NEW reply \in Replies, NEW elapsed,
           Record(reply, elapsed)
    PROVE  /\ replies' # <<>> /\ Len(replies') = Len(replies) + 1
           /\ replies'[Len(replies')] = reply
           /\ \A i \in 1 .. Len(replies) : replies'[i] = replies[i]
  BY DEF Record

LEMMA NextRInv == IInv /\ RInv /\ [Next]_vars => RInv'
  <1> SUFFICES ASSUME IInv, RInv, [Next]_vars PROVE RInv'
    OBVIOUS
  <1>t. TypeOK /\ Position
    BY DEF IInv
  <1>r. replies \in Seq(Replies)
    BY <1>t DEF TypeOK
  <1> USE DEF RInv, RetriesOnlyTransient, LastError, ReportsLastReply
  <1>1. CASE GiveUp
    <2>1. pc = "check" /\ pc' = "done" /\ replies' = replies
      BY <1>1 DEF GiveUp, Return
    <2>2. result' = IF replies = <<>> THEN BudgetError ELSE replies[Len(replies)]
      <3>1. CASE replies = <<>>
        BY <1>1, <3>1 DEF GiveUp, Return
      <3>2. CASE replies # <<>>
        <4>1. last_error = replies[Len(replies)]
          BY <2>1, <3>2
        <4>2. replies[Len(replies)] \in Replies
          BY <1>r, <3>2
        <4> QED BY <1>1, <4>1, <4>2, <3>2, RepliesAreNotMarkers DEF GiveUp, Return
      <3> QED BY <3>1, <3>2
    <2> QED BY <2>1, <2>2
  <1>2. CASE SendPost
    BY <1>2 DEF SendPost
  <1>3. ASSUME NEW reply \in Replies, NEW elapsed \in 0 .. MaxPost,
               PostAnswered(reply, elapsed) \/ PostFailed(reply, elapsed)
        PROVE  RInv'
    <2>1. pc = "post" /\ Record(reply, elapsed) /\ pc' = "done" /\ result' = reply
      BY <1>3 DEF PostAnswered, PostFailed, Record, Return
    <2>2. \A i \in 1 .. Len(replies) : Retryable(replies[i])
      BY <2>1
    <2> QED BY <1>r, <2>1, <2>2, RecordAppends
  <1>4. ASSUME NEW reply \in Replies, NEW elapsed \in 0 .. MaxPost,
               PostTransient(reply, elapsed)
        PROVE  RInv'
    <2>1. /\ pc = "post" /\ Record(reply, elapsed) /\ Retryable(reply)
          /\ last_error' = reply
          /\ pc' = "backoff" \/ (pc' = "done" /\ result' = reply)
      BY <1>4 DEF PostTransient, Record, Return
    <2>2. \A i \in 1 .. Len(replies) : Retryable(replies[i])
      BY <2>1
    <2> QED BY <1>r, <2>1, <2>2, RecordAppends
  <1>5. CASE Backoff
    BY <1>5 DEF Backoff
  <1>6. CASE UNCHANGED vars
    BY <1>6 DEF vars
  <1> QED BY <1>1, <1>2, <1>3, <1>4, <1>5, <1>6 DEF Next, PostReturns

(***************************************************************************)
(* Only transient failures are followed by another post.                   *)
(***************************************************************************)
THEOREM RetryTheorem == Spec => []RetriesOnlyTransient
  <1>1. RInv => RetriesOnlyTransient
    BY DEF RInv
  <1> QED BY InitIInv, NextIInv, InitRInv, NextRInv, <1>1, PTL DEF Spec

(***************************************************************************)
(* A call returns what the provider said last.                             *)
(***************************************************************************)
THEOREM ReportTheorem == Spec => []ReportsLastReply
  <1>1. RInv => ReportsLastReply
    BY DEF RInv
  <1> QED BY InitIInv, NextIInv, InitRInv, NextRInv, <1>1, PTL DEF Spec

-----------------------------------------------------------------------------
\* The loop never runs out of attempts at its head, so that what ends it there
\* is the budget; elsewhere it is an answer, a final failure or the last attempt.
LEMMA NextExhausted ==
    IInv /\ GivesUpOnlyWhenExhausted /\ [Next]_vars => GivesUpOnlyWhenExhausted'
  <1> SUFFICES ASSUME IInv, GivesUpOnlyWhenExhausted, [Next]_vars
               PROVE  GivesUpOnlyWhenExhausted'
    OBVIOUS
  <1> USE RetriesAssumption, TimeAssumption DEF IInv, TypeOK, GivesUpOnlyWhenExhausted
  <1>1. CASE GiveUp
    BY <1>1 DEF GiveUp, Return, Position
  <1>2. CASE SendPost
    BY <1>2 DEF SendPost
  <1>3. ASSUME NEW reply \in Replies, NEW elapsed \in 0 .. MaxPost,
               PostAnswered(reply, elapsed) \/ PostFailed(reply, elapsed)
        PROVE  GivesUpOnlyWhenExhausted'
    <2>1. result' = reply /\ ~Retryable(reply)
      BY <1>3 DEF PostAnswered, PostFailed, Return, IsAnswer, Retryable
    <2> QED BY <2>1
  <1>4. ASSUME NEW reply \in Replies, NEW elapsed \in 0 .. MaxPost,
               PostTransient(reply, elapsed)
        PROVE  GivesUpOnlyWhenExhausted'
    <2>1. pc = "post" /\ Record(reply, elapsed)
      BY <1>4 DEF PostTransient, Record
    <2>2. Len(replies') = attempt + 1
      BY <2>1, RecordAppends DEF Position
    <2>3. pc' = "done" => attempt = MaxRetries - 1
      BY <1>4 DEF PostTransient, LastAttempt
    <2> QED BY <2>2, <2>3
  <1>5. CASE Backoff
    BY <1>5 DEF Backoff
  <1>6. CASE UNCHANGED vars
    BY <1>6 DEF vars
  <1> QED BY <1>1, <1>2, <1>3, <1>4, <1>5, <1>6 DEF Next, PostReturns

(***************************************************************************)
(* A call that gives up on a transient failure has used all its attempts   *)
(* or spent its budget.                                                    *)
(***************************************************************************)
THEOREM ExhaustionTheorem == Spec => []GivesUpOnlyWhenExhausted
  <1>1. Init => GivesUpOnlyWhenExhausted
    BY DEF Init, GivesUpOnlyWhenExhausted
  <1> QED BY InitIInv, NextIInv, NextExhausted, <1>1, PTL DEF Spec

-----------------------------------------------------------------------------
\* A bound on the steps a call has still to make: three for every attempt that
\* is left (post, reply and sleep), less those the present attempt has made.
StepsLeft ==
    LET left == MaxRetries - attempt
    IN  CASE pc = "check"   -> 3 * left + 1
          [] pc = "post"    -> 3 * left
          [] pc = "backoff" -> 3 * left - 1
          [] pc = "done"    -> 0

LEMMA StepsLeftBounded == IInv => StepsLeft \in 0 .. 3 * MaxRetries + 1
  BY RetriesAssumption DEF IInv, TypeOK, Position, StepsLeft

\* Every step of the loop is progress; none is repeated without using up an
\* attempt, however the provider replies and however long it takes.
LEMMA EveryStepCounts == IInv /\ IInv' /\ Next => StepsLeft' < StepsLeft
  <1> SUFFICES ASSUME IInv, IInv', Next PROVE StepsLeft' < StepsLeft
    OBVIOUS
  <1>t. /\ attempt \in Nat /\ attempt' \in Nat /\ MaxRetries \in Nat
        /\ pc # "done" => attempt < MaxRetries
    BY RetriesAssumption DEF IInv, TypeOK, Position
  <1>1. CASE GiveUp
    BY <1>1, <1>t DEF GiveUp, Return, StepsLeft
  <1>2. CASE SendPost
    BY <1>2, <1>t DEF SendPost, StepsLeft
  <1>3. CASE PostReturns
    <2>1. pc = "post" /\ attempt' = attempt /\ pc' \in {"done", "backoff"}
      BY <1>3 DEF PostReturns, PostAnswered, PostFailed, PostTransient, Record, Return
    <2> QED BY <2>1, <1>t DEF StepsLeft
  <1>4. CASE Backoff
    BY <1>4, <1>t DEF Backoff, StepsLeft
  <1> QED BY <1>1, <1>2, <1>3, <1>4 DEF Next

(***************************************************************************)
(* A call ends after at most 3 * max_transport_retries + 1 steps of the    *)
(* loop of infer, whatever the provider answers: each step uses up a part  *)
(* of that number, so no retry, sleep or deadline can keep it going.       *)
(***************************************************************************)
THEOREM CallIsFinite ==
    Spec => /\ [](StepsLeft \in 0 .. 3 * MaxRetries + 1)
            /\ [][StepsLeft' < StepsLeft]_vars
  <1>1. IInv /\ IInv' /\ [Next]_vars => [StepsLeft' < StepsLeft]_vars
    BY EveryStepCounts
  <1> QED BY InitIInv, NextIInv, StepsLeftBounded, <1>1, PTL DEF Spec
-----------------------------------------------------------------------------
LEMMA InitRefines == Init => Call!Init
  BY TimeAssumption DEF Init, Call!Init, Pending, Call!Pending

LEMMA NextRefines == IInv /\ IInv' /\ RInv /\ [Next]_vars => [Call!Next]_Call!vars
  <1> SUFFICES ASSUME IInv, IInv', RInv, [Next]_vars
               PROVE  [Call!Next]_Call!vars
    OBVIOUS
  <1>b. /\ now \in Nat /\ now' \in Nat
        /\ now < Timeout + MaxPost /\ now' < Timeout + MaxPost
        /\ replies \in Seq(Replies)
    BY DEF IInv, TypeOK, Budget, OverrunBounded
  <1>n. now <= now' => now' \in now .. (Call!CallBound - 1)
    BY <1>b, TimeAssumption DEF Call!CallBound
  <1>v. ASSUME NEW reply \in Replies, Call!Verdict(reply)
        PROVE  Call!Next
    BY <1>v DEF Call!Next, Call!Replies, Replies, Call!ReplyKinds, ReplyKinds,
                Call!Texts, Texts
  <1> USE DEF Call!Next, Call!vars, Call!Elapse, Call!Verdict
  <1>1. CASE GiveUp
    <2>1. /\ pc = "check" /\ pc' = "done" /\ now' = now
          /\ result' = IF last_error = NoError THEN BudgetError ELSE last_error
      BY <1>1 DEF GiveUp, Return
    <2>2. result' \in Replies
      BY <2>1, RepliesAreNotMarkers DEF IInv, TypeOK
    <2>3. Call!Verdict(result')
      BY <1>b, <1>n, <2>1
    <2> QED BY <2>2, <2>3, <1>v
  <1>2. CASE SendPost
    BY <1>2 DEF SendPost
  <1>3. ASSUME NEW reply \in Replies, NEW elapsed \in 0 .. MaxPost,
               \/ PostAnswered(reply, elapsed)
               \/ PostFailed(reply, elapsed)
               \/ PostTransient(reply, elapsed)
        PROVE  [Call!Next]_Call!vars
    <2>1. pc = "post" /\ now' = now + elapsed
      BY <1>3 DEF PostAnswered, PostFailed, PostTransient, Record
    <2>2. \/ pc' = "done" /\ result' = reply
          \/ pc' = "backoff" /\ result' = result
      BY <1>3 DEF PostAnswered, PostFailed, PostTransient, Return
    <2>3. now' \in now .. (Call!CallBound - 1)
      BY <1>b, <1>n, <2>1, TimeAssumption
    <2>4. CASE pc' = "done" /\ result' = reply
      <3>1. Call!Verdict(reply)
        BY <2>1, <2>3, <2>4
      <3> QED BY <3>1, <1>3, <1>v
    <2>5. CASE pc' = "backoff" /\ result' = result
      <3>1. Call!Elapse
        BY <2>1, <2>3, <2>5
      <3> QED BY <3>1
    <2> QED BY <2>2, <2>4, <2>5
  <1>4. CASE Backoff
    <2>1. pc = "backoff" /\ pc' = "check" /\ result' = result
      BY <1>4 DEF Backoff
    <2>2. PICK delay \in RetryDelays(attempt) : now' = now + SleepFor(delay)
      BY <1>4 DEF Backoff
    <2>3. SleepFor(delay) \in Nat
      BY <1>b, SleepFits DEF IInv, TypeOK
    <2>4. now' \in now .. (Call!CallBound - 1)
      BY <1>b, <1>n, <2>2, <2>3
    <2>5. Call!Elapse
      BY <2>1, <2>4
    <2> QED BY <2>5
  <1>5. CASE UNCHANGED vars
    BY <1>5 DEF vars
  <1> QED BY <1>1, <1>2, <1>3, <1>4, <1>5 DEF Next, PostReturns

(***************************************************************************)
(* The client implements the model call its callers assume: every step of  *)
(* a call is a step of ModelCall or leaves it unchanged.                   *)
(***************************************************************************)
THEOREM RefinesModelCall == Spec => Call!Init /\ [][Call!Next]_Call!vars
  BY InitIInv, NextIInv, InitRInv, NextRInv, InitRefines, NextRefines, PTL DEF Spec
=============================================================================
