------------------------- MODULE DocumentJobsProofs -------------------------
(***************************************************************************)
(* Proofs about DocumentJobs, for any number of jobs, workers, priorities  *)
(* and retries: the type invariant, that no job is in two hands, and that  *)
(* the manager implements JobLifecycle.                                    *)
(***************************************************************************)
EXTENDS DocumentJobs, TLAPS

\* A job is counted its attempts: none before a worker takes it, and one fewer
\* than the limit, or less, while it waits for another.
Counted ==
    /\ \A j \in Jobs : status[j] \in {"none", "queued"} => attempts[j] = 0
    /\ \A w \in Workers : pc[w] = "backoff" => attempts[job[w]] < Limit

\* A worker abandons a render for a cancellation somebody asked for.
AbandonsAsked == \A w \in Workers : pc[w] = "abandon" => job[w] \in asked

\* The attempts stay within the limit because of Counted, which holds because a
\* job is in one hand; the refinement needs all of it.
IInv == TypeOK /\ InOneHand /\ Counted /\ AbandonsAsked

LEMMA LimitIsNat == Limit \in Nat /\ Limit > 0
  BY JobsAssumption DEF Limit

LEMMA InitInv == Init => IInv
  BY LimitIsNat DEF Init, IInv, TypeOK, InOneHand, Counted, AbandonsAsked, Executing, Terminal, Entry

-----------------------------------------------------------------------------
(* One lemma per action or kind of action. *)

LEMMA SubmitInv ==
    ASSUME IInv, NEW j \in Jobs, NEW p \in Priorities, Submit(j, p)
    PROVE  IInv'
<1> USE LimitIsNat DEF Submit, IInv, workerVars, closeVars
<1>1. [priority |-> p, seq |-> seq + 1, id |-> j] \in Entry
  BY DEF TypeOK, Entry
<1>2. TypeOK'
  BY <1>1 DEF TypeOK
<1>3. InOneHand'
  <2>1. \A w \in Workers :
          pc'[w] \in Executing => job'[w] \in Jobs /\ status'[job'[w]] = "running"
    BY DEF TypeOK, InOneHand
  <2>2. \A e \in queue' : status'[e.id] = "queued"
    BY DEF TypeOK, InOneHand, Entry
  <2>3. \A e, f \in queue' : e.id = f.id => e = f
    BY DEF TypeOK, InOneHand, Entry
  <2>4. QED
    BY <2>1, <2>2, <2>3 DEF InOneHand
<1>4. Counted'
  BY DEF TypeOK, InOneHand, Counted, Executing
<1>5. AbandonsAsked'
  BY DEF AbandonsAsked
<1>6. QED
  BY <1>2, <1>3, <1>4, <1>5

LEMMA CancelInv ==
    ASSUME IInv, NEW j \in Jobs, Cancel(j)
    PROVE  IInv'
  BY DEF Cancel, IInv, TypeOK, InOneHand, Counted, AbandonsAsked, queueVars, workerVars, closeVars

LEMMA CleanupInv ==
    ASSUME IInv, NEW j \in Jobs, Cleanup(j)
    PROVE  IInv'
<1> USE DEF Cleanup, IInv, queueVars, workerVars, closeVars
<1>1. TypeOK'
  BY DEF TypeOK
<1>2. \A i \in Jobs : status[i] \in {"none", "queued", "running"} => status'[i] = status[i]
  BY DEF TypeOK, Terminal
<1>3. \A i \in Jobs : status'[i] \in {"none", "queued"} => status[i] = status'[i]
  BY DEF TypeOK, Terminal
<1>4. InOneHand'
  BY <1>2 DEF TypeOK, InOneHand, Entry
<1>5. Counted'
  BY <1>3 DEF TypeOK, Counted
<1>6. AbandonsAsked'
  BY DEF TypeOK, InOneHand, AbandonsAsked, Executing, Terminal
<1>7. QED
  BY <1>1, <1>4, <1>5, <1>6

\* The top of the retry loop, for a job that is in no other worker's hands.
LEMMA AttemptInv ==
    ASSUME IInv, NEW w \in Workers, NEW j \in Jobs, Attempt(w, j),
           status[j] \in {"queued", "running"}, attempts[j] < Limit,
           \A v \in Workers \ {w} : pc[v] \in Executing => job[v] # j,
           queue' \subseteq queue, \A e \in queue' : e.id # j,
           UNCHANGED <<asked, seq, stray, closeVars>>
    PROVE  IInv'
<1> USE LimitIsNat DEF IInv, closeVars
<1>1. CASE j \in asked
  <2>1. /\ status' = [status EXCEPT ![j] = "cancelled"]
        /\ signalled' = signalled \cup {j}
        /\ pc' = [pc EXCEPT ![w] = "get"]
        /\ UNCHANGED <<attempts, job, outcome>>
    BY <1>1 DEF Attempt
  <2>2. TypeOK'
    BY <2>1 DEF TypeOK, Terminal
  <2>3. InOneHand'
    BY <2>1 DEF TypeOK, InOneHand, Executing, Entry
  <2>4. Counted'
    BY <2>1 DEF TypeOK, Counted
  <2>5. AbandonsAsked'
    BY <2>1 DEF TypeOK, AbandonsAsked
  <2>6. QED
    BY <2>2, <2>3, <2>4, <2>5
<1>2. CASE j \notin asked
  <2>1. /\ status' = [status EXCEPT ![j] = "running"]
        /\ attempts' = [attempts EXCEPT ![j] = @ + 1]
        /\ pc' = [pc EXCEPT ![w] = "wait"]
        /\ job' = [job EXCEPT ![w] = j]
        /\ outcome' = [outcome EXCEPT ![w] = "running"]
        /\ UNCHANGED signalled
    BY <1>2 DEF Attempt, AttemptUnchecked
  <2>2. TypeOK'
    BY <2>1 DEF TypeOK, Executing
  <2>3. InOneHand'
    BY <2>1 DEF TypeOK, InOneHand, Executing, Entry
  <2>4. Counted'
    <3>1. \A i \in Jobs : status'[i] \in {"none", "queued"} => attempts'[i] = 0
      BY <2>1 DEF TypeOK, Counted
    <3>2. \A v \in Workers : pc'[v] = "backoff" => attempts'[job'[v]] < Limit
      BY <2>1 DEF TypeOK, InOneHand, Counted, Executing
    <3>3. QED
      BY <3>1, <3>2 DEF Counted
  <2>5. AbandonsAsked'
    BY <2>1 DEF TypeOK, AbandonsAsked
  <2>6. QED
    BY <2>2, <2>3, <2>4, <2>5
<1>3. QED
  BY <1>1, <1>2

LEMMA TakeInv ==
    ASSUME IInv, NEW w \in Workers, Take(w)
    PROVE  IInv'
<1>1. PICK e \in queue : queue' = queue \ {e} /\ Attempt(w, e.id)
  BY DEF Take
<1>2. e.id \in Jobs /\ status[e.id] = "queued" /\ attempts[e.id] = 0
  BY DEF IInv, TypeOK, InOneHand, Counted, Entry
<1>3. \A v \in Workers : pc[v] \in Executing => job[v] # e.id
  BY <1>2 DEF IInv, InOneHand
<1>4. \A f \in queue' : f.id # e.id
  BY <1>1 DEF IInv, InOneHand
<1>5. QED
  BY <1>1, <1>2, <1>3, <1>4, AttemptInv, LimitIsNat DEF Take

LEMMA BackoffInv ==
    ASSUME IInv, NEW w \in Workers, BackoffOver(w)
    PROVE  IInv'
<1>1. /\ job[w] \in Jobs /\ status[job[w]] = "running"
      /\ attempts[job[w]] < Limit
  BY DEF BackoffOver, IInv, InOneHand, Counted, Executing
<1>2. \A v \in Workers \ {w} : pc[v] \in Executing => job[v] # job[w]
  BY DEF BackoffOver, IInv, InOneHand, Executing
<1>3. \A e \in queue : e.id # job[w]
  BY <1>1 DEF IInv, InOneHand
<1>4. QED
  BY <1>1, <1>2, <1>3, AttemptInv DEF BackoffOver, queueVars

\* A worker finishes its job.
LEMMA FinishInv ==
    ASSUME IInv, NEW w \in Workers, pc[w] \in Executing,
           NEW s \in Terminal, Finish(w, s),
           outcome' \in [Workers -> {"none", "running", "ok", "transient", "permanent"}],
           UNCHANGED <<asked, queueVars, stray, closeVars>>
    PROVE  IInv'
<1> USE DEF IInv, Finish, queueVars, closeVars
<1>1. job[w] \in Jobs /\ status[job[w]] = "running"
  BY DEF InOneHand
<1>2. TypeOK'
  BY <1>1 DEF TypeOK
<1>3. InOneHand'
  BY <1>1 DEF TypeOK, InOneHand, Executing, Entry
<1>4. Counted'
  BY <1>1 DEF TypeOK, Counted, Terminal
<1>5. AbandonsAsked'
  BY DEF TypeOK, AbandonsAsked
<1>6. QED
  BY <1>2, <1>3, <1>4, <1>5

\* A worker moves on with its job in hand.
LEMMA MoveInv ==
    ASSUME IInv, NEW w \in Workers, pc[w] \in Executing, NEW t \in Executing,
           pc' = [pc EXCEPT ![w] = t], t = "backoff" => attempts[job[w]] < Limit,
           t = "abandon" => job[w] \in asked,
           outcome' \in [Workers -> {"none", "running", "ok", "transient", "permanent"}],
           stray' \in Nat, UNCHANGED <<jobVars, queueVars, job, closeVars>>
    PROVE  IInv'
<1> USE DEF IInv, jobVars, queueVars, closeVars
<1>1. TypeOK'
  BY DEF TypeOK
<1>2. InOneHand'
  BY DEF TypeOK, InOneHand
<1>3. Counted'
  BY DEF TypeOK, Counted
<1>4. AbandonsAsked'
  BY DEF TypeOK, AbandonsAsked
<1>5. QED
  BY <1>1, <1>2, <1>3, <1>4

LEMMA AbandonType ==
    ASSUME IInv, NEW w \in Workers, Abandon(w)
    PROVE  /\ stray' \in Nat
           /\ outcome' \in
                [Workers -> {"none", "running", "ok", "transient", "permanent"}]
  BY DEF IInv, TypeOK, Abandon

LEMMA SettleInv ==
    ASSUME IInv, NEW w \in Workers, Settle(w)
    PROVE  IInv'
<1>1. /\ pc[w] \in Executing /\ job[w] \in Jobs
      /\ outcome' \in
           [Workers -> {"none", "running", "ok", "transient", "permanent"}]
  BY DEF IInv, TypeOK, InOneHand, Settle, Executing
<1>2. CASE \E s \in {"done", "failed"} : Finish(w, s)
  BY <1>1, <1>2, FinishInv DEF Settle, Terminal
<1>3. CASE /\ ~(attempts[job[w]] >= Limit)
           /\ pc' = [pc EXCEPT ![w] = "backoff"]
           /\ UNCHANGED <<status, attempts, signalled, job>>
  <2>1. attempts[job[w]] < Limit
    BY <1>1, <1>3, LimitIsNat DEF IInv, TypeOK
  <2>2. stray' \in Nat /\ UNCHANGED <<jobVars, queueVars, job, closeVars>>
    BY <1>3 DEF Settle, IInv, TypeOK, jobVars
  <2>3. "backoff" \in Executing
    BY DEF Executing
  <2>4. QED
    BY <1>1, <1>3, <2>1, <2>2, <2>3, MoveInv
<1>4. QED
  BY <1>2, <1>3 DEF Settle

LEMMA ExpiredInv ==
    ASSUME IInv, NEW w \in Workers, Expired(w)
    PROVE  IInv'
<1>1. /\ pc[w] \in Executing /\ job[w] \in Jobs
      /\ outcome' \in
           [Workers -> {"none", "running", "ok", "transient", "permanent"}]
  BY DEF IInv, TypeOK, InOneHand, Expired, Executing
<1>2. CASE Finish(w, "timeout")
  <2>1. "timeout" \in Terminal /\ UNCHANGED <<asked, queueVars, stray, closeVars>>
    BY DEF Expired, Terminal
  <2>2. QED
    BY <1>1, <1>2, <2>1, FinishInv
<1>3. CASE /\ ~(attempts[job[w]] >= Limit)
           /\ pc' = [pc EXCEPT ![w] = "backoff"]
           /\ UNCHANGED <<status, attempts, signalled, job>>
  <2>1. attempts[job[w]] < Limit
    BY <1>1, <1>3, LimitIsNat DEF IInv, TypeOK
  <2>2. stray' \in Nat /\ UNCHANGED <<jobVars, queueVars, job, closeVars>>
    BY <1>3 DEF Expired, IInv, TypeOK, jobVars
  <2>3. "backoff" \in Executing
    BY DEF Executing
  <2>4. QED
    BY <1>1, <1>3, <2>1, <2>2, <2>3, MoveInv
<1>4. QED
  BY <1>2, <1>3 DEF Expired

LEMMA WaitInv ==
    ASSUME IInv, NEW w \in Workers,
           CancelSeen(w) \/ RenderSeen(w) \/ Late(w) \/ Expire(w)
    PROVE  IInv'
<1>1. /\ pc[w] \in Executing
      /\ UNCHANGED <<jobVars, queueVars, job, closeVars>>
      /\ \E t \in Executing \ {"backoff"} :
            pc' = [pc EXCEPT ![w] = t] /\ (t = "abandon" => job[w] \in asked)
  BY DEF CancelSeen, RenderSeen, Late, Expire, Executing
<1>2. /\ stray' \in Nat
      /\ outcome' \in
           [Workers -> {"none", "running", "ok", "transient", "permanent"}]
  BY AbandonType DEF CancelSeen, RenderSeen, Late, Expire, IInv, TypeOK
<1>3. QED
  BY <1>1, <1>2, MoveInv

LEMMA AbandonedInv ==
    ASSUME IInv, NEW w \in Workers, Abandoned(w)
    PROVE  IInv'
  BY FinishInv DEF Abandoned, Executing, Terminal, IInv, TypeOK

LEMMA RenderInv ==
    ASSUME IInv, Render
    PROVE  IInv'
<1>1. /\ UNCHANGED <<jobVars, queueVars, pc, job, closeVars>>
      /\ stray' \in Nat
      /\ outcome' \in
           [Workers -> {"none", "running", "ok", "transient", "permanent"}]
  BY DEF Render, RenderEnds, StrayEnds, IInv, TypeOK
<1>2. QED
  BY <1>1 DEF IInv, TypeOK, InOneHand, Counted, AbandonsAsked, jobVars, queueVars, closeVars

LEMMA ClosingInv ==
    ASSUME IInv, Closing
    PROVE  IInv'
<1> USE DEF IInv, jobVars, queueVars, workerVars
<1>1. CASE Close \/ Closed
  BY <1>1 DEF Close, Closed, TypeOK, InOneHand, Counted, AbandonsAsked
<1>2. CASE Start
  BY <1>2 DEF Start, TypeOK, InOneHand, Counted, AbandonsAsked, Executing
<1>3. ASSUME NEW w \in Workers, WorkerDies(w)
      PROVE  IInv'
  <2>1. TypeOK'
    BY <1>3, AbandonType DEF WorkerDies, TypeOK
  <2>2. InOneHand'
    BY <1>3 DEF WorkerDies, TypeOK, InOneHand, Executing
  <2>3. Counted'
    BY <1>3 DEF WorkerDies, TypeOK, Counted
  <2>4. AbandonsAsked'
    BY <1>3 DEF WorkerDies, TypeOK, AbandonsAsked
  <2>5. QED
    BY <2>1, <2>2, <2>3, <2>4
<1>4. ASSUME NEW w \in Workers, Swallow(w)
      PROVE  IInv'
  BY <1>4 DEF Swallow, TypeOK, InOneHand, Counted, AbandonsAsked
<1>5. QED
  BY <1>1, <1>2, <1>3, <1>4 DEF Closing

LEMMA NextInv ==
    ASSUME IInv, [Next]_vars
    PROVE  IInv'
<1>1. CASE Caller
  BY <1>1, SubmitInv, CancelInv, CleanupInv DEF Caller
<1>2. CASE \E w \in Workers : Work(w)
  BY <1>2, TakeInv, WaitInv, AbandonedInv, SettleInv, ExpiredInv, BackoffInv DEF Work
<1>3. CASE UNCHANGED vars
  BY <1>3 DEF vars, jobVars, queueVars, workerVars, closeVars,
              IInv, TypeOK, InOneHand, Counted, AbandonsAsked
<1>4. QED
  BY <1>1, <1>2, <1>3, RenderInv, ClosingInv DEF Next

THEOREM Invariant == Spec => []IInv
  BY InitInv, NextInv, PTL DEF Spec

\* The variables keep their types, attempts within the retry limit among them.
THEOREM TypeCorrect == Spec => []TypeOK
<1>1. IInv => TypeOK
  BY DEF IInv
<1>2. QED
  BY <1>1, Invariant, PTL

\* No job is ever in two hands: workers, retries, timeouts and a restart of the
\* manager never make two of them run it, or run it again when it has finished.
THEOREM OneHand == Spec => []InOneHand
<1>1. IInv => InOneHand
  BY DEF IInv
<1>2. QED
  BY <1>1, Invariant, PTL

-----------------------------------------------------------------------------
(* The refinement. *)

LEMMA AttemptImplements ==
    ASSUME IInv, NEW w \in Workers, NEW j \in Jobs, Attempt(w, j),
           status[j] \in {"queued", "running"}, attempts[j] < Limit,
           UNCHANGED asked
    PROVE  Lifecycle!Next
  BY DEF Attempt, AttemptUnchecked, Lifecycle!Next, Lifecycle!Attempt,
         Lifecycle!Cancelled, Lifecycle!Become

LEMMA WorkImplements ==
    ASSUME IInv, NEW w \in Workers, Work(w)
    PROVE  Lifecycle!Next \/ UNCHANGED Lifecycle!vars
<1>1. CASE Take(w)
  <2>1. PICK e \in queue : Attempt(w, e.id)
    BY <1>1 DEF Take
  <2>2. e.id \in Jobs /\ status[e.id] = "queued" /\ attempts[e.id] < Limit
    BY LimitIsNat DEF IInv, TypeOK, InOneHand, Counted, Entry
  <2>3. QED
    BY <1>1, <2>1, <2>2, AttemptImplements DEF Take
<1>2. CASE CancelSeen(w) \/ RenderSeen(w) \/ Late(w) \/ Expire(w)
  BY <1>2 DEF CancelSeen, RenderSeen, Late, Expire, jobVars, Lifecycle!vars
<1>3. CASE Abandoned(w)
  <2>1. job[w] \in Jobs /\ status[job[w]] = "running" /\ job[w] \in asked
    BY <1>3 DEF Abandoned, IInv, InOneHand, AbandonsAsked, Executing
  <2>2. QED
    BY <1>3, <2>1
       DEF Abandoned, Finish, Lifecycle!Next, Lifecycle!Cancelled, Lifecycle!Become
<1>4. CASE Settle(w)
  <2>1. job[w] \in Jobs /\ status[job[w]] = "running"
    BY <1>4 DEF Settle, IInv, InOneHand, Executing
  <2>2. CASE \E s \in {"done", "failed"} : Finish(w, s)
    BY <1>4, <2>1, <2>2 DEF Settle, Finish, Lifecycle!Next, Lifecycle!Finish,
                            Lifecycle!Become
  <2>3. CASE UNCHANGED <<status, attempts>>
    BY <1>4, <2>3 DEF Settle, Lifecycle!vars
  <2>4. QED
    BY <1>4, <2>2, <2>3 DEF Settle
<1>5. CASE Expired(w)
  <2>1. job[w] \in Jobs /\ status[job[w]] = "running" /\ attempts[job[w]] \in 0 .. Limit
    BY <1>5 DEF Expired, IInv, TypeOK, InOneHand, Executing
  <2>2. CASE attempts[job[w]] >= Limit /\ Finish(w, "timeout")
    <3>1. attempts[job[w]] = Limit
      BY <2>1, <2>2, LimitIsNat
    <3>2. QED
      BY <1>5, <2>1, <2>2, <3>1
         DEF Expired, Finish, Lifecycle!Next, Lifecycle!TimeOut, Lifecycle!Become
  <2>3. CASE UNCHANGED <<status, attempts>>
    BY <1>5, <2>3 DEF Expired, Lifecycle!vars
  <2>4. QED
    BY <1>5, <2>2, <2>3 DEF Expired
<1>6. CASE BackoffOver(w)
  <2>1. job[w] \in Jobs /\ status[job[w]] = "running" /\ attempts[job[w]] < Limit
    BY <1>6 DEF BackoffOver, IInv, InOneHand, Counted, Executing
  <2>2. QED
    BY <1>6, <2>1, AttemptImplements DEF BackoffOver
<1>7. QED
  BY <1>1, <1>2, <1>3, <1>4, <1>5, <1>6 DEF Work

LEMMA CallerImplements ==
    ASSUME Caller
    PROVE  Lifecycle!Next
<1>1. ASSUME NEW j \in Jobs, NEW p \in Priorities, Submit(j, p)
      PROVE  Lifecycle!Submit(j)
  BY <1>1 DEF Submit, Lifecycle!Submit, Lifecycle!Become
<1>2. ASSUME NEW j \in Jobs, Cancel(j)
      PROVE  Lifecycle!Ask(j)
  BY <1>2 DEF Cancel, Lifecycle!Ask
<1>3. ASSUME NEW j \in Jobs, Cleanup(j)
      PROVE  Lifecycle!Forget(j)
  BY <1>3 DEF Cleanup, Terminal, Lifecycle!Forget, Lifecycle!Terminal, Lifecycle!Become
<1>4. QED
  BY <1>1, <1>2, <1>3 DEF Caller, Lifecycle!Next

LEMMA StepImplements ==
    ASSUME IInv, [Next]_vars
    PROVE  Lifecycle!Next \/ UNCHANGED Lifecycle!vars
<1>1. CASE Caller
  BY <1>1, CallerImplements
<1>2. CASE Render
  BY <1>2 DEF Render, RenderEnds, StrayEnds, jobVars, Lifecycle!vars
<1>3. CASE \E w \in Workers : Work(w)
  BY <1>3, WorkImplements
<1>4. CASE Closing
  BY <1>4 DEF Closing, Close, Closed, Start, WorkerDies, Swallow, jobVars, Lifecycle!vars
<1>5. CASE UNCHANGED vars
  BY <1>5 DEF vars, jobVars, Lifecycle!vars
<1>6. QED
  BY <1>1, <1>2, <1>3, <1>4, <1>5 DEF Next

\* The manager implements the lifecycle: whatever its workers do, a job is never
\* run again once it was asked to be cancelled, never has more attempts than the
\* limit, times out only on its last one, and never comes back once it finished.
THEOREM Refinement == Spec => Implements
<1>1. Init => Lifecycle!Init
  BY DEF Init, Lifecycle!Init
<1>2. IInv /\ [Next]_vars => [Lifecycle!Next]_(Lifecycle!vars)
  BY StepImplements
<1>3. QED
  BY <1>1, <1>2, Invariant, PTL DEF Spec, Implements, Lifecycle!Spec

=============================================================================
