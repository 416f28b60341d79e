---------------------------- MODULE DocumentJobs ----------------------------
(***************************************************************************)
(* The document job manager: class DocumentJobManager of                   *)
(* app/documents/jobs.py, on one event loop.                               *)
(*                                                                         *)
(* Workers take jobs off a priority queue and run each through its         *)
(* attempts: a render in a thread, raced by asyncio.wait against the job's *)
(* cancel event and a timeout.  A worker is interleaved where it suspends: *)
(* in the queue's get, in that wait, in each _kill, in the backoff.        *)
(*                                                                         *)
(* A thread cannot be stopped: a render that is abandoned runs on as a     *)
(* stray.  The executor is taken to have a thread for every render.        *)
(*                                                                         *)
(* job_id is not modelled: the one caller in the code leaves it out, so an *)
(* id is new (_seq) and never comes back.                                  *)
(***************************************************************************)
EXTENDS Naturals, FiniteSets

CONSTANTS Jobs,        \* bound: the jobs submitted in a behaviour
          Priorities,  \* the priorities they come with
          Workers,     \* max_concurrent of them
          MaxRetries,  \* max_retries
          MayClose,    \* whether somebody calls aclose
          None         \* no job

ASSUME JobsAssumption ==
    /\ Priorities \subseteq Nat
    /\ MaxRetries \in Nat
    /\ MayClose \in BOOLEAN
    /\ None \notin Jobs

Limit == MaxRetries + 1

VARIABLES
    status,     \* status of each job; "none" before submit, "gone" after cleanup
    attempts,   \* attempts of each job
    asked,      \* _cancels: the jobs whose cancel event is set
    signalled,  \* _done: the jobs whose done event is set
    queue,      \* _queue
    seq,        \* _seq
    pc,         \* where each worker is suspended
    job,        \* the job it executes, or executed last
    outcome,    \* what became of the render of its attempt
    stray,      \* renders nobody waits for that still run
    mode,       \* whether aclose() was called, and has returned
    dying       \* workers with a cancellation to be delivered

jobVars    == <<status, attempts, asked, signalled>>
queueVars  == <<queue, seq>>
workerVars == <<pc, job, outcome, stray>>
closeVars  == <<mode, dying>>
vars == <<jobVars, queueVars, workerVars, closeVars>>

Terminal == {"done", "failed", "cancelled", "timeout"}

\* A worker is in the queue's get, in asyncio.wait, in the _kill of the cancel
\* task after a render that came back ("settle") or one that did not ("late"),
\* in the _kill of the render after a timeout ("expire") or a cancellation
\* ("abandon"), or in _backoff_wait.
Executing == {"wait", "settle", "late", "expire", "abandon", "backoff"}

Entry == [priority : Priorities, seq : Nat, id : Jobs]

Init ==
    /\ status = [j \in Jobs |-> "none"]
    /\ attempts = [j \in Jobs |-> 0]
    /\ asked = {}
    /\ signalled = {}
    /\ queue = {}
    /\ seq = 0
    /\ pc = [w \in Workers |-> "get"]
    /\ job = [w \in Workers |-> None]
    /\ outcome = [w \in Workers |-> "none"]
    /\ stray = 0
    /\ mode = "open"
    /\ dying = {}

-----------------------------------------------------------------------------
(* The callers. *)

Submit(j, p) ==
    /\ status[j] = "none"
    /\ seq' = seq + 1
    /\ status' = [status EXCEPT ![j] = "queued"]
    /\ queue' = queue \cup {[priority |-> p, seq |-> seq + 1, id |-> j]}
    /\ UNCHANGED <<attempts, asked, signalled, workerVars, closeVars>>

\* cancel, when it answers True
Cancel(j) ==
    /\ status[j] \in {"queued", "running"}
    /\ asked' = asked \cup {j}
    /\ UNCHANGED <<status, attempts, signalled, queueVars, workerVars, closeVars>>

\* Mistake: a job that has not finished is dropped too.
CleanupUnfinished(j) ==
    /\ status[j] \notin {"none", "gone"}
    /\ status' = [status EXCEPT ![j] = "gone"]
    /\ asked' = asked \ {j}
    /\ signalled' = signalled \ {j}
    /\ UNCHANGED <<attempts, queueVars, workerVars, closeVars>>

\* cleanup of one job older than its ttl
Cleanup(j) ==
    /\ status[j] \in Terminal
    /\ status' = [status EXCEPT ![j] = "gone"]
    /\ asked' = asked \ {j}
    /\ signalled' = signalled \ {j}
    /\ UNCHANGED <<attempts, queueVars, workerVars, closeVars>>

-----------------------------------------------------------------------------
(* A worker. *)

\* Higher priority first, and in the order of submission within one.
First(e) ==
    \A f \in queue : \/ f.priority < e.priority
                     \/ f.priority = e.priority /\ f.seq >= e.seq

\* _finish, by worker w
Finish(w, s) ==
    /\ status' = [status EXCEPT ![job[w]] = s]
    /\ signalled' = signalled \cup {job[w]}
    /\ pc' = [pc EXCEPT ![w] = "get"]
    /\ UNCHANGED <<attempts, job>>

\* The top of the retry loop, for worker w and job j.
AttemptUnchecked(w, j) ==
    /\ status' = [status EXCEPT ![j] = "running"]
    /\ attempts' = [attempts EXCEPT ![j] = @ + 1]
    /\ pc' = [pc EXCEPT ![w] = "wait"]
    /\ job' = [job EXCEPT ![w] = j]
    /\ outcome' = [outcome EXCEPT ![w] = "running"]
    /\ UNCHANGED signalled

\* Mistake: a worker that finds its job cancelled goes on to the next.
AttemptSkips(w, j) ==
    \/ /\ j \in asked
       /\ pc' = [pc EXCEPT ![w] = "get"]
       /\ UNCHANGED <<status, signalled, attempts, job, outcome>>
    \/ /\ j \notin asked
       /\ AttemptUnchecked(w, j)

\* A cancelled job is not (re)run; any other gets an attempt.
Attempt(w, j) ==
    \/ /\ j \in asked
       /\ status' = [status EXCEPT ![j] = "cancelled"]
       /\ signalled' = signalled \cup {j}
       /\ pc' = [pc EXCEPT ![w] = "get"]
       /\ UNCHANGED <<attempts, job, outcome>>
    \/ /\ j \notin asked
       /\ AttemptUnchecked(w, j)

\* _worker: the next job is taken off the queue
Take(w) ==
    /\ pc[w] = "get" /\ w \notin dying
    /\ \E e \in queue : /\ First(e)
                        /\ queue' = queue \ {e}
                        /\ Attempt(w, e.id)
    /\ UNCHANGED <<asked, seq, stray, closeVars>>

\* The render of w's attempt comes back: with a document, or with an error that
\* a retry may or may not cure.
RenderEnds(w, o) ==
    /\ pc[w] \in {"wait", "late"}
    /\ outcome[w] = "running"
    /\ outcome' = [outcome EXCEPT ![w] = o]
    /\ UNCHANGED <<jobVars, queueVars, pc, job, stray, closeVars>>

\* A render nobody waits for ends.
StrayEnds ==
    /\ stray > 0
    /\ stray' = stray - 1
    /\ UNCHANGED <<jobVars, queueVars, pc, job, outcome, closeVars>>

\* _kill of the render task: its thread, if it still runs, becomes a stray.
Abandon(w) ==
    /\ stray' = stray + (IF outcome[w] = "running" THEN 1 ELSE 0)
    /\ outcome' = [outcome EXCEPT ![w] = "none"]

\* asyncio.wait returns: the cancel event is set ...
CancelSeen(w) ==
    /\ pc[w] = "wait" /\ w \notin dying
    /\ job[w] \in asked
    /\ pc' = [pc EXCEPT ![w] = "abandon"]
    /\ Abandon(w)
    /\ UNCHANGED <<jobVars, queueVars, job, closeVars>>

\* ... or the render came back, and the cancel task has not seen the event ...
RenderSeen(w) ==
    /\ pc[w] = "wait" /\ w \notin dying
    /\ outcome[w] # "running"
    /\ pc' = [pc EXCEPT ![w] = "settle"]
    /\ UNCHANGED <<jobVars, queueVars, job, outcome, stray, closeVars>>

\* ... or the timeout is over.
Late(w) ==
    /\ pc[w] = "wait" /\ w \notin dying
    /\ outcome[w] = "running"
    /\ pc' = [pc EXCEPT ![w] = "late"]
    /\ UNCHANGED <<jobVars, queueVars, job, outcome, stray, closeVars>>

\* The render is cancelled, and so is the job.
Abandoned(w) ==
    /\ pc[w] = "abandon" /\ w \notin dying
    /\ Finish(w, "cancelled")
    /\ UNCHANGED <<asked, queueVars, outcome, stray, closeVars>>

\* The cancel task is gone, and the render's result decides: done, failed, or
\* another attempt after the backoff.  A cancellation that came since is not
\* looked at.
Settle(w) ==
    /\ pc[w] = "settle" /\ w \notin dying
    /\ outcome' = [outcome EXCEPT ![w] = "none"]
    /\ LET last == attempts[job[w]] >= Limit
       IN  \/ /\ outcome[w] = "ok"
              /\ Finish(w, "done")
           \/ /\ outcome[w] = "permanent" \/ (outcome[w] = "transient" /\ last)
              /\ Finish(w, "failed")
           \/ /\ outcome[w] = "transient" /\ ~last
              /\ pc' = [pc EXCEPT ![w] = "backoff"]
              /\ UNCHANGED <<status, attempts, signalled, job>>
    /\ UNCHANGED <<asked, queueVars, stray, closeVars>>

\* After a timeout the render task is killed as well ...
Expire(w) ==
    /\ pc[w] = "late" /\ w \notin dying
    /\ pc' = [pc EXCEPT ![w] = "expire"]
    /\ Abandon(w)
    /\ UNCHANGED <<jobVars, queueVars, job, closeVars>>

\* ... and the job times out, or backs off.
Expired(w) ==
    /\ pc[w] = "expire" /\ w \notin dying
    /\ LET last == attempts[job[w]] >= Limit
       IN  \/ /\ last
              /\ Finish(w, "timeout")
           \/ /\ ~last
              /\ pc' = [pc EXCEPT ![w] = "backoff"]
              /\ UNCHANGED <<status, attempts, signalled, job>>
    /\ UNCHANGED <<asked, queueVars, outcome, stray, closeVars>>

\* The backoff ends, early if the job is cancelled: the next attempt, or none.
BackoffOver(w) ==
    /\ pc[w] = "backoff" /\ w \notin dying
    /\ Attempt(w, job[w])
    /\ UNCHANGED <<asked, queueVars, stray, closeVars>>

-----------------------------------------------------------------------------
(* Closing and starting again. *)

\* aclose: every worker is cancelled
Close ==
    /\ MayClose /\ mode = "open"
    /\ mode' = "closing"
    /\ dying' = Workers
    /\ UNCHANGED <<jobVars, queueVars, workerVars>>

\* The cancellation ends a worker that waits.  Its job stays as it is, and a
\* render that runs is left to itself.
WorkerDies(w) ==
    /\ w \in dying
    /\ pc[w] \in {"get", "wait", "backoff"}
    /\ pc' = [pc EXCEPT ![w] = "over"]
    /\ dying' = dying \ {w}
    /\ Abandon(w)
    /\ UNCHANGED <<jobVars, queueVars, job, mode>>

\* In a _kill it is swallowed with what the killed task raises: the worker goes
\* on.
Swallow(w) ==
    /\ w \in dying
    /\ pc[w] \in {"settle", "late", "expire", "abandon"}
    /\ dying' = dying \ {w}
    /\ UNCHANGED <<jobVars, queueVars, workerVars, mode>>

\* aclose has awaited every worker
Closed ==
    /\ mode = "closing"
    /\ \A w \in Workers : pc[w] = "over"
    /\ mode' = "closed"
    /\ UNCHANGED <<jobVars, queueVars, workerVars, dying>>

\* start, which replaces the queue and the workers
Start ==
    /\ mode = "closed"
    /\ mode' = "open"
    /\ queue' = {}
    /\ pc' = [w \in Workers |-> "get"]
    /\ UNCHANGED <<jobVars, seq, job, outcome, stray, dying>>

-----------------------------------------------------------------------------

Caller ==
    \E j \in Jobs :
        (\E p \in Priorities : Submit(j, p)) \/ Cancel(j) \/ Cleanup(j)

Render ==
    \/ \E w \in Workers, o \in {"ok", "transient", "permanent"} : RenderEnds(w, o)
    \/ StrayEnds

Work(w) ==
    \/ Take(w) \/ CancelSeen(w) \/ RenderSeen(w) \/ Late(w) \/ Abandoned(w)
    \/ Settle(w) \/ Expire(w) \/ Expired(w) \/ BackoffOver(w)

Closing ==
    Close \/ Closed \/ Start \/ \E w \in Workers : WorkerDies(w) \/ Swallow(w)

Next == Caller \/ Render \/ (\E w \in Workers : Work(w)) \/ Closing

Spec == Init /\ [][Next]_vars

\* The loop runs its tasks and its timers; a render need not ever come back.
FairSpec ==
    /\ Spec
    /\ \A w \in Workers :
          WF_vars(Work(w)) /\ WF_vars(WorkerDies(w) \/ Swallow(w))
    /\ WF_vars(Closed)

-----------------------------------------------------------------------------
(* What the manager promises. *)

TypeOK ==
    /\ status \in [Jobs -> {"none", "queued", "running", "gone"} \cup Terminal]
    /\ attempts \in [Jobs -> 0 .. Limit]
    /\ asked \subseteq Jobs
    /\ signalled \subseteq Jobs
    /\ queue \subseteq Entry
    /\ seq \in Nat
    /\ pc \in [Workers -> {"get", "over"} \cup Executing]
    /\ job \in [Workers -> Jobs \cup {None}]
    /\ outcome \in [Workers -> {"none", "running", "ok", "transient", "permanent"}]
    /\ stray \in Nat
    /\ mode \in {"open", "closing", "closed"}
    /\ dying \subseteq Workers

\* No job is in two hands: of two workers, of a worker and the queue, or twice
\* in the queue; and what is in a hand has not finished.
InOneHand ==
    /\ \A v, w \in Workers :
          (v # w /\ pc[v] \in Executing /\ pc[w] \in Executing) => job[v] # job[w]
    /\ \A w \in Workers :
          pc[w] \in Executing => job[w] \in Jobs /\ status[job[w]] = "running"
    /\ \A e \in queue : status[e.id] = "queued"
    /\ \A e, f \in queue : e.id = f.id => e = f

\* The lifecycle every caller relies on: the manager implements JobLifecycle.
Lifecycle == INSTANCE JobLifecycle WITH status <- status, attempts <- attempts, asked <- asked
Implements == Lifecycle!Spec

\* Whoever waits for a job wakes up: unless the manager is closed, every job
\* in its queue finishes, even if its renders never come back.
JobsFinish ==
    \A j \in Jobs :
        (\E e \in queue : e.id = j) ~> (j \in signalled \/ status[j] = "gone" \/ mode # "open")

=============================================================================
