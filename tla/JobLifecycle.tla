---------------------------- MODULE JobLifecycle ----------------------------
(*************************************************************************)
(* What DocumentJobManager (app/documents/jobs.py) promises of a job,    *)
(* whatever its queue, workers, timeouts and retries do: the life of a   *)
(* RenderJob as the class's docstrings and its callers read it, but for  *)
(* one sentence.  A cancellation does not "always win"                   *)
(* (jobs.py:266-267): one that is accepted when the worker has seen the  *)
(* render's end or its timeout is not looked at any more, and the job    *)
(* may still be done, failed or timed out (Finish, TimeOut). What is     *)
(* promised is that no attempt begins after it. Renders have no identity *)
(* here: which attempt an answer came from is not said.                  *)
(*************************************************************************)
EXTENDS Naturals

CONSTANTS Jobs,    \* the jobs' ids
          Limit    \* attempts a job may have: max_retries + 1

VARIABLES
    status,     \* RenderJob.status; "none" before submit, "gone" after cleanup
    attempts,   \* RenderJob.attempts
    asked       \* jobs whose cancellation was accepted

vars == <<status, attempts, asked>>

Terminal == {"done", "failed", "cancelled", "timeout"}

Init ==
    /\ status = [j \in Jobs |-> "none"]
    /\ attempts = [j \in Jobs |-> 0]
    /\ asked = {}

Become(j, s) == status' = [status EXCEPT ![j] = s]

Submit(j) ==
    /\ status[j] = "none"
    /\ Become(j, "queued")
    /\ UNCHANGED <<attempts, asked>>

\* cancel() answers True only for a job that has not finished
Ask(j) ==
    /\ status[j] \in {"queued", "running"}
    /\ asked' = asked \cup {j}
    /\ UNCHANGED <<status, attempts>>

\* "never (re)run a cancelled job", nor one that had its attempts
Attempt(j) ==
    /\ status[j] \in {"queued", "running"}
    /\ j \notin asked
    /\ attempts[j] < Limit
    /\ attempts' = [attempts EXCEPT ![j] = @ + 1]
    /\ Become(j, "running")
    /\ UNCHANGED asked

\* a render that came back or failed for good, whether or not it was asked to end
Finish(j) ==
    /\ status[j] = "running"
    /\ \E s \in {"done", "failed"} : Become(j, s)
    /\ UNCHANGED <<attempts, asked>>

\* a job times out when its last attempt did
TimeOut(j) ==
    /\ status[j] = "running"
    /\ attempts[j] = Limit
    /\ Become(j, "timeout")
    /\ UNCHANGED <<attempts, asked>>

\* only a cancellation somebody asked for
Cancelled(j) ==
    /\ status[j] \in {"queued", "running"}
    /\ j \in asked
    /\ Become(j, "cancelled")
    /\ UNCHANGED <<attempts, asked>>

\* only a finished job is dropped, and it does not come back
Forget(j) ==
    /\ status[j] \in Terminal
    /\ Become(j, "gone")
    /\ asked' = asked \ {j}
    /\ UNCHANGED attempts

Next ==
    \E j \in Jobs :
        \/ Submit(j) \/ Ask(j) \/ Attempt(j) \/ Finish(j) \/ TimeOut(j)
        \/ Cancelled(j) \/ Forget(j)

Spec == Init /\ [][Next]_vars

=============================================================================
