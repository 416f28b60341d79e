----------------------------- MODULE AgentMesh -----------------------------
(***************************************************************************)
(* One turn of the agent mesh: Supervisor.stream (agents/supervisor.py)    *)
(* plans, lets the clarifier race the first token of the answer, streams   *)
(* the answer, waits for the scheduler and tells the client; meanwhile     *)
(* PriorityScheduler.run_p0_p1 (blackboard/scheduler.py) runs the other    *)
(* agents as the blackboard slots they read are written.                   *)
(*                                                                         *)
(* Time is counted from the creation of the scheduler, in units of which   *)
(* Budget make the latency budget.  The route builds the supervisor with   *)
(* no deadline table (api/routes_agents.py:1913-1916), so the budget is    *)
(* also each agent's own deadline.  A timer that is due fires before time  *)
(* passes.  An agent may hang: nothing but its deadline is sure to end it. *)
(* Left out: the text of tokens and chips, live and voice modes (voice     *)
(* runs with no agent enabled), the clarifier's own work.                  *)
(***************************************************************************)
EXTENDS Integers, FiniteSets

CONSTANT Budget     \* latency_budget_ms

ASSUME BudgetAssumption == Budget \in Nat \ {0}

VARIABLES
  phase,    \* where Supervisor.stream is
  told,     \* how the client was told the turn ended
  first,    \* the first token of the answer is there, or its stream is empty
  block,    \* clarify_block: this turn asks before it answers
  insists,  \* clarify_priority: default questions if the clarifier has none
  clar,     \* the clarifier's task and its verdict
  board,    \* the blackboard slots that are written
  agent,    \* each agent's task
  startAt,  \* when it was started
  sched,    \* where run_p0_p1 is
  drainAt,  \* when the wait for the scheduler began
  now

turn == <<phase, told, first>>
asking == <<block, insists, clar>>
mesh == <<board, agent, startAt, sched>>
vars == <<turn, asking, mesh, drainAt, now>>

P0 == {"retriever", "grounder"}
P1 == {"memory", "critic", "suggester"}
Mesh == P0 \cup P1
Agents == Mesh \cup {"reflector"}

Reads == [retriever |-> {"question"}, memory |-> {"question"},
          critic |-> {"drafts", "intent"}, grounder |-> {"drafts", "evidence"},
          suggester |-> {"drafts"}, reflector |-> {}]

(* Of the slots the agents write, those that somebody here reads.          *)
Writes == [a \in Agents |-> CASE a = "retriever" -> {"evidence"}
                             [] a = "grounder" -> {"grounding"}
                             [] OTHER -> {}]

Slots == {"question", "intent", "drafts", "evidence", "grounding"}

(* The heap order of the agents' scores, fixed when they are added.        *)
Rank == [retriever |-> 1, memory |-> 2, critic |-> 3, grounder |-> 4,
         suggester |-> 5, reflector |-> 6]

Horizon == 2 * Budget   \* by then every timer of the turn has fired

TypeOK ==
  /\ phase \in {"plan", "ask", "race", "stream", "drain", "tail", "over"}
  /\ told \in {"nothing", "questions", "done", "dropped"}
  /\ first \in BOOLEAN /\ block \in BOOLEAN /\ insists \in BOOLEAN
  /\ clar \in {"none", "running", "blocks", "refines", "declines"}
  /\ board \subseteq Slots
  /\ agent \in [Agents -> {"off", "queued", "running", "ended", "shed", "cut"}]
  /\ \A a \in Agents : agent[a] = "shed" => a \in P1
  /\ startAt \in [Agents -> 0 .. Horizon]
  /\ sched \in {"none", "loop", "p0", "wait", "over"}
  /\ drainAt \in 0 .. Horizon
  /\ now \in 0 .. Horizon

(* A real-time agent runs only while the scheduler is awaiting it, so none *)
(* outlives the turn that asked for it (scheduler.py:185-197).             *)
RealTimeIsAwaited ==
  (sched = "p0") <=> \E a \in P0 : agent[a] = "running"

(* Any of the agents and the planner may be disabled in the configuration. *)
Init ==
  /\ phase = "plan" /\ told = "nothing" /\ first = FALSE
  /\ block \in BOOLEAN /\ insists \in {FALSE, block} /\ clar = "none"
  /\ board \in {{"question"}, {"question", "intent"}}
  /\ agent \in [Agents -> {"off", "queued"}]
  /\ startAt = [a \in Agents |-> 0] /\ sched = "none"
  /\ drainAt = 0 /\ now = 0

----------------------------------------------------------------------------
(* The scheduler. *)

Running == {a \in Mesh : agent[a] = "running"}
Queue == {a \in Mesh : agent[a] = "queued"}
IsReady(a) == Reads[a] \subseteq board
ReadyNow == {a \in Queue : IsReady(a)}

Cut(as) == [a \in Agents |-> IF a \in as THEN "cut" ELSE agent[a]]

(* The loop is left when the heap is empty, or at the hard deadline.       *)
HeapDoneHalf == Queue = {}
HeapDone == Queue = {} \/ now >= Budget

LeaveLoop ==
  /\ sched = "loop" /\ HeapDone
  /\ sched' = "wait"
  /\ UNCHANGED <<turn, asking, board, agent, startAt, drainAt, now>>

(* Critical memory pressure sheds whatever is not real-time.               *)
MayShed(a) == a \in P1

(* The first ready agent is started, or shed; a P0 agent is awaited.       *)
Start(a) ==
  /\ sched = "loop" /\ ~HeapDone
  /\ a \in ReadyNow /\ \A b \in ReadyNow : Rank[a] <= Rank[b]
  /\ \/ /\ agent' = [agent EXCEPT ![a] = "running"]
        /\ startAt' = [startAt EXCEPT ![a] = now]
        /\ sched' = IF a \in P0 THEN "p0" ELSE "loop"
     \/ /\ MayShed(a)
        /\ agent' = [agent EXCEPT ![a] = "shed"]
        /\ UNCHANGED <<startAt, sched>>
  /\ UNCHANGED <<turn, asking, board, drainAt, now>>

(* run returns, having written its slot, or raises, having written none.   *)
Ends(a) ==
  /\ agent[a] = "running"
  /\ agent' = [agent EXCEPT ![a] = "ended"]
  /\ board' \in {board, board \cup Writes[a]}
  /\ sched' = IF a \in P0 /\ sched = "p0" THEN "loop" ELSE sched
  /\ UNCHANGED <<turn, asking, startAt, drainAt, now>>

(* wait_for of _run_one cuts the agent off; the reflector has a minute.    *)
Expired(a) == a \in Mesh => now >= startAt[a] + Budget

Expires(a) ==
  /\ agent[a] = "running" /\ Expired(a)
  /\ agent' = Cut({a})
  /\ sched' = IF a \in P0 /\ sched = "p0" THEN "loop" ELSE sched
  /\ UNCHANGED <<turn, asking, board, startAt, drainAt, now>>

(* _wait_for_p1: until all have ended or the hard deadline, then cancel.   *)
AllOverAny == Running = {} \/ now >= Budget \/ \E a \in P1 : agent[a] = "ended"
AllOver == Running = {} \/ now >= Budget

Waited ==
  /\ sched = "wait" /\ AllOver
  /\ sched' = "over" /\ agent' = Cut(Running)
  /\ UNCHANGED <<turn, asking, board, startAt, drainAt, now>>

(* Cancelling run_p0_p1 reaches the P0 agent it is awaiting, and no other. *)
CancelNothing == UNCHANGED <<sched, agent>>
CancelLoopOnly == sched' = "over" /\ agent' = agent
CancelScheduled ==
  /\ sched' = "over"
  /\ agent' = IF sched = "p0" THEN Cut(Running \cap P0) ELSE agent

----------------------------------------------------------------------------
(* The supervisor. *)

Plan ==
  /\ phase = "plan"
  /\ phase' = IF block THEN "ask" ELSE "race"
  /\ clar' \in {"none", "running"}
  /\ sched' = "loop"
  /\ UNCHANGED <<told, first, block, insists, board, agent, startAt,
                 drainAt, now>>

ClarifierEnds ==
  /\ clar = "running"
  /\ clar' \in {"blocks", "refines", "declines"}
  /\ UNCHANGED <<turn, block, insists, mesh, drainAt, now>>

HasQuestions == clar \in {"blocks", "refines"}

(* The blocking question replaces the answer.                              *)
Ask ==
  /\ told' = "questions" /\ phase' = "over"
  /\ CancelScheduled
  /\ UNCHANGED <<first, asking, board, startAt, drainAt, now>>

(* _await_clarifier_blocking has returned, perhaps by its time limit.      *)
AskFirst ==
  /\ phase = "ask" /\ (HasQuestions \/ insists)
  /\ Ask

AnswerFirst ==
  /\ phase = "ask" /\ ~HasQuestions /\ ~insists
  /\ phase' = "race" /\ clar' = "none"
  /\ UNCHANGED <<told, first, block, insists, mesh, drainAt, now>>

FirstToken ==
  /\ phase = "race" /\ ~first
  /\ first' = TRUE
  /\ UNCHANGED <<phase, told, asking, mesh, drainAt, now>>

(* _race_first_token and _clarify_decision: questions that are there when  *)
(* the race is decided block the answer, or go beside it.                  *)
Interrupt == phase = "race" /\ clar = "blocks" /\ Ask

(* A clarifier still running when the token is there has the grace window  *)
(* to end; then it is cancelled.                                           *)
Commit ==
  /\ phase = "race" /\ first /\ clar # "blocks"
  /\ phase' = "stream"
  /\ clar' = "none"
  /\ UNCHANGED <<told, first, block, insists, mesh, drainAt, now>>

(* The stream has ended: drafts is written now, not before.                *)
StreamEnds ==
  /\ phase = "stream"
  /\ phase' = "drain"
  /\ board' = board \cup {"drafts"} /\ drainAt' = now
  /\ UNCHANGED <<told, first, asking, agent, startAt, sched, now>>

Drained ==
  /\ phase = "drain" /\ sched = "over"
  /\ phase' = "tail"
  /\ UNCHANGED <<told, first, asking, mesh, drainAt, now>>

(* The wait for the scheduler began after the loop's clock and after the   *)
(* retriever's: those fire first.  Only a grounder outlasts it.            *)
DrainDue == sched = "p0" /\ agent["retriever"] # "running" /\ now >= drainAt + Budget

DrainTimeout ==
  /\ phase = "drain" /\ DrainDue
  /\ phase' = "tail" /\ CancelScheduled
  /\ UNCHANGED <<told, first, asking, board, startAt, drainAt, now>>

(* After a correction, if the grounder flagged claims: the background      *)
(* agent is started unless memory is short, and the client told.           *)
TellDone ==
  /\ phase = "tail"
  /\ phase' = "over" /\ told' = "done"
  /\ agent' \in {agent, IF agent["reflector"] = "queued"
                        THEN [agent EXCEPT !["reflector"] = "running"] ELSE agent}
  /\ UNCHANGED <<first, asking, board, startAt, sched, drainAt, now>>

(* The route stops reading, the client is gone, or the answer's stream     *)
(* raises: scheduled is cancelled only where it is being awaited.          *)
Dropped ==
  /\ phase \notin {"plan", "over"}
  /\ phase' = "over" /\ told' = "dropped"
  /\ IF phase = "drain" THEN CancelScheduled ELSE CancelNothing
  /\ UNCHANGED <<first, asking, board, startAt, drainAt, now>>

----------------------------------------------------------------------------
(* Time passes only where somebody is really waiting.                      *)
Due ==
  \/ sched = "loop" /\ (HeapDone \/ ReadyNow # {})
  \/ sched = "wait" /\ AllOver
  \/ \E a \in Running : Expired(a)
  \/ phase = "drain" /\ (sched = "over" \/ DrainDue)
  \/ phase = "tail" /\ "grounding" \notin board

Tick ==
  /\ phase # "plan" /\ ~Due
  /\ now < Horizon /\ now' = now + 1
  /\ UNCHANGED <<turn, asking, mesh, drainAt>>

(* What the event loop, the timers and the answer's stream are sure to do. *)
Sure ==
  \/ LeaveLoop \/ Waited
  \/ \E a \in Agents : Start(a) \/ Expires(a)
  \/ Plan \/ AskFirst \/ AnswerFirst \/ FirstToken \/ Interrupt \/ Commit
  \/ StreamEnds \/ Drained \/ DrainTimeout \/ TellDone
  \/ Tick

Next ==
  \/ Sure
  \/ \E a \in Agents : Ends(a)
  \/ ClarifierEnds
  \/ Dropped

Spec == Init /\ [][Next]_vars
FairSpec == Spec /\ WF_vars(Sure)

----------------------------------------------------------------------------
(* A turn that is done within its budget left no agent out: each one that  *)
(* is enabled and was not shed has run to its end (scheduler.py:150-200).  *)
EarlyDoneIsComplete ==
  [][told # "done" /\ told' = "done" /\ now < Budget
       => \A a \in Mesh : agent[a] \in {"off", "ended", "shed"}]_vars

(* Once the client has the questions or the end of the turn, the mesh      *)
(* starts no agent: nothing more is spent on a turn that is over.          *)
NothingStartsAfter ==
  [][(told \in {"questions", "done"})
       => \A a \in Mesh : agent[a] = "queued" => agent'[a] = "queued"]_vars

(* Whatever hangs, the client is told or has left, the scheduler ends and  *)
(* no agent keeps running (supervisor.py:427-444, scheduler.py:199-228).   *)
MeshEnds == <>[](told # "nothing" /\ sched = "over" /\ Running = {})

=============================================================================
