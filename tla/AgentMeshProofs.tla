--------------------------- MODULE AgentMeshProofs ---------------------------
(***************************************************************************)
(* Proofs about AgentMesh, for any latency budget: the type invariant,     *)
(* that real-time agents run only while they are awaited, and the two      *)
(* action properties: a turn done early is complete, and nothing starts    *)
(* once the client has been told.                                          *)
(***************************************************************************)
EXTENDS AgentMesh, TLAPS

\* The scheduler awaits one real-time agent at a time.
OneRealTime == ~(agent["retriever"] = "running" /\ agent["grounder"] = "running")

\* The client is told only when the scheduler is over, or it has left.
OverWhenTold ==
  /\ phase = "tail" \/ told \in {"questions", "done"} => sched = "over"
  /\ told # "nothing" <=> phase = "over"
  /\ phase = "plan" => sched = "none"

\* Before the deadline the scheduler leaves its loop only with an empty heap,
\* is over only when everything has ended, and nobody has been cut off.
NobodyLeftOut ==
  phase # "over" /\ now < Budget =>
    /\ sched \in {"wait", "over"} => \A a \in Mesh : agent[a] # "queued"
    /\ sched = "over" => \A a \in Mesh : agent[a] # "running"
    /\ \A a \in Mesh : agent[a] # "cut"

IInv == TypeOK /\ RealTimeIsAwaited /\ OneRealTime /\ OverWhenTold /\ NobodyLeftOut

USE BudgetAssumption

LEMMA AgentSets ==
  /\ Mesh = {"retriever", "grounder", "memory", "critic", "suggester"}
  /\ Mesh \subseteq Agents /\ "reflector" \in Agents \ Mesh
  /\ P0 = {"retriever", "grounder"} /\ P0 \subseteq Mesh
  /\ P1 \subseteq Mesh /\ P0 \cap P1 = {}
  BY DEF Mesh, P0, P1, Agents

LEMMA InitInv == Init => IInv
<1> SUFFICES ASSUME Init PROVE IInv
  OBVIOUS
<1>1. agent \in [Agents -> {"off", "queued", "running", "ended", "shed", "cut"}]
  BY DEF Init
<1>2. \A a \in Agents : agent[a] \in {"off", "queued"}
  BY DEF Init
<1>3. TypeOK
  <2>1. 0 \in 0 .. Horizon
    BY DEF Horizon
  <2>2. startAt \in [Agents -> 0 .. Horizon]
    BY <2>1 DEF Init
  <2>3. \A a \in Agents : agent[a] # "shed"
    BY <1>2
  <2>4. board \subseteq Slots
    BY DEF Init, Slots
  <2> QED
    BY <1>1, <2>1, <2>2, <2>3, <2>4 DEF Init, TypeOK
<1>4. RealTimeIsAwaited /\ OneRealTime /\ OverWhenTold /\ NobodyLeftOut
  BY <1>2, AgentSets DEF Init, RealTimeIsAwaited, OneRealTime, OverWhenTold, NobodyLeftOut
<1> QED
  BY <1>3, <1>4 DEF IInv

LEMMA CutAgents ==
  ASSUME TypeOK, NEW as
  PROVE  /\ Cut(as) \in [Agents -> {"off", "queued", "running", "ended", "shed", "cut"}]
         /\ \A a \in Agents : Cut(as)[a] = IF a \in as THEN "cut" ELSE agent[a]
  BY DEF Cut, TypeOK

LEMMA CancelTypes ==
  ASSUME TypeOK, CancelScheduled
  PROVE  /\ sched' = "over"
         /\ agent' \in [Agents -> {"off", "queued", "running", "ended", "shed", "cut"}]
         /\ \A a \in Agents : \/ agent'[a] = agent[a]
                              \/ agent[a] = "running" /\ agent'[a] = "cut"
         /\ RealTimeIsAwaited => \A a \in P0 : agent'[a] # "running"
  BY CutAgents, AgentSets DEF CancelScheduled, TypeOK, Running, RealTimeIsAwaited

LEMMA LeaveLoopInv == ASSUME IInv, LeaveLoop PROVE IInv'
  BY AgentSets
  DEF IInv, TypeOK, RealTimeIsAwaited, OneRealTime, OverWhenTold, NobodyLeftOut,
      LeaveLoop, HeapDone, Queue, turn, asking

LEMMA StartInv == ASSUME IInv, NEW a \in Agents, Start(a) PROVE IInv'
<1> USE DEF IInv
<1>1. a \in Mesh /\ agent[a] = "queued" /\ sched = "loop"
  BY DEF Start, ReadyNow, Queue
<1>2. \A b \in P0 : agent[b] # "running"
  BY <1>1 DEF RealTimeIsAwaited
<1>3. CASE /\ agent' = [agent EXCEPT ![a] = "running"]
           /\ startAt' = [startAt EXCEPT ![a] = now]
           /\ sched' = IF a \in P0 THEN "p0" ELSE "loop"
  <2>1. /\ agent'[a] = "running" /\ \A b \in Agents \ {a} : agent'[b] = agent[b]
        /\ agent' \in [Agents -> {"off", "queued", "running", "ended", "shed", "cut"}]
    BY <1>3 DEF TypeOK
  <2>2. TypeOK'
    BY <1>3, <2>1 DEF TypeOK, Start, turn, asking
  <2>3. RealTimeIsAwaited' /\ OneRealTime'
    BY <1>1, <1>2, <1>3, <2>1, AgentSets DEF RealTimeIsAwaited, OneRealTime
  <2>4. OverWhenTold' /\ NobodyLeftOut'
    BY <1>1, <1>3, <2>1, AgentSets DEF OverWhenTold, NobodyLeftOut, Start, turn
  <2> QED
    BY <2>2, <2>3, <2>4
<1>4. CASE /\ MayShed(a)
           /\ agent' = [agent EXCEPT ![a] = "shed"]
           /\ UNCHANGED <<startAt, sched>>
  <2>1. /\ agent'[a] = "shed" /\ \A b \in Agents \ {a} : agent'[b] = agent[b]
        /\ agent' \in [Agents -> {"off", "queued", "running", "ended", "shed", "cut"}]
    BY <1>4 DEF TypeOK
  <2>2. TypeOK'
    BY <1>4, <2>1 DEF TypeOK, Start, MayShed, turn, asking
  <2>3. RealTimeIsAwaited' /\ OneRealTime'
    BY <1>1, <1>2, <1>4, <2>1, AgentSets DEF RealTimeIsAwaited, OneRealTime
  <2>4. OverWhenTold' /\ NobodyLeftOut'
    BY <1>1, <1>4, <2>1, AgentSets DEF OverWhenTold, NobodyLeftOut, Start, turn
  <2> QED
    BY <2>2, <2>3, <2>4
<1> QED
  BY <1>3, <1>4 DEF Start

LEMMA EndsInv == ASSUME IInv, NEW a \in Agents, Ends(a) PROVE IInv'
<1> USE DEF IInv
<1>1. /\ agent[a] = "running" /\ agent'[a] = "ended"
      /\ \A b \in Agents \ {a} : agent'[b] = agent[b]
      /\ agent' \in [Agents -> {"off", "queued", "running", "ended", "shed", "cut"}]
  BY DEF Ends, TypeOK
<1>2. board' \subseteq Slots
  BY DEF Ends, TypeOK, Writes, Slots
<1>3. TypeOK'
  BY <1>1, <1>2 DEF Ends, TypeOK, turn, asking
<1>4. RealTimeIsAwaited' /\ OneRealTime'
  BY <1>1, AgentSets DEF RealTimeIsAwaited, OneRealTime, Ends
<1>5. OverWhenTold' /\ NobodyLeftOut'
  BY <1>1, AgentSets DEF OverWhenTold, NobodyLeftOut, RealTimeIsAwaited, Ends, turn
<1> QED
  BY <1>3, <1>4, <1>5

LEMMA ExpiresInv == ASSUME IInv, NEW a \in Agents, Expires(a) PROVE IInv'
<1> USE DEF IInv
<1>1. /\ agent[a] = "running" /\ agent'[a] = "cut"
      /\ \A b \in Agents \ {a} : agent'[b] = agent[b]
      /\ agent' \in [Agents -> {"off", "queued", "running", "ended", "shed", "cut"}]
  BY CutAgents DEF Expires
<1>2. a \in Mesh => now >= Budget
  BY DEF Expires, Expired, TypeOK, Horizon
<1>3. TypeOK'
  BY <1>1 DEF Expires, TypeOK, turn, asking
<1>4. RealTimeIsAwaited' /\ OneRealTime'
  BY <1>1, AgentSets DEF RealTimeIsAwaited, OneRealTime, Expires
<1>5. OverWhenTold' /\ NobodyLeftOut'
  <2>1. CASE a \in Mesh
    BY <1>1, <1>2, <2>1, AgentSets
    DEF OverWhenTold, NobodyLeftOut, RealTimeIsAwaited, Expires, turn, TypeOK, Horizon
  <2>2. CASE a \notin Mesh
    BY <1>1, <2>2, AgentSets DEF OverWhenTold, NobodyLeftOut, Expires, turn
  <2> QED
    BY <2>1, <2>2
<1> QED
  BY <1>3, <1>4, <1>5

LEMMA WaitedInv == ASSUME IInv, Waited PROVE IInv'
<1> USE DEF IInv
<1>1. /\ agent' \in [Agents -> {"off", "queued", "running", "ended", "shed", "cut"}]
      /\ \A a \in Agents : agent'[a] = IF a \in Running THEN "cut" ELSE agent[a]
  BY CutAgents DEF Waited
<1>2. TypeOK'
  BY <1>1 DEF Waited, TypeOK, turn, asking
<1>3. \A a \in Mesh : agent'[a] # "running"
  BY <1>1, AgentSets DEF Running
<1>4. RealTimeIsAwaited' /\ OneRealTime' /\ OverWhenTold'
  BY <1>3, AgentSets DEF RealTimeIsAwaited, OneRealTime, OverWhenTold, Waited, turn
<1>5. NobodyLeftOut'
  BY <1>1, <1>3, AgentSets DEF NobodyLeftOut, Waited, AllOver, turn, TypeOK, Horizon
<1> QED
  BY <1>2, <1>4, <1>5

\* Steps of the supervisor that leave the scheduler alone.
LEMMA QuietInv ==
  ASSUME IInv,
         Plan \/ ClarifierEnds \/ AnswerFirst \/ FirstToken \/ Commit \/ StreamEnds
           \/ Drained \/ Tick
  PROVE  IInv'
<1> USE DEF IInv
<1>1. TypeOK'
  <2>1. CASE Plan
    BY <2>1 DEF TypeOK, Plan
  <2>2. CASE ClarifierEnds
    BY <2>2 DEF TypeOK, ClarifierEnds, turn, mesh
  <2>5. CASE AnswerFirst \/ Commit
    BY <2>5 DEF TypeOK, AnswerFirst, Commit, mesh
  <2>6. CASE FirstToken
    BY <2>6 DEF TypeOK, FirstToken, asking, mesh
  <2>7. CASE Drained
    BY <2>7 DEF TypeOK, Drained, asking, mesh
  <2>3. CASE StreamEnds
    BY <2>3 DEF TypeOK, StreamEnds, Slots, asking
  <2>4. CASE Tick
    <3>1. Horizon \in Nat
      BY DEF Horizon
    <3>2. now' \in 0 .. Horizon
      BY <2>4, <3>1 DEF TypeOK, Tick
    <3> QED
      BY <2>4, <3>2 DEF TypeOK, Tick, turn, asking, mesh
  <2> QED
    BY <2>1, <2>2, <2>3, <2>4, <2>5, <2>6, <2>7
<1>2. RealTimeIsAwaited' /\ OneRealTime'
  <2>1. agent' = agent
    BY DEF Plan, ClarifierEnds, AnswerFirst, FirstToken, Commit, StreamEnds, Drained,
           Tick, mesh
  <2>2. (sched' = "p0") <=> (sched = "p0")
    BY DEF Plan, ClarifierEnds, AnswerFirst, FirstToken, Commit, StreamEnds, Drained,
           Tick, mesh, OverWhenTold
  <2> QED
    BY <2>1, <2>2 DEF RealTimeIsAwaited, OneRealTime
<1>3. OverWhenTold' /\ NobodyLeftOut'
  BY DEF OverWhenTold, NobodyLeftOut, TypeOK, Horizon, Plan, ClarifierEnds, AnswerFirst,
         FirstToken, Commit, StreamEnds, Drained, Tick, turn, mesh
<1> QED
  BY <1>1, <1>2, <1>3

\* Steps that cancel the scheduler, or leave the turn.
LEMMA CancelInv ==
  ASSUME IInv, AskFirst \/ Interrupt \/ DrainTimeout \/ Dropped
  PROVE  IInv'
<1> USE DEF IInv
<1>1. CASE CancelScheduled
  <2>1. TypeOK'
    BY <1>1, CancelTypes
    DEF TypeOK, AskFirst, Interrupt, Ask, DrainTimeout, Dropped, asking
  <2>2. RealTimeIsAwaited' /\ OneRealTime'
    BY <1>1, CancelTypes, AgentSets DEF RealTimeIsAwaited, OneRealTime
  <2>3. OverWhenTold'
    BY <1>1, CancelTypes
    DEF OverWhenTold, AskFirst, Interrupt, Ask, DrainTimeout, Dropped
  <2>4. NobodyLeftOut'
    <3>1. DrainTimeout => now >= Budget /\ now' = now
      BY DEF DrainTimeout, DrainDue, TypeOK, Horizon
    <3>2. ~DrainTimeout => phase' = "over"
      BY DEF AskFirst, Interrupt, Ask, Dropped
    <3> QED
      BY <3>1, <3>2 DEF NobodyLeftOut, TypeOK, Horizon
  <2> QED
    BY <2>1, <2>2, <2>3, <2>4
<1>2. CASE Dropped /\ CancelNothing
  BY <1>2
  DEF TypeOK, RealTimeIsAwaited, OneRealTime, OverWhenTold, NobodyLeftOut, Dropped,
      CancelNothing, asking
<1> QED
  BY <1>1, <1>2 DEF AskFirst, Interrupt, Ask, DrainTimeout, Dropped

LEMMA TellDoneInv == ASSUME IInv, TellDone PROVE IInv'
<1> USE DEF IInv
<1>1. /\ agent' \in [Agents -> {"off", "queued", "running", "ended", "shed", "cut"}]
      /\ \A a \in Mesh : agent'[a] = agent[a]
      /\ agent'["reflector"] # "shed"
  BY AgentSets DEF TellDone, TypeOK
<1>2. TypeOK'
  BY <1>1, AgentSets DEF TypeOK, TellDone, Agents, asking
<1>3. RealTimeIsAwaited' /\ OneRealTime'
  BY <1>1, AgentSets DEF RealTimeIsAwaited, OneRealTime, TellDone
<1>4. OverWhenTold' /\ NobodyLeftOut'
  BY DEF OverWhenTold, NobodyLeftOut, TellDone
<1> QED
  BY <1>2, <1>3, <1>4

LEMMA StepInv == IInv /\ [Next]_vars => IInv'
<1> SUFFICES ASSUME IInv, [Next]_vars PROVE IInv'
  OBVIOUS
<1>1. CASE UNCHANGED vars
  BY <1>1 DEF IInv, TypeOK, RealTimeIsAwaited, OneRealTime, OverWhenTold, NobodyLeftOut,
              vars, turn, asking, mesh
<1>2. CASE Next
  BY <1>2, LeaveLoopInv, StartInv, EndsInv, ExpiresInv, WaitedInv, QuietInv, CancelInv,
     TellDoneInv DEF Next, Sure
<1> QED
  BY <1>1, <1>2

THEOREM MeshInvariant == Spec => []IInv
  BY InitInv, StepInv, PTL DEF Spec

\* Every variable keeps its type, and only optional agents are shed.
THEOREM MeshTypes == Spec => []TypeOK
<1>1. IInv => TypeOK
  BY DEF IInv
<1> QED
  BY <1>1, MeshInvariant, PTL

\* A real-time agent never outlives the scheduler that awaits it.
THEOREM RealTimeAwaited == Spec => []RealTimeIsAwaited
<1>1. IInv => RealTimeIsAwaited
  BY DEF IInv
<1> QED
  BY <1>1, MeshInvariant, PTL

\* A turn that is done within its budget has left no agent out.
THEOREM EarlyIsComplete == Spec => EarlyDoneIsComplete
<1>1. IInv /\ [Next]_vars =>
        [told # "done" /\ told' = "done" /\ now < Budget
           => \A a \in Mesh : agent[a] \in {"off", "ended", "shed"}]_vars
  <2> SUFFICES ASSUME IInv, Next, told # "done", told' = "done", now < Budget
               PROVE  \A a \in Mesh : agent[a] \in {"off", "ended", "shed"}
    BY DEF vars, turn
  <2>1. TellDone
    BY DEF Next, Sure, LeaveLoop, Start, Expires, Ends, Waited, Plan, ClarifierEnds,
           AskFirst, AnswerFirst, FirstToken, Interrupt, Ask, Commit, StreamEnds, Drained,
           DrainTimeout, Dropped, Tick, turn
  <2>2. phase # "over" /\ sched = "over"
    BY <2>1 DEF TellDone, IInv, OverWhenTold
  <2> QED
    BY <2>2, AgentSets DEF IInv, NobodyLeftOut, TypeOK
<1> QED
  BY <1>1, MeshInvariant, PTL DEF Spec, EarlyDoneIsComplete

\* Once the client has been told, the mesh starts no agent.
THEOREM NothingStarts == Spec => NothingStartsAfter
<1>1. IInv /\ [Next]_vars =>
        [(told \in {"questions", "done"})
           => \A a \in Mesh : agent[a] = "queued" => agent'[a] = "queued"]_vars
  <2> SUFFICES ASSUME IInv, Next, told \in {"questions", "done"},
                      NEW a \in Mesh, agent[a] = "queued"
               PROVE  agent'[a] = "queued"
    BY DEF vars, mesh
  <2>1. sched = "over" /\ phase = "over" /\ a \in Agents
    BY AgentSets DEF IInv, OverWhenTold
  <2>2. CASE \E b \in Agents : Ends(b) \/ Expires(b)
    BY <2>1, <2>2, CutAgents DEF Ends, Expires, IInv, TypeOK
  <2>3. CASE UNCHANGED agent
    BY <2>3
  <2> QED
    BY <2>1, <2>2, <2>3
    DEF Next, Sure, LeaveLoop, Start, Waited, Plan, ClarifierEnds, AskFirst, AnswerFirst,
        FirstToken, Interrupt, Commit, StreamEnds, Drained, DrainTimeout, TellDone,
        Dropped, Tick, mesh
<1> QED
  BY <1>1, MeshInvariant, PTL DEF Spec, NothingStartsAfter
=============================================================================
