------------------------- MODULE LiveAnswersProofs -------------------------
(***************************************************************************)
(* Proofs about LiveAnswers: for any number of tasks, question ids, texts, *)
(* retries and connections its state is well-typed, the budget covers the  *)
(* answers under way, a text has one answer in the dedup window, Stop      *)
(* finds a running task that was started for the question or none, and the *)
(* session keeps the promise of AnswerDesk.                                *)
(*                                                                         *)
(* None of the invariants is inductive alone: a slot is given back by code *)
(* that only knows where its task stands, so what a task is and where it   *)
(* can be have to agree (Sound); the registry is cleared by question id,   *)
(* so a registered task must be one whose end clears it (RegistryInv); and *)
(* the window is asked about texts, not about tasks (WindowInv).           *)
(***************************************************************************)
EXTENDS LiveAnswers, FiniteSetTheorems, TLAPS

\* What holds of the record of a task between two steps, whatever else goes on.
Sound(r) ==
    /\ r \in TaskRecord
    /\ r.at = "unborn" => r = Fresh
    /\ r.at # "unborn" => r.kind # "none" /\ r.qid \in Qids /\ r.main \in Qids
    /\ r.kind \in {"ask", "verify"} => r.text \in Texts
    /\ r.kind = "resume" => r.at \in {"stream", "over", "cut"}
    /\ r.at = "verdict" => r.kind = "verify"
    /\ r.at = "sent" => r.kind = "ask"
TasksInv == tasks \in [Tasks -> TaskRecord] /\ \A t \in Tasks : Sound(tasks[t])

SharedInv ==
    /\ recent \subseteq Texts /\ active \in Nat /\ conn \in 1 .. MaxConns
    /\ bubble \in [Qids -> {"none", "open", "ended"}]

\* Nobody works on a question whose bubble was never opened.
BubblesInv == \A t \in Tasks : ~At(t, "unborn") => bubble[tasks[t].qid] # "none"

\* A task that was noted is noted under a text of the window, and alone.
WindowInv ==
    /\ \A t \in Tasks : tasks[t].noted => tasks[t].text \in recent
    /\ \A t, u \in Tasks :
          (t # u /\ tasks[t].noted /\ tasks[u].noted) => tasks[t].text # tasks[u].text

\* A registered task runs, was started for that question, and its end is
\* noticed.
RegistryInv ==
    /\ registry \in [Qids -> Tasks \cup {None}]
    /\ \A q \in Qids : registry[q] # None =>
          /\ Live(registry[q]) /\ tasks[registry[q]].main = q
          /\ Registered(registry[q])

IInv == TasksInv /\ SharedInv /\ BubblesInv /\ WindowInv /\ RegistryInv /\ SlotsCoverAnswers

-----------------------------------------------------------------------------
(* What tasks become.                                                      *)

LEMMA InitOK == Init => IInv
<1> SUFFICES ASSUME Init PROVE IInv
  OBVIOUS
<1>1. \A t \in Tasks : tasks[t] = Fresh
  BY DEF Init
<1>2. Fresh \in TaskRecord /\ Fresh.at = "unborn" /\ Fresh.kind = "none" /\ Fresh.noted = FALSE
  BY CapAssumption DEF Fresh, TaskRecord
<1>3. TasksInv /\ BubblesInv /\ WindowInv
  BY <1>1, <1>2 DEF Init, TasksInv, Sound, BubblesInv, WindowInv, At
<1>4. SharedInv /\ RegistryInv
  BY CapAssumption DEF Init, SharedInv, RegistryInv
<1>5. Holding = {}
  BY <1>1, <1>2 DEF Holding
<1>6. SlotsCoverAnswers
  BY <1>5, FS_EmptySet, CapAssumption DEF Init, SlotsCoverAnswers
<1> QED
  BY <1>3, <1>4, <1>6 DEF IInv

\* A cancelled task is the same task, closing, cut or over.
LEMMA CancelledOK ==
    ASSUME NEW r, Sound(r), r.at \notin {"unborn", "over", "cut"}
    PROVE  LET c == CancelledTask(r)
           IN  /\ Sound(c) /\ c.at \in {"close", "cut", "over"}
               /\ c.kind = r.kind /\ c.qid = r.qid /\ c.text = r.text /\ c.noted = r.noted
               /\ c.conn = r.conn /\ c.main = r.main
               /\ c.at = "close" => r.at \in {"stream", "finish"} /\ r.kind # "resume"
BY DEF Sound, TaskRecord, CancelledTask, AfterCancel

\* Moving a task to another place keeps it sound, resumed or verifying tasks
\* being at fewer places.
LEMMA MovedOK ==
    ASSUME NEW r, Sound(r), r.at # "unborn",
           NEW p \in {"detect", "prepare", "stream", "finish", "close", "sent", "over", "cut"},
           r.kind = "resume" => p = "over", p = "sent" => r.kind = "ask"
    PROVE  Sound([r EXCEPT !.at = p])
BY DEF Sound, TaskRecord

\* Nor does it matter that it is no longer noted.
LEMMA NotNoted ==
    ASSUME NEW r, Sound(r)
    PROVE  LET n == [r EXCEPT !.noted = FALSE]
           IN  /\ Sound(n) /\ n.noted = FALSE /\ n.at = r.at /\ n.kind = r.kind
               /\ n.qid = r.qid /\ n.text = r.text /\ n.conn = r.conn /\ n.main = r.main
<1>1. CASE r.at = "unborn"
  <2>1. [r EXCEPT !.noted = FALSE] = r /\ r.noted = FALSE
    BY <1>1 DEF Sound, Fresh
  <2> QED
    BY <2>1
<1>2. CASE r.at # "unborn"
  BY <1>2 DEF Sound, TaskRecord
<1> QED
  BY <1>1, <1>2

\* Only the places named in a guard are places of a resumed task.
LEMMA KindOf ==
    ASSUME TasksInv, NEW t \in Tasks,
           tasks[t].at \in {"detect", "prepare", "finish", "close", "verdict"}
    PROVE  /\ tasks[t].kind \in {"ask", "verify"} /\ tasks[t].text \in Texts
           /\ tasks[t].qid \in Qids
BY DEF TasksInv, Sound, TaskRecord

-----------------------------------------------------------------------------
(* What a step does to the tasks.                                          *)

\* The tasks that end, or send the last frame of a question.
Ending(t) ==
    \/ NotAnswered(t) \/ SkipDuplicate(t) \/ Shed(t) \/ NoDatabase(t) \/ Fail(t) \/ Close(t)
    \/ LastQuestion(t) \/ Resumed(t)

\* Where one can stand that does.
LEMMA EndingShape ==
    ASSUME IInv, NEW t \in Tasks, Ending(t)
    PROVE  /\ tasks[t].at \in {"detect", "prepare", "stream", "close", "sent"}
           /\ \E p \in {"sent", "over"} :
                 /\ tasks' = Moved(t, p) /\ (p = "sent" => tasks[t].kind = "ask")
                 /\ registry' = Unregistered(IF p = "over" THEN {t} ELSE {})
           /\ bubble' \in {bubble, Ended(tasks[t].qid)} /\ conn' = conn
           /\ recent \subseteq recent' /\ recent' \subseteq recent \cup Texts
           /\ \/ active' = active
              \/ Release /\ tasks[t].at \in {"stream", "close"} /\ tasks[t].kind # "resume"
<1> DEFINE frame == bubble' \in {bubble, Ended(tasks[t].qid)} /\ conn' = conn
           places == {"detect", "prepare", "stream", "close", "sent"}
<1>1. /\ tasks[t].at \in places /\ frame
      /\ \/ EndsWith(t) \/ LastQuestion(t) \/ AnsweredWith(t)
  BY DEF Ending, NotAnswered, SkipDuplicate, Shed, NoDatabase, Fail, Close, LastQuestion, Resumed,
         EndsWith, AnsweredWith, At
<1>2. tasks[t].at \notin {"stream", "sent"} => tasks[t].kind # "resume" /\ tasks[t].text \in Texts
  BY <1>1, KindOf DEF IInv
<1>3. recent \subseteq recent' /\ recent' \subseteq recent \cup Texts
  BY <1>2 DEF Ending, NotAnswered, SkipDuplicate, Shed, NoDatabase, Fail, Close, LastQuestion,
              Resumed, At, Noted
<1>4. \/ active' = active
      \/ Release /\ tasks[t].at \in {"stream", "close"} /\ tasks[t].kind # "resume"
  BY <1>2 DEF Ending, NotAnswered, SkipDuplicate, Shed, NoDatabase, Fail, Close, LastQuestion,
              Resumed, At
<1>5. \E p \in {"sent", "over"} :
         /\ tasks' = Moved(t, p) /\ (p = "sent" => tasks[t].kind = "ask")
         /\ registry' = Unregistered(IF p = "over" THEN {t} ELSE {})
  <2>1. CASE EndsWith(t) \/ LastQuestion(t)
    BY <2>1 DEF EndsWith, LastQuestion
  <2>2. CASE AnsweredWith(t)
    BY <2>2 DEF AnsweredWith, After, Dead
  <2> QED
    BY <1>1, <2>1, <2>2
<1> QED
  BY <1>1, <1>3, <1>4, <1>5

\* One task is replaced, by one that is sound and has a bubble.
LEMMA OneChanged ==
    ASSUME TasksInv, BubblesInv, NEW t \in Tasks, NEW r, Sound(r),
           tasks' = [tasks EXCEPT ![t] = r],
           \A q \in Qids : bubble[q] # "none" => bubble'[q] # "none",
           r.at # "unborn" => bubble'[r.qid] # "none"
    PROVE  TasksInv' /\ BubblesInv'
<1>1. \A u \in Tasks : tasks'[u] = IF u = t THEN r ELSE tasks[u]
  BY DEF TasksInv
<1>2. \A u \in Tasks : Sound(tasks'[u])
  BY <1>1 DEF TasksInv
<1>3. tasks' \in [Tasks -> TaskRecord]
  BY <1>2 DEF TasksInv, Sound
<1>4. BubblesInv'
  BY <1>1 DEF BubblesInv, TasksInv, Sound, At
<1> QED
  BY <1>2, <1>3, <1>4 DEF TasksInv

\* A bubble that is opened or ended was not lost.
LEMMA BubbleKept ==
    ASSUME SharedInv, NEW q \in Qids, bubble' \in {bubble, Ended(q), [bubble EXCEPT ![q] = "open"]}
    PROVE  /\ \A u \in Qids : bubble[u] # "none" => bubble'[u] # "none"
           /\ bubble' \in [Qids -> {"none", "open", "ended"}]
           /\ bubble' # bubble => bubble'[q] # "none"
BY DEF SharedInv, Ended

\* A task that moves on keeps what it is.
LEMMA MoveTasks ==
    ASSUME IInv, NEW t \in Tasks, tasks[t].at # "unborn",
           NEW p \in {"detect", "prepare", "stream", "finish", "close", "sent", "over", "cut"},
           tasks[t].kind = "resume" => p = "over", p = "sent" => tasks[t].kind = "ask",
           tasks' = Moved(t, p), bubble' \in {bubble, Ended(tasks[t].qid)}
    PROVE  TasksInv' /\ BubblesInv'
<1> DEFINE r == [tasks[t] EXCEPT !.at = p]
<1>1. Sound(tasks[t]) /\ tasks[t] \in TaskRecord /\ tasks[t].qid \in Qids /\ bubble[tasks[t].qid] # "none"
  BY DEF IInv, TasksInv, BubblesInv, Sound, At
<1>2. Sound(r) /\ r.qid = tasks[t].qid
  BY <1>1, MovedOK DEF TaskRecord
<1>3. tasks' = [tasks EXCEPT ![t] = r]
  BY DEF Moved
<1>4. \A q \in Qids : bubble[q] # "none" => bubble'[q] # "none"
  BY <1>1, BubbleKept DEF IInv
<1> QED
  BY <1>1, <1>2, <1>3, <1>4, OneChanged DEF IInv

LEMMA AdmitTasks == ASSUME IInv, NEW t \in Tasks, Admit(t) PROVE TasksInv' /\ BubblesInv'
<1> DEFINE r == [tasks[t] EXCEPT !.at = "prepare", !.noted = ~Retry(t)]
<1>1. Sound(tasks[t]) /\ tasks[t].at = "detect" /\ tasks[t].kind # "resume"
      /\ tasks[t].qid \in Qids /\ bubble[tasks[t].qid] # "none"
  BY KindOf DEF IInv, TasksInv, BubblesInv, At, Admit
<1>2. Sound(r) /\ r.qid = tasks[t].qid
  BY <1>1 DEF Sound, TaskRecord, Retry
<1>3. tasks' = [tasks EXCEPT ![t] = r] /\ bubble' = bubble
  BY DEF Admit, IInv, TasksInv
<1> QED
  BY <1>1, <1>2, <1>3, OneChanged DEF IInv

\* A task is born: asked, or resuming.
LEMMA BirthTasks ==
    ASSUME IInv, NEW t \in Tasks, NEW q \in Qids, Resume(t, q) \/ \E x \in Texts : Ask(t, q, x)
    PROVE  TasksInv' /\ BubblesInv'
<1>1. PICK r : /\ tasks' = [tasks EXCEPT ![t] = r]
               /\ r.qid = q /\ Sound(r)
  <2>1. CASE Resume(t, q)
    <3> DEFINE r == [kind |-> "resume", main |-> q, qid |-> q, text |-> None, stage |-> 0,
                     at |-> "stream", noted |-> FALSE, conn |-> conn]
    <3>1. tasks' = [tasks EXCEPT ![t] = r]
      BY <2>1 DEF Resume
    <3>2. r.qid = q /\ Sound(r)
      BY CapAssumption DEF Sound, TaskRecord, IInv, SharedInv
    <3> QED
      BY <3>1, <3>2
  <2>2. ASSUME NEW x \in Texts, Ask(t, q, x)
        PROVE  \E r : tasks' = [tasks EXCEPT ![t] = r] /\ r.qid = q /\ Sound(r)
    <3> DEFINE r == [kind |-> "ask", main |-> q, qid |-> q, text |-> x, stage |-> 0,
                     at |-> "detect", noted |-> FALSE, conn |-> conn]
    <3>1. tasks' = [tasks EXCEPT ![t] = r]
      BY <2>2 DEF Ask
    <3>2. r.qid = q /\ Sound(r)
      BY CapAssumption DEF Sound, TaskRecord, IInv, SharedInv
    <3> QED
      BY <3>1, <3>2
  <2> QED
    BY <2>1, <2>2
<1>2. bubble' = [bubble EXCEPT ![q] = "open"]
  BY DEF Resume, Ask
<1>3. bubble'[q] # "none" /\ \A u \in Qids : bubble[u] # "none" => bubble'[u] # "none"
  BY <1>2 DEF IInv, SharedInv
<1> QED
  BY <1>1, <1>3, OneChanged DEF IInv

-----------------------------------------------------------------------------
(* The window, the registry and the slots, whatever the step was.          *)

\* Nobody comes to be noted, and who is noted is so under a text of the window.
LEMMA WindowKept ==
    ASSUME IInv,
           \A u \in Tasks : tasks'[u].noted =>
               tasks[u].noted /\ tasks'[u].text = tasks[u].text /\ tasks[u].text \in recent'
    PROVE  WindowInv'
BY DEF IInv, WindowInv

\* The tasks of D end, and nothing happens to another task that could be
\* registered but that it moves on.
LEMMA RegistryKept ==
    ASSUME IInv, conn' = conn, NEW D \in SUBSET Tasks, registry' = Unregistered(D),
           \A u \in Tasks \ D : (Live(u) /\ tasks[u].kind # "verify") =>
               /\ Live(u)' /\ tasks'[u].kind = tasks[u].kind
               /\ tasks'[u].main = tasks[u].main /\ tasks'[u].conn = tasks[u].conn
    PROVE  RegistryInv'
<1>1. registry' \in [Qids -> Tasks \cup {None}]
  BY DEF IInv, RegistryInv, Unregistered
<1>2. ASSUME NEW q \in Qids, registry'[q] # None
      PROVE  /\ registry[q] = registry'[q] /\ registry[q] \in Tasks \ D
             /\ Live(registry[q]) /\ tasks[registry[q]].main = q /\ Registered(registry[q])
  BY <1>2 DEF IInv, RegistryInv, Unregistered
<1>3. ASSUME NEW q \in Qids, registry'[q] # None
      PROVE  /\ Live(registry[q])' /\ tasks'[registry'[q]].main = q
             /\ Registered(registry[q])'
  BY <1>2, <1>3 DEF Registered
<1> QED
  BY <1>1, <1>3 DEF RegistryInv

LEMMA NobodyUnregistered == RegistryInv => Unregistered({}) = registry
BY DEF RegistryInv, Unregistered

LEMMA HoldingFinite == IsFiniteSet(Holding) /\ Holding \subseteq Tasks
                       /\ Cardinality(Holding) \in Nat
BY TasksAssumption, FS_Subset, FS_CardinalityType DEF Holding

\* Nobody takes a slot, and none is given back.
LEMMA SlotsKept ==
    ASSUME IInv, active' = active, Holding' \subseteq Holding
    PROVE  SlotsCoverAnswers'
<1>1. Cardinality(Holding') <= Cardinality(Holding) /\ Cardinality(Holding') \in Nat
  BY HoldingFinite, FS_Subset, FS_CardinalityType
<1> QED
  BY <1>1, HoldingFinite, CapAssumption DEF IInv, SharedInv, SlotsCoverAnswers

\* As many slots are given back as tasks leave, at the least.
LEMMA SlotsReturned ==
    ASSUME IInv, NEW C \in SUBSET Holding, active' = active - Cardinality(C),
           Holding' \subseteq Holding \ C
    PROVE  SlotsCoverAnswers' /\ active' \in Nat
<1>1. /\ IsFiniteSet(C) /\ Cardinality(C) \in Nat /\ IsFiniteSet(Holding \ C)
      /\ Cardinality(Holding \ C) = Cardinality(Holding) - Cardinality(Holding \cap C)
  BY HoldingFinite, FS_Subset, FS_Difference, FS_CardinalityType
<1>2. Holding \cap C = C
  OBVIOUS
<1>3. Cardinality(Holding') <= Cardinality(Holding \ C) /\ Cardinality(Holding') \in Nat
  BY <1>1, FS_Subset, FS_CardinalityType
<1> QED
  BY <1>1, <1>2, <1>3, HoldingFinite, CapAssumption DEF IInv, SharedInv, SlotsCoverAnswers

\* The finally clause of a task that holds a slot.
LEMMA SlotReleased ==
    ASSUME IInv, NEW t \in Holding, Release, Holding' \subseteq Holding \ {t}
    PROVE  SlotsCoverAnswers' /\ active' \in Nat
<1>1. Cardinality({t}) = 1
  BY FS_Singleton
<1>2. Cardinality(Holding) >= 1
  BY <1>1, HoldingFinite, FS_Subset, {t} \subseteq Holding
<1>3. active' = active - Cardinality({t})
  BY <1>1, <1>2, HoldingFinite DEF Release, IInv, SharedInv, SlotsCoverAnswers
<1> QED
  BY <1>3, SlotsReturned

-----------------------------------------------------------------------------
(* Every step keeps the invariant.                                         *)

\* A task moves on, or ends.
LEMMA MovedHolding ==
    ASSUME TasksInv, NEW t \in Tasks, NEW p, tasks' = Moved(t, p)
    PROVE  /\ \A u \in Tasks \ {t} : tasks'[u] = tasks[u]
           /\ tasks'[t] = [tasks[t] EXCEPT !.at = p]
           /\ tasks'[t].at = p /\ tasks'[t].kind = tasks[t].kind /\ tasks'[t].qid = tasks[t].qid
           /\ tasks'[t].conn = tasks[t].conn /\ tasks'[t].text = tasks[t].text
           /\ tasks'[t].noted = tasks[t].noted /\ tasks'[t].main = tasks[t].main
           /\ Holding' \subseteq Holding \cup {t}
           /\ p \in {"over", "cut", "sent"} => Holding' \subseteq Holding \ {t}
<1>1. tasks[t] \in TaskRecord
  BY DEF TasksInv
<1>2. /\ \A u \in Tasks \ {t} : tasks'[u] = tasks[u]
      /\ tasks'[t] = [tasks[t] EXCEPT !.at = p]
  BY DEF TasksInv, Moved
<1>3. /\ tasks'[t].at = p /\ tasks'[t].kind = tasks[t].kind /\ tasks'[t].qid = tasks[t].qid
      /\ tasks'[t].conn = tasks[t].conn /\ tasks'[t].text = tasks[t].text
      /\ tasks'[t].noted = tasks[t].noted /\ tasks'[t].main = tasks[t].main
  BY <1>1, <1>2 DEF TaskRecord
<1>4. Holding' \subseteq Holding \cup {t}
  BY <1>2 DEF Holding
<1>5. p \in {"over", "cut", "sent"} => Holding' \subseteq Holding \ {t}
  BY <1>2, <1>3 DEF Holding
<1> QED
  BY <1>2, <1>3, <1>4, <1>5

LEMMA EndingOK == ASSUME IInv, NEW t \in Tasks, Ending(t) PROVE IInv'
<1>0. PICK p \in {"sent", "over"} :
         /\ tasks' = Moved(t, p) /\ (p = "sent" => tasks[t].kind = "ask")
         /\ registry' = Unregistered(IF p = "over" THEN {t} ELSE {})
  BY EndingShape
<1>1. /\ tasks[t].at \in {"detect", "prepare", "stream", "close", "sent"}
      /\ bubble' \in {bubble, Ended(tasks[t].qid)} /\ conn' = conn
      /\ recent \subseteq recent' /\ recent' \subseteq recent \cup Texts
      /\ \/ active' = active
         \/ Release /\ tasks[t].at \in {"stream", "close"} /\ tasks[t].kind # "resume"
  BY EndingShape
<1>2. TasksInv' /\ BubblesInv'
  <2>1. tasks[t].at # "unborn" /\ (tasks[t].kind = "resume" => p = "over")
    BY <1>0, <1>1
  <2> QED
    BY <1>0, <1>1, <2>1, MoveTasks
<1>3. /\ \A u \in Tasks \ {t} : tasks'[u] = tasks[u]
      /\ tasks'[t].noted = tasks[t].noted /\ tasks'[t].text = tasks[t].text
      /\ tasks'[t].at = p /\ tasks'[t].kind = tasks[t].kind
      /\ tasks'[t].main = tasks[t].main /\ tasks'[t].conn = tasks[t].conn
      /\ Holding' \subseteq Holding \ {t}
  BY <1>0, MovedHolding DEF IInv
<1>4. WindowInv'
  <2>1. ASSUME NEW u \in Tasks, tasks'[u].noted
        PROVE  tasks[u].noted /\ tasks'[u].text = tasks[u].text /\ tasks[u].text \in recent'
    BY <1>1, <1>3, <2>1 DEF IInv, WindowInv
  <2> QED
    BY <2>1, WindowKept
<1>5. RegistryInv'
  <2>1. CASE p = "over"
    BY <2>1, <1>0, <1>1, <1>3, RegistryKept, {t} \in SUBSET Tasks DEF Live
  <2>2. CASE p = "sent"
    BY <2>2, <1>0, <1>1, <1>3, RegistryKept, {} \in SUBSET Tasks DEF Live
  <2> QED
    BY <2>1, <2>2
<1>6. SlotsCoverAnswers' /\ active' \in Nat
  <2>1. CASE active' = active
    BY <2>1, <1>3, SlotsKept DEF IInv, SharedInv
  <2>2. CASE Release /\ tasks[t].at \in {"stream", "close"} /\ tasks[t].kind # "resume"
    BY <2>2, <1>3, SlotReleased DEF Holding
  <2> QED
    BY <1>1, <2>1, <2>2
<1>7. SharedInv'
  <2>1. tasks[t].qid \in Qids
    BY <1>1 DEF IInv, TasksInv, Sound
  <2> QED
    BY <1>1, <1>6, <2>1, BubbleKept DEF IInv, SharedInv
<1> QED
  BY <1>2, <1>4, <1>5, <1>6, <1>7 DEF IInv

\* The other moves: generation starts, the done frame is sent, the answer is
\* accepted.
LEMMA MovingOK ==
    ASSUME IInv, NEW t \in Tasks, Start(t) \/ Done(t) \/ Accept(t)
    PROVE  IInv'
<1>1. PICK p \in {"stream", "finish", "over"} :
        /\ tasks' = Moved(t, p)
        /\ p = "over" => At(t, "verdict")
        /\ p # "over" => t \in Holding
  BY KindOf DEF Start, Done, Accept, Holding, At, IInv
<1>2. /\ tasks[t].at \in {"prepare", "stream", "verdict"} /\ tasks[t].kind # "resume"
      /\ registry' = registry /\ recent' = recent /\ active' = active /\ conn' = conn
      /\ bubble' \in {bubble, Ended(tasks[t].qid)} /\ tasks[t].qid \in Qids
  <2>1. tasks[t].at # "unborn" /\ Sound(tasks[t])
    BY DEF IInv, TasksInv, Start, Done, Accept, At
  <2> QED
    BY <2>1, KindOf DEF Start, Done, Accept, At, IInv, Sound
<1>3. TasksInv' /\ BubblesInv'
  BY <1>1, <1>2, MoveTasks
<1>4. /\ \A u \in Tasks \ {t} : tasks'[u] = tasks[u]
      /\ tasks'[t].at = p /\ tasks'[t].kind = tasks[t].kind /\ tasks'[t].qid = tasks[t].qid
      /\ tasks'[t].conn = tasks[t].conn /\ tasks'[t].text = tasks[t].text
      /\ tasks'[t].noted = tasks[t].noted /\ tasks'[t].main = tasks[t].main
      /\ Holding' \subseteq Holding \cup {t}
      /\ p = "over" => Holding' \subseteq Holding \ {t}
  BY <1>1, MovedHolding DEF IInv
<1>5. WindowInv'
  BY <1>2, <1>4, WindowKept DEF IInv, WindowInv
<1>6. RegistryInv'
  <2>1. registry' = Unregistered({})
    BY <1>2, NobodyUnregistered DEF IInv
  <2>2. ASSUME NEW u \in Tasks, Live(u), tasks[u].kind # "verify"
        PROVE  /\ Live(u)' /\ tasks'[u].kind = tasks[u].kind
               /\ tasks'[u].main = tasks[u].main /\ tasks'[u].conn = tasks[u].conn
    <3>1. CASE u = t
      BY <3>1, <2>2, <1>1, <1>4 DEF Live, At, IInv, TasksInv, Sound
    <3>2. CASE u # t
      BY <3>2, <2>2, <1>4 DEF Live
    <3> QED
      BY <3>1, <3>2
  <2> QED
    BY <1>2, <2>1, <2>2, RegistryKept, {} \in SUBSET Tasks
<1>7. SlotsCoverAnswers'
  BY <1>1, <1>2, <1>4, SlotsKept
<1>8. SharedInv'
  BY <1>2, BubbleKept DEF IInv, SharedInv
<1> QED
  BY <1>3, <1>5, <1>6, <1>7, <1>8 DEF IInv

\* The answer is finished, and perhaps a verifier born of it.
LEMMA FinishOK == ASSUME IInv, NEW t \in Tasks, Finish(t) PROVE IInv'
<1> DEFINE r == [tasks[t] EXCEPT !.at = After(t)]
           w == [tasks[t] EXCEPT !.kind = "verify", !.at = "verdict", !.noted = FALSE]
<1>1. /\ tasks[t].at = "finish" /\ tasks[t].kind \in {"ask", "verify"} /\ Sound(tasks[t])
      /\ tasks[t].qid \in Qids /\ bubble[tasks[t].qid] # "none"
      /\ tasks[t] \in TaskRecord /\ tasks \in [Tasks -> TaskRecord]
      /\ registry' = Unregistered(Dead(t)) /\ Release
      /\ recent' = recent /\ bubble' = bubble /\ conn' = conn
  BY KindOf DEF IInv, TasksInv, BubblesInv, At, Finish
<1>2. PICK B \in SUBSET (Unborn \ {t}) :
        /\ \A u \in Tasks \ (B \cup {t}) : tasks'[u] = tasks[u]
        /\ tasks'[t] = r /\ \A v \in B : tasks'[v] = w
        /\ DOMAIN tasks' = Tasks /\ tasks' = [u \in Tasks |-> tasks'[u]]
  <2>1. CASE tasks' = Moved(t, After(t))
    <3>1. \A u \in Tasks \ ({} \cup {t}) : tasks'[u] = tasks[u]
      BY <1>1, <2>1 DEF Moved
    <3>2. tasks'[t] = r /\ DOMAIN tasks' = Tasks /\ tasks' = [u \in Tasks |-> tasks'[u]]
      BY <1>1, <2>1 DEF Moved
    <3>3. {} \in SUBSET (Unborn \ {t})
      OBVIOUS
    <3> QED
      BY <3>1, <3>2, <3>3
  <2>2. ASSUME NEW v \in Unborn, tasks' = [Moved(t, After(t)) EXCEPT ![v] = w]
        PROVE  /\ {v} \in SUBSET (Unborn \ {t})
               /\ \A u \in Tasks \ ({v} \cup {t}) : tasks'[u] = tasks[u]
               /\ tasks'[t] = r /\ tasks'[v] = w
               /\ DOMAIN tasks' = Tasks /\ tasks' = [u \in Tasks |-> tasks'[u]]
    <3>1. v # t /\ v \in Tasks
      BY <1>1 DEF Unborn
    <3> QED
      BY <3>1, <2>2, <1>1 DEF Moved
  <2>3. (tasks' = Moved(t, After(t))) \/ \E v \in Unborn : tasks' = [Moved(t, After(t)) EXCEPT ![v] = w]
    BY DEF Finish
  <2>4. ASSUME NEW v \in Unborn, tasks' = [Moved(t, After(t)) EXCEPT ![v] = w]
        PROVE  \E B \in SUBSET (Unborn \ {t}) :
                 /\ \A u \in Tasks \ (B \cup {t}) : tasks'[u] = tasks[u]
                 /\ tasks'[t] = r /\ \A z \in B : tasks'[z] = w
                 /\ DOMAIN tasks' = Tasks /\ tasks' = [u \in Tasks |-> tasks'[u]]
    <3>1. \A z \in {v} : tasks'[z] = w
      BY <2>2, <2>4
    <3> QED
      BY <2>2, <2>4, <3>1
  <2> QED
    BY <2>1, <2>3, <2>4
<1>3. /\ Sound(r) /\ r.at = After(t) /\ r.qid = tasks[t].qid
      /\ r.noted = tasks[t].noted /\ r.text = tasks[t].text
      /\ r.kind = tasks[t].kind /\ r.main = tasks[t].main /\ r.conn = tasks[t].conn
  BY <1>1 DEF Sound, TaskRecord, After
<1>4. Sound(w) /\ w.at = "verdict" /\ w.qid = tasks[t].qid /\ w.noted = FALSE
  BY <1>1 DEF Sound, TaskRecord
<1> HIDE DEF r, w
<1>5. \A u \in Tasks : Sound(tasks'[u])
  BY <1>2, <1>3, <1>4 DEF IInv, TasksInv
<1>6. TasksInv' /\ BubblesInv'
  <2>1. tasks' \in [Tasks -> TaskRecord]
    BY <1>2, <1>5 DEF Sound
  <2>2. ASSUME NEW u \in Tasks, ~(tasks'[u].at = "unborn") PROVE bubble[tasks'[u].qid] # "none"
    <3>1. CASE u = t
      BY <3>1, <1>1, <1>2, <1>3
    <3>2. CASE u \in B
      BY <3>2, <1>1, <1>2, <1>4
    <3>3. CASE u \notin B \cup {t}
      BY <3>3, <2>2, <1>2 DEF IInv, BubblesInv, At
    <3> QED
      BY <3>1, <3>2, <3>3
  <2> QED
    BY <1>1, <1>5, <2>1, <2>2 DEF TasksInv, BubblesInv, At
<1>7. WindowInv'
  <2>1. ASSUME NEW u \in Tasks, tasks'[u].noted
        PROVE  tasks[u].noted /\ tasks'[u].text = tasks[u].text
    <3>1. CASE u = t
      BY <3>1, <2>1, <1>2, <1>3
    <3>2. CASE u \in B
      BY <3>2, <2>1, <1>2, <1>4
    <3>3. CASE u \notin B \cup {t}
      BY <3>3, <2>1, <1>2
    <3> QED
      BY <3>1, <3>2, <3>3
  <2> QED
    BY <1>1, <2>1, WindowKept DEF IInv, WindowInv
<1>8. RegistryInv'
  <2>1. ASSUME NEW u \in Tasks \ {t}, Live(u) PROVE tasks'[u] = tasks[u]
    BY <1>2, <2>1 DEF Live, Unborn
  <2>2. CASE tasks[t].kind = "ask"
    BY <1>1, <1>2, <1>3, <2>1, <2>2, RegistryKept, {} \in SUBSET Tasks DEF Live, After, Dead
  <2>3. CASE tasks[t].kind = "verify"
    BY <1>1, <2>1, <2>3, RegistryKept, {t} \in SUBSET Tasks DEF Live, Dead
  <2> QED
    BY <1>1, <2>2, <2>3
<1>9. SlotsCoverAnswers' /\ active' \in Nat
  <2>1. t \in Holding
    BY <1>1 DEF Holding
  <2>2. Holding' \subseteq Holding \ {t}
    BY <1>2, <1>3, <1>4 DEF Holding, After
  <2> QED
    BY <1>1, <2>1, <2>2, SlotReleased
<1>10. SharedInv'
  BY <1>1, <1>9 DEF IInv, SharedInv
<1> QED
  BY <1>6, <1>7, <1>8, <1>9, <1>10 DEF IInv

\* The one step that takes a slot, and that notes a text: nobody was noted
\* under it, because it was not in the window.
LEMMA AdmitOK == ASSUME IInv, NEW t \in Tasks, Admit(t) PROVE IInv'
<1>1. TasksInv' /\ BubblesInv'
  BY AdmitTasks
<1>2. /\ \A u \in Tasks \ {t} : tasks'[u] = tasks[u]
      /\ tasks'[t].at = "prepare" /\ tasks'[t].noted = ~Retry(t)
      /\ tasks'[t].kind = tasks[t].kind /\ tasks'[t].qid = tasks[t].qid
      /\ tasks'[t].text = tasks[t].text /\ tasks'[t].conn = tasks[t].conn
      /\ tasks'[t].main = tasks[t].main
  <2>1. tasks[t] \in TaskRecord
    BY DEF IInv, TasksInv
  <2>2. /\ \A u \in Tasks \ {t} : tasks'[u] = tasks[u]
        /\ tasks'[t] = [tasks[t] EXCEPT !.at = "prepare", !.noted = ~Retry(t)]
    BY DEF IInv, TasksInv, Admit
  <2> QED
    BY <2>1, <2>2 DEF TaskRecord
<1>3. /\ tasks[t].at = "detect" /\ tasks[t].kind # "resume" /\ tasks[t].text \in Texts
      /\ active < Cap /\ active' = active + 1 /\ recent' = Noted(t) /\ ~Duplicate(t)
      /\ registry' = registry /\ bubble' = bubble /\ conn' = conn
  BY KindOf DEF IInv, Admit, At, CanStart
<1>4. SharedInv'
  BY <1>3 DEF IInv, SharedInv, Noted
<1>5. WindowInv'
  <2>1. CASE Retry(t)
    BY <2>1, <1>2, <1>3, WindowKept DEF IInv, WindowInv, Noted
  <2>2. CASE ~Retry(t)
    <3>1. tasks[t].text \notin recent /\ recent' = recent \cup {tasks[t].text}
      BY <2>2, <1>3 DEF Duplicate, Noted
    <3>2. \A u \in Tasks \ {t} : tasks[u].noted => tasks[u].text # tasks[t].text
      BY <3>1 DEF IInv, WindowInv
    <3> QED
      BY <1>2, <3>1, <3>2 DEF IInv, WindowInv
  <2> QED
    BY <2>1, <2>2
<1>6. RegistryInv'
  <2>1. registry' = Unregistered({})
    BY <1>3, NobodyUnregistered DEF IInv
  <2> QED
    BY <1>2, <1>3, <2>1, RegistryKept, {} \in SUBSET Tasks DEF Live
<1>7. SlotsCoverAnswers'
  <2>1. Holding' = Holding \cup {t} /\ t \notin Holding
    BY <1>2, <1>3 DEF Holding
  <2>2. Cardinality(Holding') = Cardinality(Holding) + 1
    BY <2>1, HoldingFinite, FS_AddElement
  <2> QED
    BY <1>3, <2>2, HoldingFinite, CapAssumption DEF IInv, SharedInv, SlotsCoverAnswers
<1> QED
  BY <1>1, <1>4, <1>5, <1>6, <1>7 DEF IInv

\* A task is born, and registered under its question: it was nobody before.
LEMMA BirthOK ==
    ASSUME IInv, NEW t \in Tasks, NEW q \in Qids, Resume(t, q) \/ \E x \in Texts : Ask(t, q, x)
    PROVE  IInv'
<1>1. TasksInv' /\ BubblesInv'
  BY BirthTasks
<1>2. /\ tasks[t].at = "unborn" /\ \A u \in Tasks \ {t} : tasks'[u] = tasks[u]
      /\ tasks'[t].qid = q /\ tasks'[t].noted = FALSE /\ tasks'[t].conn = conn
      /\ tasks'[t].main = q
      /\ \/ tasks'[t].kind = "resume" /\ tasks'[t].at = "stream"
         \/ tasks'[t].kind = "ask" /\ tasks'[t].at = "detect"
  BY DEF Resume, Ask, NextTask, Unborn, IInv, TasksInv
<1>3. /\ registry' = [registry EXCEPT ![q] = t] /\ bubble' = [bubble EXCEPT ![q] = "open"]
      /\ recent' = recent /\ active' = active /\ conn' = conn
  BY DEF Resume, Ask
<1>4. SharedInv'
  BY <1>3 DEF IInv, SharedInv
<1>5. WindowInv'
  BY <1>2, <1>3, WindowKept DEF IInv, WindowInv
<1>6. RegistryInv'
  <2>1. registry' \in [Qids -> Tasks \cup {None}] /\ registry'[q] = t
        /\ \A z \in Qids \ {q} : registry'[z] = registry[z]
    BY <1>3 DEF IInv, RegistryInv
  <2>2. Live(t)' /\ tasks'[t].main = q /\ Registered(t)'
    BY <1>2, <1>3 DEF Live, Registered
  <2>3. ASSUME NEW z \in Qids \ {q}, registry[z] # None
        PROVE  /\ tasks'[registry[z]].at \notin {"unborn", "over", "cut"}
               /\ tasks'[registry[z]].main = z
               /\ tasks'[registry[z]].kind # "verify" /\ tasks'[registry[z]].conn = conn
    <3>1. registry[z] \in Tasks /\ Live(registry[z]) /\ tasks[registry[z]].main = z
          /\ Registered(registry[z])
      BY <2>3 DEF IInv, RegistryInv
    <3>2. registry[z] # t
      BY <3>1, <1>2 DEF Live
    <3> QED
      BY <3>1, <3>2, <1>2 DEF Live, Registered
  <2>4. ASSUME NEW z \in Qids, registry'[z] # None
        PROVE  (/\ Live(registry[z]) /\ tasks[registry[z]].main = z
                /\ Registered(registry[z]))'
    <3>1. CASE z = q
      BY <3>1, <2>1, <2>2 DEF Live, Registered
    <3>2. CASE z # q
      BY <3>2, <2>4, <2>1, <2>3, <1>3 DEF Live, Registered
    <3> QED
      BY <3>1, <3>2
  <2> QED
    BY <2>1, <2>4 DEF RegistryInv
<1>7. SlotsCoverAnswers'
  <2>1. Holding' \subseteq Holding
    BY <1>2 DEF Holding
  <2> QED
    BY <1>3, <2>1, SlotsKept
<1> QED
  BY <1>1, <1>4, <1>5, <1>6, <1>7 DEF IInv

\* A task goes on with another question, which nobody registers: what it was
\* registered under, if at all, does not change.
LEMMA NewQuestion ==
    ASSUME IInv, NEW t \in Tasks, NEW q \in Qids,
           Regenerate(t, q) \/ \E x \in Texts : NextQuestion(t, q, x)
    PROVE  /\ tasks[t].at \in {"verdict", "sent"}
           /\ registry' = registry /\ recent' = recent /\ active' = active /\ conn' = conn
           /\ bubble[q] = "none" /\ bubble' = [bubble EXCEPT ![q] = "open"]
           /\ \E r : /\ tasks' = [tasks EXCEPT ![t] = r]
                     /\ Sound(r) /\ r.at = "detect" /\ r.qid = q
                     /\ r.kind = tasks[t].kind /\ r.main = tasks[t].main /\ r.conn = tasks[t].conn
                     /\ r.noted => tasks[t].noted /\ r.text = tasks[t].text
<1>1. Sound(tasks[t]) /\ tasks[t] \in TaskRecord
  BY SMTT(30) DEF IInv, TasksInv
<1>2. CASE Regenerate(t, q)
  <2> DEFINE r == [tasks[t] EXCEPT !.qid = q, !.stage = tasks[t].stage + 1, !.at = "detect"]
  <2>1. tasks[t].at = "verdict" /\ tasks[t].kind = "verify" /\ tasks[t].stage + 1 \in 0 .. MaxRetries
    BY <1>1, <1>2, CapAssumption DEF Regenerate, At, Sound, TaskRecord
  <2>2. tasks' = [tasks EXCEPT ![t] = r]
    BY <1>2 DEF IInv, TasksInv, Regenerate
  <2>3. /\ r \in TaskRecord /\ r.at = "detect" /\ r.qid = q
        /\ r.kind = tasks[t].kind /\ r.main = tasks[t].main /\ r.conn = tasks[t].conn
        /\ r.noted = tasks[t].noted /\ r.text = tasks[t].text
    BY <1>1, <2>1 DEF TaskRecord
  <2> HIDE DEF r
  <2>4. Sound(r)
    BY <1>1, <2>1, <2>3 DEF Sound
  <2> QED
    BY <1>2, <2>1, <2>2, <2>3, <2>4 DEF Regenerate, NextQid, NewQids
<1>3. ASSUME NEW x \in Texts, NextQuestion(t, q, x)
      PROVE  /\ tasks[t].at = "sent"
             /\ \E r : /\ tasks' = [tasks EXCEPT ![t] = r]
                       /\ Sound(r) /\ r.at = "detect" /\ r.qid = q /\ r.noted = FALSE
                       /\ r.kind = tasks[t].kind /\ r.main = tasks[t].main /\ r.conn = tasks[t].conn
  <2> DEFINE r == [tasks[t] EXCEPT !.qid = q, !.text = x, !.at = "detect", !.noted = FALSE]
  <2>1. tasks[t].at = "sent" /\ tasks[t].kind = "ask"
    BY <1>1, <1>3 DEF NextQuestion, At, Sound
  <2>2. tasks' = [tasks EXCEPT ![t] = r]
    BY <1>3 DEF IInv, TasksInv, NextQuestion
  <2>3. /\ r \in TaskRecord /\ r.at = "detect" /\ r.qid = q /\ r.noted = FALSE /\ r.text = x
        /\ r.kind = tasks[t].kind /\ r.main = tasks[t].main /\ r.conn = tasks[t].conn
    BY <1>1 DEF TaskRecord
  <2> HIDE DEF r
  <2>4. Sound(r)
    BY <1>1, <2>1, <2>3 DEF Sound
  <2> QED
    BY <2>1, <2>2, <2>3, <2>4
<1>4. CASE \E x \in Texts : NextQuestion(t, q, x)
  <2>1. /\ registry' = registry /\ recent' = recent /\ active' = active /\ conn' = conn
        /\ bubble[q] = "none" /\ bubble' = [bubble EXCEPT ![q] = "open"]
    BY <1>4 DEF NextQuestion, NextQid, NewQids
  <2>2. \E r : /\ tasks' = [tasks EXCEPT ![t] = r]
               /\ Sound(r) /\ r.at = "detect" /\ r.qid = q /\ r.noted = FALSE
               /\ r.kind = tasks[t].kind /\ r.main = tasks[t].main /\ r.conn = tasks[t].conn
    BY <1>3, <1>4
  <2> QED
    BY <1>3, <1>4, <2>1, <2>2
<1> QED
  BY <1>2, <1>4

LEMMA NewQuestionOK ==
    ASSUME IInv, NEW t \in Tasks, NEW q \in Qids,
           Regenerate(t, q) \/ \E x \in Texts : NextQuestion(t, q, x)
    PROVE  IInv'
<1>1. /\ tasks[t].at \in {"verdict", "sent"}
      /\ registry' = registry /\ recent' = recent /\ active' = active /\ conn' = conn
      /\ bubble' = [bubble EXCEPT ![q] = "open"]
  BY NewQuestion
<1>2. PICK r : /\ tasks' = [tasks EXCEPT ![t] = r]
               /\ Sound(r) /\ r.at = "detect" /\ r.qid = q
               /\ r.kind = tasks[t].kind /\ r.main = tasks[t].main /\ r.conn = tasks[t].conn
               /\ r.noted => tasks[t].noted /\ r.text = tasks[t].text
  BY NewQuestion
<1>4. \A u \in Tasks : tasks'[u] = IF u = t THEN r ELSE tasks[u]
  BY <1>2 DEF IInv, TasksInv
<1>5. TasksInv' /\ BubblesInv'
  <2>1. bubble'[q] # "none" /\ \A z \in Qids : bubble[z] # "none" => bubble'[z] # "none"
    BY <1>1 DEF IInv, SharedInv
  <2> QED
    BY <1>2, <2>1, OneChanged DEF IInv
<1>6. SharedInv'
  BY <1>1 DEF IInv, SharedInv
<1>7. WindowInv'
  BY <1>1, <1>2, <1>4, WindowKept DEF IInv, WindowInv
<1>8. RegistryInv'
  <2>1. registry' = Unregistered({})
    BY <1>1, NobodyUnregistered DEF IInv
  <2> QED
    BY <1>1, <1>2, <1>4, <2>1, RegistryKept, {} \in SUBSET Tasks DEF Live
<1>9. SlotsCoverAnswers'
  <2>1. Holding' \subseteq Holding
    BY <1>2, <1>4 DEF Holding
  <2> QED
    BY <1>1, <2>1, SlotsKept
<1> QED
  BY <1>5, <1>6, <1>7, <1>8, <1>9 DEF IInv

\* The dedup window of a text passes, for every task that was noted under it.
LEMMA ExpireOK == ASSUME IInv, NEW x \in Texts, Expire(x) PROVE IInv'
<1>1. /\ recent' = recent \ {x} /\ bubble' = bubble /\ registry' = registry
      /\ active' = active /\ conn' = conn
  BY DEF Expire
<1>2. ASSUME NEW u \in Tasks
      PROVE  /\ Sound(tasks'[u]) /\ tasks'[u].at = tasks[u].at
             /\ tasks'[u].kind = tasks[u].kind /\ tasks'[u].qid = tasks[u].qid
             /\ tasks'[u].text = tasks[u].text /\ tasks'[u].conn = tasks[u].conn
             /\ tasks'[u].main = tasks[u].main
             /\ tasks'[u].noted => tasks[u].noted /\ tasks[u].text # x
  <2>1. tasks'[u] = IF tasks[u].text = x THEN [tasks[u] EXCEPT !.noted = FALSE] ELSE tasks[u]
    BY DEF Expire
  <2>2. tasks[u] \in TaskRecord /\ Sound(tasks[u])
    BY DEF IInv, TasksInv
  <2>3. CASE tasks[u].text = x
    BY <2>1, <2>2, <2>3, NotNoted
  <2>4. CASE tasks[u].text # x
    BY <2>1, <2>2, <2>4
  <2> QED
    BY <2>3, <2>4
<1>3. TasksInv' /\ BubblesInv'
  <2>1. tasks' \in [Tasks -> TaskRecord]
    BY <1>2 DEF Expire, Sound
  <2> QED
    BY <1>1, <1>2, <2>1 DEF IInv, TasksInv, BubblesInv, At
<1>4. SharedInv'
  BY <1>1 DEF IInv, SharedInv
<1>5. WindowInv'
  BY <1>1, <1>2, WindowKept DEF IInv, WindowInv
<1>6. RegistryInv'
  <2>1. registry' = Unregistered({})
    BY <1>1, NobodyUnregistered DEF IInv
  <2> QED
    BY <1>1, <1>2, <2>1, RegistryKept, {} \in SUBSET Tasks DEF Live
<1>7. SlotsCoverAnswers'
  <2>1. Holding' \subseteq Holding
    BY <1>2 DEF Holding
  <2> QED
    BY <1>1, <2>1, SlotsKept
<1> QED
  BY <1>3, <1>4, <1>5, <1>6, <1>7 DEF IInv

-----------------------------------------------------------------------------
(* Cancellations.                                                          *)

\* Of the tasks that are cancelled, those that were closing already give their
\* slots back, and no other does.
LEMMA CancelledSlots ==
    ASSUME IInv, NEW gone \in SUBSET Tasks, \A u \in gone : Live(u),
           active' = active - Cardinality({u \in gone : At(u, "close")}),
           \A u \in Tasks \ gone : tasks'[u].kind = tasks[u].kind /\ tasks'[u].at = tasks[u].at,
           \A u \in gone : /\ tasks'[u].kind = CancelledTask(tasks[u]).kind
                           /\ tasks'[u].at = CancelledTask(tasks[u]).at
    PROVE  SlotsCoverAnswers' /\ active' \in Nat /\ Holding' \subseteq Holding
<1> DEFINE C == {u \in gone : At(u, "close")}
<1>1. C \in SUBSET Holding
  <2>1. ASSUME NEW u \in C PROVE u \in Holding
    BY KindOf DEF IInv, At, Holding
  <2> QED
    BY <2>1
<1>2. ASSUME NEW u \in Holding' PROVE u \in Holding \ C
  <2>1. u \in Tasks /\ tasks'[u].kind # "resume"
        /\ tasks'[u].at \in {"prepare", "stream", "finish", "close"}
    BY DEF Holding
  <2>2. CASE u \in gone
    <3>1. Sound(tasks[u]) /\ tasks[u].at \notin {"unborn", "over", "cut"}
      BY <2>2 DEF IInv, TasksInv, Live
    <3>2. /\ CancelledTask(tasks[u]).at \in {"close", "cut", "over"}
          /\ CancelledTask(tasks[u]).at = "close" =>
                tasks[u].at \in {"stream", "finish"} /\ tasks[u].kind # "resume"
      BY <3>1, CancelledOK
    <3>3. tasks[u].at \in {"stream", "finish"} /\ tasks[u].kind # "resume"
      BY <2>1, <2>2, <3>2
    <3> QED
      BY <3>3 DEF Holding, At
  <2>3. CASE u \notin gone
    BY <2>1, <2>3 DEF Holding
  <2> QED
    BY <2>2, <2>3
<1> QED
  BY <1>1, <1>2, SlotsReturned

\* Stop, interruption: the tasks of ts are cancelled wherever they stand.
LEMMA CancelOK ==
    ASSUME IInv, NEW ts \in SUBSET Tasks, Cancel(ts), UNCHANGED <<recent, bubble, conn>>
    PROVE  IInv' /\ Holding' \subseteq Holding
<1> DEFINE gone == {u \in ts : Live(u)}
           dead == {u \in gone : CancelledTask(tasks[u]).at # "close"}
<1>1. /\ tasks' = [u \in Tasks |-> IF u \in gone THEN CancelledTask(tasks[u]) ELSE tasks[u]]
      /\ registry' = Unregistered(dead)
      /\ active' = active - Cardinality({u \in gone : At(u, "close")})
      /\ recent' = recent /\ bubble' = bubble /\ conn' = conn
  BY DEF Cancel
<1>2. ASSUME NEW u \in gone
      PROVE  LET c == CancelledTask(tasks[u])
             IN  /\ Sound(c) /\ c.at \in {"close", "cut", "over"} /\ c.main = tasks[u].main
                 /\ c.kind = tasks[u].kind /\ c.qid = tasks[u].qid /\ c.text = tasks[u].text
                 /\ c.noted = tasks[u].noted /\ c.conn = tasks[u].conn
  BY CancelledOK DEF IInv, TasksInv, Live
<1>3. gone \in SUBSET Tasks /\ dead \in SUBSET Tasks
  OBVIOUS
<1> HIDE DEF gone
<1>4. ASSUME NEW u \in Tasks
      PROVE  /\ Sound(tasks'[u]) /\ tasks'[u].qid = tasks[u].qid
             /\ tasks'[u].text = tasks[u].text /\ tasks'[u].noted = tasks[u].noted
             /\ tasks'[u].kind = tasks[u].kind /\ tasks'[u].conn = tasks[u].conn
             /\ tasks'[u].main = tasks[u].main
             /\ tasks[u].at = "unborn" => tasks'[u].at = "unborn"
             /\ Live(u) /\ u \notin dead => tasks'[u].at \notin {"unborn", "over", "cut"}
  <2>1. CASE u \in gone
    <3>1. tasks'[u] = CancelledTask(tasks[u]) /\ Live(u)
      BY <1>1, <2>1 DEF gone
    <3> QED
      BY <1>2, <2>1, <3>1 DEF Live
  <2>2. CASE u \notin gone
    <3>1. tasks'[u] = tasks[u]
      BY <1>1, <2>2
    <3> QED
      BY <3>1 DEF IInv, TasksInv, Live
  <2> QED
    BY <2>1, <2>2
<1> HIDE DEF dead
<1>5. TasksInv' /\ BubblesInv'
  <2>1. tasks' \in [Tasks -> TaskRecord]
    BY <1>1, <1>4 DEF Sound
  <2>2. BubblesInv'
    BY <1>1, <1>4 DEF IInv, BubblesInv, At
  <2> QED
    BY <1>4, <2>1, <2>2 DEF TasksInv
<1>6. WindowInv'
  BY <1>1, <1>4, WindowKept DEF IInv, WindowInv
<1>7. RegistryInv'
  BY <1>1, <1>3, <1>4, RegistryKept DEF Live
<1>8. SlotsCoverAnswers' /\ active' \in Nat /\ Holding' \subseteq Holding
  <2>1. \A u \in gone : Live(u)
    BY DEF gone
  <2>2. /\ \A u \in Tasks \ gone : tasks'[u].kind = tasks[u].kind /\ tasks'[u].at = tasks[u].at
        /\ \A u \in gone : /\ tasks'[u].kind = CancelledTask(tasks[u]).kind
                           /\ tasks'[u].at = CancelledTask(tasks[u]).at
    BY <1>1, <1>3
  <2> QED
    BY <1>1, <1>3, <2>1, <2>2, CancelledSlots
<1>9. SharedInv'
  BY <1>1, <1>8 DEF IInv, SharedInv
<1> QED
  BY <1>5, <1>6, <1>7, <1>8, <1>9 DEF IInv

\* The socket drops and comes back: nobody is registered, and nobody noted.
LEMMA ReconnectOK == ASSUME IInv, Reconnect PROVE IInv' /\ Holding' \subseteq Holding
<1> DEFINE gone == {u \in Tasks : Live(u) /\ tasks[u].conn = conn}
           next(u) == IF u \in gone THEN CancelledTask(tasks[u]) ELSE tasks[u]
<1>1. /\ conn < MaxConns /\ conn' = conn + 1
      /\ tasks' = [u \in Tasks |-> [next(u) EXCEPT !.noted = FALSE]]
      /\ active' = active - Cardinality({u \in gone : At(u, "close")})
      /\ registry' = [q \in Qids |-> None] /\ recent' = {} /\ bubble' = bubble
  BY DEF Reconnect
<1>2. ASSUME NEW u \in Tasks
      PROVE  Sound(next(u)) /\ next(u).qid = tasks[u].qid
             /\ (tasks[u].at = "unborn" => next(u).at = "unborn")
  BY CancelledOK DEF IInv, TasksInv, Live
<1>3. ASSUME NEW u \in Tasks
      PROVE  /\ Sound(tasks'[u]) /\ tasks'[u].qid = tasks[u].qid /\ tasks'[u].noted = FALSE
             /\ tasks'[u].kind = next(u).kind /\ tasks'[u].at = next(u).at
             /\ tasks[u].at = "unborn" => tasks'[u].at = "unborn"
  <2> HIDE DEF next
  <2>1. tasks'[u] = [next(u) EXCEPT !.noted = FALSE]
    BY <1>1
  <2>2. Sound(next(u)) /\ next(u) \in TaskRecord /\ next(u).qid = tasks[u].qid
        /\ (tasks[u].at = "unborn" => next(u).at = "unborn")
    BY <1>2 DEF Sound
  <2> QED
    BY <2>1, <2>2, NotNoted
<1>4. TasksInv' /\ BubblesInv'
  <2> HIDE DEF next
  <2>1. tasks' \in [Tasks -> TaskRecord]
    BY <1>1, <1>3 DEF Sound
  <2>2. BubblesInv'
    BY <1>1, <1>3 DEF IInv, BubblesInv, At
  <2> QED
    BY <1>3, <2>1, <2>2 DEF TasksInv
<1>5. WindowInv'
  BY <1>3 DEF WindowInv
<1>6. RegistryInv'
  BY <1>1 DEF RegistryInv
<1>7. SlotsCoverAnswers' /\ active' \in Nat /\ Holding' \subseteq Holding
  <2>1. gone \in SUBSET Tasks /\ \A u \in gone : Live(u)
    OBVIOUS
  <2>2. /\ \A u \in Tasks \ gone : tasks'[u].kind = tasks[u].kind /\ tasks'[u].at = tasks[u].at
        /\ \A u \in gone : /\ tasks'[u].kind = CancelledTask(tasks[u]).kind
                           /\ tasks'[u].at = CancelledTask(tasks[u]).at
    BY <1>3
  <2> HIDE DEF gone
  <2> QED
    BY <1>1, <2>1, <2>2, CancelledSlots
<1>8. SharedInv'
  BY <1>1, <1>7, CapAssumption DEF IInv, SharedInv
<1> QED
  BY <1>4, <1>5, <1>6, <1>7, <1>8 DEF IInv

LEMMA StepOK == ASSUME IInv, [Next]_vars PROVE IInv'
<1>1. ASSUME NEW t \in Tasks, Step(t) PROVE IInv'
  <2>1. \/ Ending(t) \/ Start(t) \/ Done(t) \/ Accept(t) \/ Finish(t) \/ Admit(t)
        \/ \E q \in Qids : Regenerate(t, q) \/ \E x \in Texts : NextQuestion(t, q, x)
    BY <1>1 DEF Step, Detected, Ending
  <2> QED
    BY <2>1, EndingOK, MovingOK, FinishOK, AdmitOK, NewQuestionOK
<1>2. ASSUME NEW t \in Tasks, NEW q \in Qids, Resume(t, q) \/ \E x \in Texts : Ask(t, q, x)
      PROVE  IInv'
  BY <1>2, BirthOK
<1>3. ASSUME NEW q \in Qids, Stop(q) PROVE IInv'
  <2>1. {registry[q]} \in SUBSET Tasks
    BY <1>3 DEF IInv, RegistryInv, Stop
  <2> QED
    BY <1>3, <2>1, CancelOK DEF Stop
<1>4. CASE StopAll
  BY <1>4, CancelOK, ({registry[q] : q \in Qids} \cap Tasks) \in SUBSET Tasks DEF StopAll
<1>5. CASE Interrupt
  BY <1>5, CancelOK, {t \in Tasks : tasks[t].conn = conn} \in SUBSET Tasks DEF Interrupt
<1>6. CASE Reconnect
  BY <1>6, ReconnectOK
<1>7. ASSUME NEW x \in Texts, Expire(x) PROVE IInv'
  BY <1>7, ExpireOK
<1>8. CASE UNCHANGED vars
  BY <1>8 DEF vars, IInv, TasksInv, SharedInv, BubblesInv, WindowInv, RegistryInv,
               SlotsCoverAnswers, Holding, Live, Registered, At
<1> QED
  BY <1>1, <1>2, <1>3, <1>4, <1>5, <1>6, <1>7, <1>8 DEF Next

-----------------------------------------------------------------------------
(* What holds of every session.                                            *)

\* The tasks, the registry, the window, the budget and the bubbles agree after
\* every step of every session (routes_ws.py, bus.py, dedup.py, budget.py).
THEOREM Invariant == Spec => []IInv
<1>1. IInv /\ [Next]_vars => IInv'
  BY StepOK
<1> QED
  BY InitOK, <1>1, PTL DEF Spec

\* Every variable keeps its type.
THEOREM TypeCorrect == Spec => []TypeOK
<1>1. IInv => TypeOK
  BY DEF IInv, TasksInv, SharedInv, RegistryInv, TypeOK
<1> QED
  BY Invariant, <1>1, PTL

\* However answers are cancelled, fail, are generated again or lose their
\* connection, the budget counts every one that is generated, and stays within
\* its cap (budget.py:37-47).
THEOREM SlotsCover == Spec => []SlotsCoverAnswers
<1>1. IInv => SlotsCoverAnswers
  BY DEF IInv
<1> QED
  BY Invariant, <1>1, PTL

\* A question text has one answer under way inside the dedup window
\* (routes_ws.py:1151-1221).
THEOREM OneAnswer == Spec => []OneAnswerInWindow
<1>1. IInv => OneAnswerInWindow
  BY DEF IInv, WindowInv, OneAnswerInWindow
<1> QED
  BY Invariant, <1>1, PTL

\* Stop finds a running task that was started for the question, or none, though
\* a task goes on to further questions of its utterance under ids that are not
\* registered (bus.py:106-122, routes_ws.py:1105-1125).
THEOREM RegistryLive == Spec => []RegistryIsLive
<1>1. IInv => RegistryIsLive
  BY DEF IInv, RegistryInv, RegistryIsLive
<1> QED
  BY Invariant, <1>1, PTL

-----------------------------------------------------------------------------
(* The promise of AnswerDesk.                                              *)

\* A bubble that exists and gets its last frame, open or not, and nobody new in
\* a slot: to the desk the end of the bubble, or somebody leaving.
LEMMA EndIsEnd ==
    ASSUME SharedInv, NEW q \in Qids, bubble[q] # "none", bubble' \in {bubble, Ended(q)},
           Holding' \subseteq Holding
    PROVE  Desk!Next
<1>1. CASE bubble' = bubble
  BY <1>1 DEF Desk!Next, Desk!Leave
<1>2. CASE bubble' = Ended(q)
  BY <1>2 DEF Desk!Next, Desk!End, Ended
<1> QED
  BY <1>1, <1>2

LEMMA AdmitIsAdmit == ASSUME IInv, NEW t \in Tasks, Admit(t) PROVE Desk!Next
<1>1. \A u \in Tasks \ {t} : tasks'[u] = tasks[u]
  BY DEF IInv, TasksInv, Admit
<1>2. tasks[t].at = "detect" /\ tasks[t].kind # "resume" /\ tasks[t] \in TaskRecord
      /\ active < Cap /\ bubble' = bubble
  BY KindOf DEF Admit, At, CanStart, IInv, TasksInv
<1>3. tasks'[t].at = "prepare" /\ tasks'[t].kind = tasks[t].kind
  BY <1>2 DEF Admit, TaskRecord, IInv, TasksInv
<1>4. Holding' = Holding \cup {t} /\ t \notin Holding
  BY <1>1, <1>2, <1>3 DEF Holding
<1>5. Cardinality(Holding) < Cap
  BY <1>2, HoldingFinite, CapAssumption DEF IInv, SharedInv, SlotsCoverAnswers
<1>6. Desk!Cardinality(Holding) = Cardinality(Holding)
  BY DEF Desk!Cardinality, Cardinality
<1> QED
  BY <1>2, <1>4, <1>5, <1>6 DEF Desk!Next, Desk!Admit

LEMMA EndingIsEnd == ASSUME IInv, NEW t \in Tasks, Ending(t) PROVE Desk!Next
<1>1. /\ tasks[t].at \in {"detect", "prepare", "stream", "close", "sent"}
      /\ bubble' \in {bubble, Ended(tasks[t].qid)}
  BY EndingShape
<1>2. PICK p \in {"sent", "over"} : tasks' = Moved(t, p)
  BY EndingShape
<1>3. tasks[t].qid \in Qids /\ bubble[tasks[t].qid] # "none"
  BY <1>1 DEF IInv, TasksInv, Sound, BubblesInv, At
<1>4. Holding' \subseteq Holding
  BY <1>2, MovedHolding DEF IInv
<1> QED
  BY <1>1, <1>3, <1>4, EndIsEnd DEF IInv

LEMMA MovingIsEnd ==
    ASSUME IInv, NEW t \in Tasks, Start(t) \/ Done(t) \/ Accept(t)
    PROVE  Desk!Next
<1>1. PICK p \in {"stream", "finish", "over"} :
        tasks' = Moved(t, p) /\ (p # "over" => t \in Holding)
  BY KindOf DEF Start, Done, Accept, Holding, At, IInv
<1>2. tasks[t].at # "unborn" /\ bubble' \in {bubble, Ended(tasks[t].qid)}
  BY DEF Start, Done, Accept, At
<1>3. tasks[t].qid \in Qids /\ bubble[tasks[t].qid] # "none"
  BY <1>2 DEF IInv, TasksInv, Sound, BubblesInv, At
<1>4. Holding' \subseteq Holding
  BY <1>1, MovedHolding DEF IInv
<1> QED
  BY <1>2, <1>3, <1>4, EndIsEnd DEF IInv

LEMMA FinishIsLeave == ASSUME IInv, NEW t \in Tasks, Finish(t) PROVE Desk!Next
<1>1. bubble' = bubble
  BY DEF Finish
<1>2. ASSUME NEW u \in Holding' PROVE u \in Holding
  <2>1. u \in Tasks /\ tasks'[u].at # "verdict" /\ tasks'[u].at \notin {"sent", "over"}
    BY DEF Holding
  <2>2. tasks[t] \in TaskRecord
    BY DEF IInv, TasksInv
  <2>3. tasks'[u] = tasks[u]
    <3>1. CASE tasks' = Moved(t, After(t))
      BY <3>1, <2>1, <2>2 DEF Moved, After, IInv, TasksInv, TaskRecord
    <3>2. ASSUME NEW v \in Unborn,
                 tasks' = [Moved(t, After(t)) EXCEPT ![v] =
                             [tasks[t] EXCEPT !.kind = "verify", !.at = "verdict", !.noted = FALSE]]
          PROVE  tasks'[u] = tasks[u]
      <4>1. u # v
        BY <3>2, <2>1, <2>2 DEF Moved, After, IInv, TasksInv, TaskRecord, Unborn
      <4> QED
        BY <4>1, <3>2, <2>1, <2>2 DEF Moved, After, IInv, TasksInv, TaskRecord, Unborn
    <3> QED
      BY <3>1, <3>2 DEF Finish
  <2> QED
    BY <2>1, <2>3 DEF Holding
<1> QED
  BY <1>1, <1>2 DEF Desk!Next, Desk!Leave

\* A bubble is opened, by a task that holds no slot for it.
LEMMA OpenIsOpen ==
    ASSUME IInv, NEW t \in Tasks, NEW q \in Qids,
           \/ Regenerate(t, q) \/ Resume(t, q)
           \/ \E x \in Texts : Ask(t, q, x) \/ NextQuestion(t, q, x)
    PROVE  Desk!Next
<1>1. bubble[q] # "open" /\ bubble' = [bubble EXCEPT ![q] = "open"]
  BY DEF Regenerate, NextQuestion, Resume, Ask, NextQid, NewQids
<1>2. /\ tasks[t].at \in {"unborn", "verdict", "sent"}
      /\ \A u \in Tasks \ {t} : tasks'[u] = tasks[u]
      /\ tasks'[t].kind = "resume" \/ tasks'[t].at = "detect"
  <2>1. CASE Regenerate(t, q) \/ \E x \in Texts : NextQuestion(t, q, x)
    <3>1. tasks[t].at \in {"verdict", "sent"}
      BY <2>1, NewQuestion
    <3>2. PICK r : tasks' = [tasks EXCEPT ![t] = r] /\ r.at = "detect"
      BY <2>1, NewQuestion
    <3> QED
      BY <3>1, <3>2 DEF IInv, TasksInv
  <2>2. CASE Resume(t, q) \/ \E x \in Texts : Ask(t, q, x)
    BY <2>2 DEF Resume, Ask, NextTask, Unborn, IInv, TasksInv
  <2> QED
    BY <2>1, <2>2
<1>4. Holding' = Holding
  BY <1>2 DEF Holding
<1> QED
  BY <1>1, <1>4 DEF Desk!Next, Desk!Open

\* Cancellations and expiry give slots back, if they change anything.
LEMMA CancellingIsLeave ==
    ASSUME IInv,
           \/ \E q \in Qids : Stop(q)
           \/ StopAll \/ Interrupt \/ Reconnect
           \/ \E x \in Texts : Expire(x)
    PROVE  Desk!Next
<1>1. bubble' = bubble
  BY DEF Stop, StopAll, Interrupt, Reconnect, Expire
<1>2. Holding' \subseteq Holding
  <2>1. ASSUME NEW q \in Qids, Stop(q) PROVE Holding' \subseteq Holding
    BY <2>1, CancelOK, {registry[q]} \in SUBSET Tasks DEF IInv, RegistryInv, Stop
  <2>2. CASE StopAll
    BY <2>2, CancelOK, ({registry[q] : q \in Qids} \cap Tasks) \in SUBSET Tasks DEF StopAll
  <2>3. CASE Interrupt
    BY <2>3, CancelOK, {t \in Tasks : tasks[t].conn = conn} \in SUBSET Tasks DEF Interrupt
  <2>4. CASE Reconnect
    BY <2>4, ReconnectOK
  <2>5. ASSUME NEW x \in Texts, Expire(x) PROVE Holding' \subseteq Holding
    <3>1. \A u \in Tasks : /\ tasks[u] \in TaskRecord
                           /\ tasks'[u] \in {tasks[u], [tasks[u] EXCEPT !.noted = FALSE]}
      BY <2>5 DEF Expire, IInv, TasksInv
    <3>2. \A u \in Tasks : tasks'[u].at = tasks[u].at /\ tasks'[u].kind = tasks[u].kind
      BY <3>1 DEF TaskRecord
    <3> QED
      BY <3>2 DEF Holding
  <2> QED
    BY <2>1, <2>2, <2>3, <2>4, <2>5
<1> QED
  BY <1>1, <1>2 DEF Desk!Next, Desk!Leave

\* The session keeps the promise of AnswerDesk: an answer is generated only by
\* a task admitted on its own under the cap, no bubble is opened while it is
\* open, and none ends that was never opened (a second terminal frame, which
\* the code can send, is one more End of the desk).
THEOREM Refinement == Spec => Implements
<1>1. Init => Desk!Init
  <2>1. ASSUME Init PROVE Holding = {}
    BY <2>1 DEF Init, Fresh, Holding
  <2> QED
    BY <2>1 DEF Init, Desk!Init
<1>2. IInv /\ [Next]_vars => [Desk!Next]_<<Holding, bubble>>
  <2> SUFFICES ASSUME IInv, [Next]_vars PROVE [Desk!Next]_<<Holding, bubble>>
    OBVIOUS
  <2>1. ASSUME NEW t \in Tasks, Step(t) PROVE Desk!Next
    <3>1. \/ Ending(t) \/ Start(t) \/ Done(t) \/ Accept(t) \/ Finish(t) \/ Admit(t)
          \/ \E q \in Qids : Regenerate(t, q) \/ \E x \in Texts : NextQuestion(t, q, x)
      BY <2>1 DEF Step, Detected, Ending
    <3> QED
      BY <3>1, EndingIsEnd, MovingIsEnd, FinishIsLeave, AdmitIsAdmit, OpenIsOpen
  <2>2. ASSUME NEW t \in Tasks, NEW q \in Qids, Resume(t, q) \/ \E x \in Texts : Ask(t, q, x)
        PROVE  Desk!Next
    BY <2>2, OpenIsOpen
  <2>3. CASE UNCHANGED vars
    BY <2>3 DEF vars, Holding
  <2> QED
    BY <2>1, <2>2, <2>3, CancellingIsLeave DEF Next
<1> QED
  BY Invariant, <1>1, <1>2, PTL DEF Spec, Implements, Desk!Spec
=============================================================================
