----------------------------- MODULE LiveAnswers -----------------------------
(***************************************************************************)
(* The answer tasks of a live interview session (app/api/routes_ws.py):    *)
(* each committed question is detected, checked against the recent ones,   *)
(* admitted by the session's budget, streamed, and verified, a weak answer *)
(* being generated again under a new question id; the task of an utterance *)
(* with several questions answers them in turn.  Around them: the          *)
(* registry that Stop uses (app/live/bus.py), the dedup window             *)
(* (app/live/dedup.py), the budget (app/live/budget.py), resume of an      *)
(* interrupted answer in its old bubble, interruption, and a socket that   *)
(* drops and comes back to the same session.                               *)
(*                                                                         *)
(* One event loop: an action is the code between two awaits, and a         *)
(* cancellation takes effect at the await the task stands at.              *)
(* Left out: answers prepared before the interview, which are sent whole   *)
(* (routes_ws.py:1177-1209), and guesses from partial transcripts, which   *)
(* skip dedup and are the matter of LiveTurns.                             *)
(***************************************************************************)
EXTENDS Integers, FiniteSets

CONSTANTS
    Tasks,          \* bound: asyncio tasks created
    Qids,           \* question ids
    Texts,          \* question texts, up to what dedup takes for the same
    Cap,            \* max_concurrent_answers
    MaxRetries,     \* answer_max_retries
    MaxConns,       \* bound: connections of the session
    MayBeDown,      \* can the database be not ready?
    None

ASSUME CapAssumption == Cap \in Nat \ {0} /\ MaxRetries \in Nat /\ MaxConns \in Nat \ {0}
ASSUME TasksAssumption == IsFiniteSet(Tasks)
ASSUME NoneAssumption == None \notin Tasks /\ None \notin Qids
ASSUME DownAssumption == MayBeDown \in BOOLEAN

VARIABLES
    tasks,          \* tasks[t]: what task t does, and where it stands
    registry,       \* LiveEventBus._answer_tasks: question id -> task
    recent,         \* texts in the dedup window
    active,         \* SessionBudget.active
    bubble,         \* bubble[q]: what the client shows of question q
    conn            \* which connection of the session is open

vars == <<tasks, registry, recent, active, bubble, conn>>

-----------------------------------------------------------------------------
\* main is the question id the task was registered under, qid the one it is
\* working on.
Fresh == [kind |-> "none", main |-> None, qid |-> None, text |-> None, stage |-> 0,
          at |-> "unborn", noted |-> FALSE, conn |-> 0]
Unborn == {t \in Tasks : tasks[t].at = "unborn"}
Live(t) == tasks[t].at \notin {"unborn", "over", "cut"}
At(t, place) == tasks[t].at = place
NewQids == {q \in Qids : bubble[q] = "none"}

\* Nothing looks inside a task or a question id: the next one in some fixed
\* order is taken.
NextTask(t) == t \in Unborn /\ t = CHOOSE u \in Unborn : TRUE
NextQid(q) == q \in NewQids /\ q = CHOOSE r \in NewQids : TRUE

\* A budget slot is taken from admission to the finally clause.
Holding == {t \in Tasks : tasks[t].kind # "resume" /\
                          tasks[t].at \in {"prepare", "stream", "finish", "close"}}

\* register_answer_task: when a task ends its question id leaves the registry
\* of its connection, whichever task is registered there by then.
Registered(t) == tasks[t].kind # "verify" /\ tasks[t].conn = conn
\* Mutant: ended tasks stay registered.
StayRegistered(ts) == registry
Unregistered(ts) ==
    [q \in Qids |-> IF \E t \in ts : Registered(t) /\ tasks[t].main = q THEN None ELSE registry[q]]

Ended(q) == [bubble EXCEPT ![q] = "ended"]
Moved(t, place) == [tasks EXCEPT ![t].at = place]

\* Where a cancelled task goes: a generation under way sends its terminal frame
\* first, one that has sent its frame is over, one that is already closing
\* stops, all others end without a frame.
\* Mutant: a cancelled task that calls itself cancelled.
AfterCancelUnknown(place) == "cancelled"
AfterCancel(place) ==
    CASE place \in {"stream", "finish"} -> "close"
      [] place = "sent" -> "over"
      [] OTHER -> "cut"
CancelledTask(r) ==
    IF r.kind = "resume" THEN [r EXCEPT !.at = "cut"]
    ELSE [r EXCEPT !.at = AfterCancel(r.at)]
Cancel(ts) ==
    LET gone == {t \in ts : Live(t)}
        dead == {t \in gone : CancelledTask(tasks[t]).at # "close"}
    IN  /\ tasks' = [t \in Tasks |-> IF t \in gone THEN CancelledTask(tasks[t]) ELSE tasks[t]]
        /\ registry' = Unregistered(dead)
        /\ active' = active - Cardinality({t \in gone : At(t, "close")})

-----------------------------------------------------------------------------
(* From a committed question to its answer.                                *)

\* _spawn_answer, or a forced answer: the transcript frame opens the bubble.
Ask(t, q, x) ==
    /\ NextTask(t) /\ NextQid(q)
    /\ tasks' = [tasks EXCEPT ![t] = [kind |-> "ask", main |-> q, qid |-> q, text |-> x,
                            stage |-> 0, at |-> "detect", noted |-> FALSE, conn |-> conn]]
    /\ registry' = [registry EXCEPT ![q] = t]
    /\ bubble' = [bubble EXCEPT ![q] = "open"]
    /\ UNCHANGED <<recent, active, conn>>

\* The task ends with a frame for the client.
EndsWith(t) ==
    /\ tasks' = Moved(t, "over")
    /\ registry' = Unregistered({t})
    /\ bubble' = Ended(tasks[t].qid)

\* Not a question, an echo, or addressed to somebody else.
NotAnswered(t) ==
    /\ At(t, "detect") /\ tasks[t].kind = "ask" /\ tasks[t].qid = tasks[t].main
    /\ EndsWith(t)
    /\ UNCHANGED <<recent, active, conn>>

\* The end of _generate_answer: a verifier's task is over, that of an utterance
\* may have another question to answer.
After(t) == IF tasks[t].kind = "ask" THEN "sent" ELSE "over"
Dead(t) == IF tasks[t].kind = "ask" THEN {} ELSE {t}
AnsweredWith(t) ==
    /\ tasks' = Moved(t, After(t))
    /\ registry' = Unregistered(Dead(t))
    /\ bubble' = Ended(tasks[t].qid)

LastQuestion(t) ==
    /\ At(t, "sent")
    /\ tasks' = Moved(t, "over")
    /\ registry' = Unregistered({t})
    /\ UNCHANGED <<recent, active, bubble, conn>>

\* The next question of the utterance: a bubble of its own, under a question
\* id that nobody registers.
NextQuestion(t, q, x) ==
    /\ At(t, "sent") /\ NextQid(q)
    /\ tasks' = [tasks EXCEPT ![t].qid = q, ![t].text = x, ![t].at = "detect", ![t].noted = FALSE]
    /\ bubble' = [bubble EXCEPT ![q] = "open"]
    /\ UNCHANGED <<registry, recent, active, conn>>

\* The head of _generate_answer: the duplicate check, the note in the window
\* and the admission run without an await between them.
Retry(t) == tasks[t].stage > 0
Duplicate(t) == ~Retry(t) /\ tasks[t].text \in recent
SkipDuplicate(t) ==
    /\ At(t, "detect") /\ Duplicate(t)
    /\ AnsweredWith(t)
    /\ UNCHANGED <<recent, active, conn>>

\* Mutant: the question is not noted before the answer is admitted.
NotedTooLate(t) == recent
Noted(t) == IF Retry(t) THEN recent ELSE recent \cup {tasks[t].text}
\* Mutants: an off-by-one at the cap; no cap.
CanStartOneMore == active <= Cap
CanAlwaysStart == TRUE
CanStart == active < Cap
Shed(t) ==
    /\ At(t, "detect") /\ ~Duplicate(t) /\ ~CanStart
    /\ recent' = Noted(t)
    /\ AnsweredWith(t)
    /\ UNCHANGED <<active, conn>>

Admit(t) ==
    /\ At(t, "detect") /\ ~Duplicate(t) /\ CanStart
    /\ recent' = Noted(t)
    /\ active' = active + 1
    /\ tasks' = [tasks EXCEPT ![t].at = "prepare", ![t].noted = ~Retry(t)]
    /\ UNCHANGED <<registry, bubble, conn>>

\* The directives are ready: an error frame when there is no database (the slot
\* is not given back: the return is before the try), else generation starts.
NoDatabase(t) ==
    /\ MayBeDown /\ At(t, "prepare")
    /\ AnsweredWith(t)
    /\ UNCHANGED <<recent, active, conn>>

Start(t) ==
    /\ At(t, "prepare")
    /\ tasks' = Moved(t, "stream")
    /\ UNCHANGED <<registry, recent, active, bubble, conn>>

Release == active' = IF active > 0 THEN active - 1 ELSE 0

\* The stream broke: an error frame, and the finally clause.
Fail(t) ==
    /\ At(t, "stream") /\ tasks[t].kind # "resume"
    /\ AnsweredWith(t) /\ Release
    /\ UNCHANGED <<recent, conn>>

\* The stream ended or its time budget did: persisted, then the done frame.
Done(t) ==
    /\ At(t, "stream") /\ tasks[t].kind # "resume"
    /\ tasks' = Moved(t, "finish")
    /\ bubble' = Ended(tasks[t].qid)
    /\ UNCHANGED <<registry, recent, active, conn>>

\* After the done frame: a verifier is spawned unless this was the last retry.
Verifies(t) == tasks[t].stage < MaxRetries
Finish(t) ==
    /\ At(t, "finish")
    /\ \/ tasks' = Moved(t, After(t))
       \/ \E v \in Unborn :
             /\ NextTask(v) /\ Verifies(t)
             /\ tasks' = [Moved(t, After(t)) EXCEPT ![v] =
                             [tasks[t] EXCEPT !.kind = "verify", !.at = "verdict", !.noted = FALSE]]
    /\ registry' = Unregistered(Dead(t))
    /\ Release
    /\ UNCHANGED <<recent, bubble, conn>>

\* Cancelled while generating: the terminal frame, shielded, and the finally.
\* If the done frame of the same answer was on its way, this is the second.
\* Mutant: no terminal frame when the answer is cancelled.
CloseSilently(t) ==
    /\ At(t, "close")
    /\ tasks' = Moved(t, "over") /\ registry' = Unregistered({t}) /\ Release
    /\ UNCHANGED <<recent, bubble, conn>>
Close(t) ==
    /\ At(t, "close")
    /\ EndsWith(t) /\ Release
    /\ UNCHANGED <<recent, conn>>

-----------------------------------------------------------------------------
(* Verification and regeneration.                                          *)

Accept(t) ==
    /\ At(t, "verdict")
    /\ tasks' = Moved(t, "over")
    /\ UNCHANGED <<registry, recent, active, bubble, conn>>

\* A weak answer is generated again, by the verifier's own task, under a new
\* question id that nobody registers.
Regenerate(t, q) ==
    /\ At(t, "verdict") /\ tasks[t].stage + 1 <= MaxRetries /\ NextQid(q)
    /\ tasks' = [tasks EXCEPT ![t].qid = q, ![t].stage = @ + 1, ![t].at = "detect"]
    /\ bubble' = [bubble EXCEPT ![q] = "open"]
    /\ UNCHANGED <<registry, recent, active, conn>>

-----------------------------------------------------------------------------
(* The client.                                                             *)

\* cancel_answer with a question id, or a continuation of that question.
Stop(q) ==
    /\ registry[q] # None
    /\ Cancel({registry[q]})
    /\ UNCHANGED <<recent, bubble, conn>>

\* cancel_answer without one: every registered task.
StopAll ==
    /\ Cancel({registry[q] : q \in Qids} \cap Tasks)
    /\ UNCHANGED <<recent, bubble, conn>>

\* A correction: every answer task of the connection, verifiers included.
Interrupt ==
    /\ Cancel({t \in Tasks : tasks[t].conn = conn})
    /\ UNCHANGED <<recent, bubble, conn>>

\* continue_answer, retry_answer: a new task in an ended bubble.
Resume(t, q) ==
    /\ NextTask(t) /\ bubble[q] = "ended"
    /\ tasks' = [tasks EXCEPT ![t] = [kind |-> "resume", main |-> q, qid |-> q, text |-> None,
                            stage |-> 0, at |-> "stream", noted |-> FALSE, conn |-> conn]]
    /\ registry' = [registry EXCEPT ![q] = t]
    /\ bubble' = [bubble EXCEPT ![q] = "open"]
    /\ UNCHANGED <<recent, active, conn>>

\* Its stream ends, with a done frame whatever happened.
Resumed(t) ==
    /\ tasks[t].kind = "resume" /\ At(t, "stream")
    /\ EndsWith(t)
    /\ UNCHANGED <<recent, active, conn>>

\* The dedup window of a text passes.
Expire(x) ==
    /\ x \in recent
    /\ recent' = recent \ {x}
    /\ tasks' = [t \in Tasks |-> IF tasks[t].text = x THEN [tasks[t] EXCEPT !.noted = FALSE] ELSE tasks[t]]
    /\ UNCHANGED <<registry, active, bubble, conn>>

\* The socket drops, its tasks are cancelled, and the client comes back to the
\* same session (session_resume): a new bus and window, the same budget.
Reconnect ==
    /\ conn < MaxConns /\ conn' = conn + 1
    /\ LET gone == {t \in Tasks : Live(t) /\ tasks[t].conn = conn}
       IN  /\ tasks' = [t \in Tasks |-> [IF t \in gone THEN CancelledTask(tasks[t]) ELSE tasks[t]
                                         EXCEPT !.noted = FALSE]]
           /\ active' = active - Cardinality({t \in gone : At(t, "close")})
    /\ registry' = [q \in Qids |-> None] /\ recent' = {}
    /\ UNCHANGED bubble

-----------------------------------------------------------------------------
Init ==
    /\ tasks = [t \in Tasks |-> Fresh]
    /\ registry = [q \in Qids |-> None]
    /\ recent = {} /\ active = 0 /\ conn = 1
    /\ bubble = [q \in Qids |-> "none"]

Detected(t) == NotAnswered(t) \/ SkipDuplicate(t) \/ Shed(t) \/ Admit(t)
Step(t) ==
    \/ Detected(t) \/ NoDatabase(t) \/ Start(t) \/ Fail(t) \/ Done(t) \/ Finish(t)
    \/ Close(t) \/ LastQuestion(t) \/ Accept(t) \/ Resumed(t)
    \/ \E q \in Qids : Regenerate(t, q) \/ \E x \in Texts : NextQuestion(t, q, x)
Next ==
    \/ \E t \in Tasks : Step(t)
    \/ \E t \in Tasks, q \in Qids : Resume(t, q) \/ \E x \in Texts : Ask(t, q, x)
    \/ \E q \in Qids : Stop(q)
    \/ StopAll \/ Interrupt \/ Reconnect
    \/ \E x \in Texts : Expire(x)

Spec == Init /\ [][Next]_vars
\* Detection, the stream (answer_timeout_s) and the verifier all end.
FairSpec == Spec /\ \A t \in Tasks : WF_vars(Step(t))

-----------------------------------------------------------------------------
TaskRecord == [kind : {"none", "ask", "verify", "resume"},
               main : Qids \cup {None}, qid : Qids \cup {None},
               text : Texts \cup {None}, stage : 0 .. MaxRetries,
               at : {"unborn", "detect", "prepare", "stream", "finish", "close", "sent",
                     "verdict", "over", "cut"},
               noted : BOOLEAN, conn : 0 .. MaxConns]
TypeOK ==
    /\ tasks \in [Tasks -> TaskRecord]
    /\ registry \in [Qids -> Tasks \cup {None}]
    /\ recent \subseteq Texts /\ active \in Nat
    /\ bubble \in [Qids -> {"none", "open", "ended"}]
    /\ conn \in 1 .. MaxConns

\* The budget never counts fewer answers than are being generated, and never
\* more than its cap, however cancellations, failures, regenerations and a
\* reconnection interleave (budget.py:37-47, routes_ws.py:1225-2211).
SlotsCoverAnswers == Cardinality(Holding) <= active /\ active <= Cap

\* Inside the dedup window a question text is being answered by one task at
\* most, whatever was detected meanwhile (routes_ws.py:1151-1221).
OneAnswerInWindow ==
    \A t, u \in Tasks :
        (t # u /\ tasks[t].noted /\ tasks[u].noted /\ Live(t) /\ Live(u)) =>
            tasks[t].text # tasks[u].text

\* What Stop finds in the registry still runs, and was started for that
\* question: it answers it, or a later one of the same utterance, never one of
\* another utterance (bus.py:83-131, routes_ws.py:1105-1125).
RegistryIsLive ==
    \A q \in Qids : registry[q] # None => Live(registry[q]) /\ tasks[registry[q]].main = q

\* A bubble is left spinning only by a cancellation that came before the stream
\* or during a resumed one; every other ends with a frame (routes_ws.py
\* 2191-2204).
CutShort(q) == \E t \in Tasks : tasks[t].qid = q /\ At(t, "cut")
BubblesEnd == \A q \in Qids : (bubble[q] = "open") ~> (bubble[q] # "open" \/ CutShort(q))

Desk == INSTANCE AnswerDesk WITH Tasks <- Tasks, Qids <- Qids, Cap <- Cap,
                                 busy <- Holding, bubble <- bubble
\* The session implements the promise of AnswerDesk: however questions of one
\* utterance, regenerations and resumed answers interleave with cancellations,
\* no bubble is opened while it is open or ended before it was opened, and every
\* generation was admitted under the cap (routes_ws.py:1105-1125, 2162-2211).
Implements == Desk!Spec

=============================================================================
