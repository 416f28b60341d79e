# A formal model of the concurrent core of `zapthetrick`

The repository is a FastAPI backend (about 136 000 lines of Python under `app/`)
for an interview and chat assistant: a chat pipeline over many LLM providers,
retrieval and memory, an agent mesh, a document generator, an execution sandbox,
a live interview mode and a voice mode. Everything runs on one asyncio event loop
per process, with threads for synthesis, classification and rendering, and with
state that is mostly in memory.

This directory models the parts of it whose correctness depends on the order of
things: the voice mode, the live interview, the turns of a chat with their agents
and their language models, and the document jobs. It has TLA+ modules translated
from the source, configurations for TLC, and proofs for TLAPS. `PROJECT.json` ties
every definition to the lines it translates (`map`), every property to a change
of the code that breaks it (`mutants`), and every hazard of the code to the
properties that guard it.

Contents: [inventory](#1-the-system), [plan](#2-plan), [modules](#3-modules),
[runs](#4-runs), [bounds](#5-bounds), [fairness](#6-fairness),
[proofs](#7-what-is-proved), [findings](#8-where-the-code-and-its-documentation-disagree),
[limits](#9-what-is-not-modelled).

## 1. The system

### 1.1 Components

| Component | Code (under `src/app/`) | State it keeps | Operations | What makes it correct |
|---|---|---|---|---|
| Staged voice session | `voice/staged.py` | generation, reorder buffer, open turn, synthesis tasks and two slots, event queue | `speak`, `reply_end`, `send_text`, `set_speaking`, `interrupt`, `on_utterance`, `close`; one task per chunk | nothing of a cut reply is heard; chunks in order; one completion per turn; the record is what was heard |
| Realtime voice session | `voice/realtime.py` | upstream socket, turn, meter, event queue | events of the upstream, `interrupt`, `close`, tool calls | every answered turn is reported and metered; truncation matches what was heard |
| Voice session runner | `api/routes_voice_ws.py` | current session, pump, governor, send lock, turn ledger | client frames, forwarding, handover, teardown | at most one handover, nothing left open, no turn lost or written twice |
| Spend governor | `voice/budget.py` | day and month spend, a JSON ledger file | `add`, `record`, `remaining` | spend is the usage, never forgotten |
| Document job manager | `documents/jobs.py` | jobs, priority queue, workers, cancel and done events | `submit`, `cancel`, `wait`, `cleanup`, `aclose`, `start` | a job runs in one place, finishes once, and finishes |
| Live interview: turn taking | `audio/stream.py`, `live/hypothesis.py`, `api/routes_ws.py` | buffered sound, transcriptions in flight, pending text and its generation, settle timers, the current guess, the last question | partial and final transcripts, join, settle, guess, continue, correct | no recognized fragment is lost on the way to a question; a guess is shown only for a text that was heard; frames in order |
| Live interview: answers | `api/routes_ws.py`, `live/bus.py`, `live/dedup.py`, `live/budget.py`, `live/decision.py` | registry of answer tasks, dedup window, budget slots | detect, admit, stream, verify, regenerate, Stop, resume, interrupt, reconnect | slots cover the answers; one answer per text in the window; every bubble ends |
| Chat turns | `api/routes_agents.py`, `api/routes_attachments.py`, `api/idempotency.py`, `api/cancel_scope.py`, `api/replay.py` | idempotency keys, Stop flag and scope, rows of the conversation | post, stream, Stop, disconnect, commit, rescue | a key answered once, an answer saved once, done means saved |
| Agent mesh | `agents/supervisor.py`, `blackboard/scheduler.py` | slots of the board, heap of agents, timers of the budget | plan, ask, stream, run, shed, expire, cancel | dependencies before dependents, every agent and the turn end |
| LLM failover | `llm/engine.py`, `llm/router.py`, `llm/ratelimit.py`, `perceived/health.py` | request windows, cooldowns, breakers, the catalog | choose a route, commit, fail over, wait, continue | no route twice in a call; windows kept; a continued answer never turns into an error |
| Task engine | `tasks/core.py`, `orchestration/` | tasks with a state machine, checkpoints | pick, pause, resume, rehydrate | concurrency cap, no task lost over a restart |
| Chat agent loop | `agent/` | approvals and questions a turn is parked on | ask, answer, time out | a turn never stays parked, an answer is used once |
| Sandbox pool | `sandbox/pool.py` | warm workspaces, a refiller | acquire, release, close | no workspace shared, none left over |
| GPU admission | `gpu/scheduler.py` | VRAM reservations, lanes | admit, release | reservations within the memory |
| Operations | `obs/` | in-flight set, drain state, resurrection monitor | begin drain, track, resurrect | a drain ends, and after it nothing runs |
| Interview state, coaching, prepared answers | `live/` | interview state, prepared answers, deliveries | events of the interview | answers belong to the current resume and question |
| Perceived-speed layer | `perceived/` | speculation budget, prefetch cache | speculate, commit, discard | nothing speculative is shown as final |
| Chat, clarification, semantics, quality | `chat/`, `clarify/`, `followup/`, ... | per request | prompts and classification | sequential |
| Memory and retrieval | `memory/`, `rag/`, ... | stores behind adapters | index, search, delete | data, not control |
| Providers, storage, routes, converters, evaluation | the rest | external services and plumbing | | out of scope |

`PROJECT.json` has every group of source directories, with its status.

### 1.2 How the components interact

Voice mode:

``` user -- client -- WebSocket --> VoiceSessionRunner --> StagedSession /
RealtimeSession ^                      |  reader task           |  synthesis tasks   |
upstream socket |                      |  governor task         v                    v
+------ frames --------+  pump task <----- event queue (unbounded, per session) +-->
SessionLedger --> persist_ledger --> chat thread +--> SessionMeter  --> budget file
```

The client owns the model call: on a user turn it runs its own chat pipeline,
streams the reply back as `speak` frames for synthesis, plays the clips, and
reports what it played. The runner's reader calls the session's methods
directly; the session answers through its queue only. The governor and the pump
share the runner's fields (`_session`, `_engine_name`, `_pump`, `_governor`) with
the reader and with each other, without a lock: they are interleaved wherever one
of them suspends. The voice engine's contract is in the docstrings of
`voice/engine.py`, and its numbered properties and requirements, which the
comments cite, are what most of the properties here state.

The job manager is used by the document routes, which submit, poll or wait, and
cancel. Its workers share the jobs with the callers on one loop; renders run in
threads that cannot be stopped.

A live session and a chat turn:

```
 microphone -> segmenter -> transcription tasks -> handle_utterance -> pending text
                    |  partial text -> guess             |   settle timers  |
                    v                                    v                  v
                 (shown only once heard)         continuation, correction  question
                                                                            |
 client <- frames <- answer task (detect, dedup, budget, stream, verify) <--+
    +---- Stop, resume ----> registry of the connection

 client -> POST -> key -> agents_stream / chat_upload_stream -> commit -> done frame
                              |  Supervisor.stream <-> PriorityScheduler (agents)
                              v
                        engine.stream_with_continuation -> route_and_stream
                              |  per call: routes tried   |
                              v                           v
                        windows, cooldowns, breakers, catalog (shared by all turns)
```

The live session's tasks share its fields (`hyp`, `_spec`, `_last_commit`, the bus,
the budget) on one loop; cancellation is the means of taking things back.
The session's budget outlives a connection, its bus does not. A chat turn is one
async generator whose consumer may leave at any yield; the idempotency table, the
Stop flag and the scope are the only things two turns of a conversation
share, and what the model calls share is the routing state.

### 1.3 What is hard

* Code that reads shared state, awaits, and goes on (the barge-in classifier,
  `_kill`, the handover's send, the flush of a guess, the request window): another
  task may have moved.
* Cancellation: `Task.cancel()` of the running task takes effect at its next
  suspension, and `suppress(CancelledError)` around an `await` cannot tell whose
  cancellation it swallows.
* Results out of order: syntheses and transcriptions end in any order, some with
  nothing, some after the turn they belong to.
* Work begun on a guess (a partial transcript, a first token) that has to be taken
  back without a trace, or be shown without a gap.
* Several timers over one thing (an agent, its scheduler and its turn; a first
  token, a read, a budget), of which any may fire first.
* Retries: of a request by its client, of a commit by the route, of a model call by
  the engine, of a weak answer by its verifier.
* Delay on the socket in both directions: the session and the client disagree on
  which turn is open, and on what was heard.
* Failure at any point: upstream errors, clean and unclean; failed syntheses;
  renders that never return; a client that leaves in the middle of a handover.
* Liveness: a turn or a job waits for an event that some path must set.

`hazards` in `PROJECT.json` lists each of these at its line.

## 2. Plan

Order of the modules, most important behaviour first; those marked (done) are
here.

1. `VoiceStaged` (done): the staged session under any client. Safety over every
   order of calls, proved for all parameters.
2. `VoiceTalk` (done): `VoiceStaged` composed with the socket and a client; what
   depends on the client behaving, and liveness.
3. `VoiceRunner` (done): the runner, its tasks and cancellations, handover,
   ledger, teardown.
4. `JobLifecycle` and `DocumentJobs` (done): an abstract specification of a job,
   and the manager shown to implement it, by TLC and by proof.
5. `AnswerStream` and `LlmFailover` (done): what a caller of the model is promised,
   and the failover engine over windows, cooldowns, breakers and the catalog.
   The copies of cooldowns in the database, written by fire-and-forget tasks and
   read after a restart, are still to do: the property is that a quarantine
   outlives a restart.
6. `LiveTurns` (done): from the sound of a live interview to a committed question.
7. `AnswerDesk` and `LiveAnswers` (done): from a committed question to its answer.
   Still to do: prepared answers, generated while their resume is replaced.
8. `ChatTurns` (done): requests, Stop, idempotency keys, saving. Still to do: the
   replay ring and resuming from it.
9. `AgentMesh` (done): the scheduler and the supervisor around one answer.
10. `VoiceRealtime`: response lifecycle, native barge-in, truncation, tool calls,
    reconnection by handover. It replaces the event source of `VoiceRunner`.
11. `TaskCore` and the checkpoints of `orchestration/`: the task state machine over
    a crash. Abstract specification: a task is in one state, and a finished one
    stays finished.
12. `SandboxPool`, `GpuScheduler`, `Drain`: small concurrent protocols; the
    interesting property of each is a resource invariant, worth a proof.
13. `VoiceBudget` (day and month rollover); approvals and questions of the agent loop.

Every safety property of the modules that exist is proved; what the conversation
promises (`VoiceTalk`) is proved for typed turns whose client counts its chunks, and
is not true otherwise (section 7).

Each component has one run, for its safety and its liveness together; one more
where a claim of the source is refuted.

## 3. Modules

| Module | Models | Role |
|---|---|---|
| `VoiceStaged` | `StagedSession` | component |
| `MCVoiceStaged` | | instance for TLC |
| `VoiceStagedProofs` | | theorems about `VoiceStaged` and `VoiceTalk` |
| `VoiceTalk` | session + socket + client + user | composition, EXTENDS `VoiceStaged` |
| `MCVoiceTalk` | | instance |
| `VoiceRunner` | `VoiceSessionRunner`, the parts of `RealtimeSession`, `SessionLedger`, `SessionMeter` and `transcript.py` it works with | component |
| `MCVoiceRunner` | | instance |
| `VoiceRunnerProofs` | | theorems about `VoiceRunner` |
| `JobLifecycle` | the life of a `RenderJob` | abstract specification |
| `DocumentJobs` | `DocumentJobManager` | component, implements `JobLifecycle` |
| `DocumentJobsProofs` | | theorems about `DocumentJobs` |
| `LiveTurns` | segmenter, `HypothesisBuffer`, `handle_utterance` and its timers | component |
| `LiveTurnsProofs` | | theorems about `LiveTurns` |
| `AnswerDesk` | what the answering side of a session promises | abstract specification |
| `LiveAnswers` | answer tasks, registry, dedup, budget, verification, reconnection | component, implements `AnswerDesk` |
| `LiveAnswersProofs` | | theorems about `LiveAnswers` |
| `AnswerStream` | what a caller of a language model is promised | abstract specification |
| `LlmFailover` | `route_and_stream`, the continuation wrapper, shared routing state | component, implements `AnswerStream` |
| `MCLlmFailover` | | instance |
| `LlmFailoverProofs` | | theorems about `LlmFailover` |
| `ChatTurns` | text and upload turns, keys, Stop, saving, restart | component |
| `ChatTurnsProofs` | | theorems about `ChatTurns` |
| `AgentMesh` | `Supervisor.stream` with `PriorityScheduler.run_p0_p1` | component |
| `AgentMeshProofs` | | theorems about `AgentMesh` |

A definition that stands right before another, takes the same parameters and is
used by nothing is a deliberate fault: `PROJECT.json` puts it in the place of its
neighbour to show that a property notices. Most are marked "Mistake", "Mutant"
or "A bug".

### 3.1 `VoiceStaged`

State: the fields of `StagedSession`, under their names without the underscore.
Three are abstracted. The spoken seqs are a set, because the code keeps them
ascending; the assistant's parts are a set of chunks, because their order is that
of the seqs; and `out` is everything ever put on the event queue, so that a
property can speak of the past. The semaphore and the synthesis tasks are one
sequence, `tasks`: each entry is `queued` (not started, or waiting for a slot) or
in `synth` (the call to the synthesizer); the semaphore is FIFO and so the first
queued entry is the next to get a slot.

Actions: `Speak`, `ReplyEnd`, `SendText`, `SetSpeaking`, `Interrupt`, `Close` are
the methods, each whole: `ReplyEnd` includes the `_maybe_complete` it ends with,
`Interrupt` the drop events, the `SpeechInterrupted` and the `_finish_turn`.
`on_utterance` suspends in the classifier, so it is two steps: `Utterance`
(admitted as a turn at once, or sent to be judged) and, later, `Backchannel`,
`Undecided` or `BargeIn`. A synthesis is `SynthStart`, which checks the
generation on entering, and `SynthEnd` or `SynthStale`, which check it again.
`Drain` is `_drain` and the completion check after it: one step emits the whole
contiguous run, which is what the code does before it yields.

The environment is unconstrained: any frame with any seq, chunk and count may
come at any time. `played_chunks` may be anything, or absent.

### 3.2 `VoiceTalk`

Adds `wire` (frames on their way in), `read` (how far the client has read
the session's events) and the client's own state. `Receive` is the runner's
reader taking a frame to the session's method. The client is not in the
repository; `Type`, `Tap`, `SendChunk`, `SendEnd`, `Render`, `Silence` and `Read`
are modelled from the protocol the runner and the session describe and from
`scripts/voice_demo_e2e.py`, and are marked external in the map. A clip's
generation travels with it, so that the client can drop what it has cut off.

`cutAt` is a history variable: how many clips the user had heard when tapping.

### 3.3 `VoiceRunner`

Tasks are named for what they are: a pump per engine, and the governor. `pc`
says where each is suspended, `held` which tasks the runner refers to
(`_pump`, `_governor`), `cancelled` which have a cancellation to be delivered,
and `wire` is the send lock: its holder and who waits.

* `Heard`, `Answered`, `Fails`, `UpstreamEnds`: what the realtime session makes of
  the upstream. `Answered` is `_meter_response` and `_finish_turn`: it writes the
  spend through and queues the usage and the turn.
* `StagedTurn`: a turn under the staged engine, whole; its details are
  `VoiceStaged`'s. The client writes such a turn to the chat thread itself.
* `Forward`, `Sent`: the pump takes an event, records it, and sends it.
* `Begin`, `Interrupted`, `HandOver`: `_handover` up to its first suspension (the
  engine_switch frame), and then the rest of it. The handover runs inside the pump
  or the governor and cancels both, so itself. `Interrupted` is what follows if
  closing the old session suspends: the cancellation is delivered there and the
  handover ends. `HandOver` is what follows if it does not; the old pump may then
  forward `k` more queued events before it suspends for the first time. Which of
  the two happens depends on the websocket library's `close()`; both are allowed.
* `Govern`: the governor's tick finds the cap or the ceiling reached. The cap is
  wall-clock time and may be reached at any tick, so the guard is only the state.
* `Disconnect`, `CloseSession`, `Persist`: `_teardown` in the pieces between its
  suspensions. `Persist` may fail, and then writes nothing.
* `Die`: a cancelled task ends where it is suspended, and leaves the lock.

Turns are numbers in the order of being answered; a response costs one unit.
`Kept(seq, S)` is the elements of `S` in `seq`, in their order; it is written as a
recursive function, so that it can be reasoned about (section 7).

### 3.4 `JobLifecycle` and `DocumentJobs`

`DocumentJobs` keeps the manager's fields; `pc` is where each worker is
suspended: in the queue's `get`, in `asyncio.wait`, in one of four `_kill` calls
(of the cancel task after a render that came back, or after a timeout; of the
render task after a timeout, or after a cancellation) or in the backoff. Every
one of these is a place where `cancel()` or `aclose()` may come in between.

A render that is abandoned keeps its thread, and is counted in `stray`.
`Attempt` is the top of the retry loop, used by `Take` and `BackoffOver`.
`Close`, `WorkerDies`, `Swallow`, `Closed` are `aclose()`: it cancels the
workers; a worker in a `_kill` swallows the cancellation (`_kill` suppresses
`CancelledError` around its `await`) and goes on; `aclose()` waits for all.
`Start` replaces the queue and the workers.

`JobLifecycle` has what a caller sees: status, attempts, accepted cancellations.
The refinement mapping is the identity on these three variables, with
`Limit = MaxRetries + 1`; everything else of the manager stutters.

### 3.5 `LiveTurns`

Fragments are numbered in the order spoken, and a text is the sequence of the
fragments in it, so that losing, doubling or swapping one is visible. `Speak`,
`SpawnPartial`, `Finalize` are the segmenter's; `NotUnderstood` and `Transcribed` end
a final transcription, in any order. `handle_utterance` suspends while it flushes a
guess and while it tells the client of a continuation, and `handlers` holds those that
stand there. `Understood` is the code up to the first suspension, `Merged`, `Flush`
and `Flushed` the rest. A final text is compared with the words of the current guess
and passes from a similarity of 0.92 on (`routes_ws.py:2613-2619`), so that it may
pass for a guess made from another fragment, or a merged text for one made from its
tail: `GuessRight` and `GuessWrong` are both open whenever there is a guess.
`GuessRight` commits the text under the guess's question id and flushes its frames;
`GuessWrong` cancels it and lets the text `Join` the pending one. `Settle` is a settle
timer that wakes: it holds while sound is buffered, returns if superseded, and commits
otherwise. What reads as a correction, a tail or a complete question is a choice.
`stranded` is what one step of the code leaves pending with no timer (see `Merged` and
section 8). Answers are only what is needed here: the text committed with their
question id (none for a guess), how many frames a guess made, which were shown,
whether they are shown as they come (`live`).

### 3.6 `LiveAnswers` and `AnswerDesk`

A task asks, verifies or resumes (`kind`), and stands at an `await` (`at`):
detection, the preparation after admission, the stream, the work after it, the
sending of its last frame, and the place between two questions of one utterance
(`sent`). `main` is the question id the task was registered under, `qid` the one it is
working on: `_answer_from_event` answers several questions in turn, each
extra one under a fresh id that nobody registers (`NextQuestion`). `stage` counts
regenerations. `Cancel` delivers a
cancellation where the task stands, and `AfterCancel` is what its `except` and
`finally` clauses make of it there; the two places before and after the `try` are
those that differ. `Registered` and `Unregistered` are the registry with its done
callback. `Reconnect` begins a new connection with a new bus over the same
budget, after the tasks of the old one were cancelled. A text expires from the
dedup window at any time.

`AnswerDesk` knows the tasks generating and the bubbles; `busy` is mapped to
`Holding`, the tasks between admission and the `finally` clause that gives the slot
back. It does not promise a single terminal frame: an answer cancelled while its done
frame is being sent sends a second one (`routes_ws.py:2162`, 2198).

### 3.7 `LlmFailover` and `AnswerStream`

A turn is one call of the continuation wrapper. `Continuing` are the turns whose
answer is continued; for the others `mid_stream_continuation` is off
(`config_loader.py:1387`; the upload route forces it on, `routes_attachments.py:1448`)
and the wrapper passes the stream through, an error after shown bytes included
(`engine.py:732-738`). `at` is where the routing loop
stands, `skip` the routes it has put aside, `parts` how many parts of the answer
were shown, `cont` how many continuations were asked for. What a provider does
is one action each, as the engine tells them apart: `TimeOut` (first token),
`Refused` (an error with a cooldown), `Fatal`, `Dead` and `Disabled` (a model that
is gone, with the awaited removal from the catalog), `EmptyStream`, `Garbage`
(nothing worth showing), `Short` (over before the probe filled), `Validate`
(the first good bytes), and then `StreamEnd`, `Dropped` or `Degenerate`. Each action
includes what it does to the shared state: the request that is recorded, the
cooldown, the breaker. Cooldowns end, windows slide and breakers half-open
at any time (`Expire`, `Slide`, `HalfOpen`), which covers every length of them.

`AnswerStream` has parts told, by which voice, and the end; only for an answer that is
continued does it exclude an error once something was told. The mapping reads them
off the turn's record; the voice is the route while it streams.

### 3.8 `ChatTurns`

A turn goes through `prelude` (handler), `ready` (the response object exists and
its generator has not run), `stream`, `verify`, `commit`, `again` (the rescue in a
fresh session) and `tail`. Text turns and uploads share what they share and differ
where the routes differ: the order of claiming the key and committing the
question, the scope that only a text turn has, the guard that releases an upload's key.

Streams that do not simply end have places of their own. An empty one makes an upload
stream again (`empty`), and then either kind ask up to `MaxTiers` tiers for the whole
answer (`fallback`); Stop is looked at before each of these awaits and not after it
(`Ask`, `FallbackAnswers`). An upload that breaks off early starts over (`retry`); one
that breaks off for good awaits the save of what it has shown (`partial`, with
`PartialCommits` and `PartialEnds`), and a client that leaves during that save makes
the handler save again (`Abandoned`). `held` are the pieces a text turn's coalescer
keeps back; the end of the stream shows them (`Flushed`).

`gone`, `cancelled`, `stop` are what has happened to the turn and it has not noticed;
`unsure` says that a save was begun whose end the turn did not see. `SaveLeft` is the
detached task that saves what an abandoned turn had shown. `Restart` loses everything
but the rows.

### 3.9 `AgentMesh`

`phase` is where the supervisor is, `sched` where `run_p0_p1` is: polling its heap,
awaiting a real-time agent, or in its final wait. Optional agents are tasks it
does not await until the end. Slots on the board make agents ready; the answer
writes `drafts`. `clar` is the clarifier, which may win the race against the first
token. Time is counted in fractions of the latency budget, and `Due` lists the
timers: the clock does not pass one that is due.

## 4. Runs

Passing runs:

| Run | Properties | Shows | Distinct states |
|---|---|---|---|
| `staged_any_client` | `StaleAudioNeverOut`, `OrderedEmission`, `NoTurnCompletesTwice` | the session's safety under any client | 906 000 |
| `talk_typed` | `AnswersItsOwnTurn`, `EveryChunkAccounted`, `CutRecordIsHeard`, `EveryTurnCompletes` | two typed turns with a user who may tap at any time | 63 000 |
| `talk_spoken` | `SynthesisEnds` | a typed and a spoken turn, verdicts late, no chunk count | 200 000 |
| `runner` | `TypeOK`, `LedgerInOrder`, `ChatOnce`, `OneHandover`, `NothingOpenAfterwards`, `AnswersAreRecorded` | a socket from its first frame to its teardown | 204 000 |
| `jobs` | `InOneHand`, `Implements`, `JobsFinish` | the manager, with close and restart, and its refinement | 252 000 |
| `live_turns` | `PendingTextHasTimer`, `FramesInOrder`, `GuessShownOnlyIfHeard`, `EveryFragmentAnswered` | three fragments from sound to question | 1 343 000 |
| `live_answers` | `TypeOK`, `SlotsCoverAnswers`, `OneAnswerInWindow`, `RegistryIsLive`, `BubblesEnd`, `Implements` | three answer tasks for two slots, over a reconnection | 124 000 |
| `llm_failover` | `NoRouteTwice`, `WindowOverrun`, `TurnsEnd`, `Implements` | two concurrent answers over two models, one of them continued | 69 000 |
| `chat_turns` | `OneAnswerPerKey`, `SavedOnce`, `DoneIsSaved`, `StopHolds`, `TurnsEnd` | two turns, two keys, a restart | 284 000 |
| `mesh` | `RealTimeIsAwaited`, `EarlyDoneIsComplete`, `NothingStartsAfter`, `MeshEnds` | a turn with any of its agents, which may hang | 517 000 |

Every module with a type invariant has a theorem `Spec => []TypeOK` (section 7); the
runs `runner` and `live_answers` check theirs as well.

What the properties mean, and why they could fail:

* `StaleAudioNeverOut`: a chunk tagged with an old generation never comes out after
  the barge-in that ended it. The tag is checked before and after synthesis; drop
  either the check or the clearing of the buffer and the property fails.
* `OrderedEmission`: each chunk, played or reported lost, follows its predecessor
  of the same turn, although syntheses end in any order and a turn may be cut at
  any point.
* `NoTurnCompletesTwice`: a turn is completed from three places, and only the reset
  in `_finish_turn` keeps them apart. It is the at-most-once half of "exactly one
  `TurnComplete` per turn"; the other half is `EveryTurnCompletes`, for typed turns.
* `AnswersItsOwnTurn`: with a client that cuts replies itself, what plays during a
  turn is that turn's reply, whatever is still on the wire or in synthesis.
* `EveryChunkAccounted`: completion comes after every chunk, and reports how many
  were played. It needs the client to send its chunk count.
* `CutRecordIsHeard`: when a tap reaches an open turn, the record holds no chunk
  the user had not heard.
* `EveryTurnCompletes`: a failed synthesis must fill its place in the order or the
  turn never ends.
* `SynthesisEnds`: a chunk that was cut off gives its slot back.
* `LedgerInOrder`: two pumps of two sessions write one ledger, and do not mix turns
  up, because the old pump cannot outlive a suspension.
* `ChatOnce`: client and server both write to the chat thread, and never the same
  turn, even when a turn's engine label is wrong.
* `OneHandover`: pump and governor may both be inside a handover with its guard
  passed, because both wait for the send lock; the first cancels the second.
* `NothingOpenAfterwards`: a handover under way when the client leaves does not
  come back with a session that nobody will close.
* `AnswersAreRecorded`: the pump survives whatever it forwards.
* `InOneHand`: no job is executed by two workers, or executed and queued, and
  what is being executed has not finished, over restarts too.
* `Implements`: attempts stay within the limit, none starts after an accepted
  cancellation, a timeout is final only at the last attempt, no step leaves a
  final status except cleanup.
* `JobsFinish`: timeouts, exhausted retries, and cancellations during the backoff all
  set the done event, unless the manager is closed.
* `PendingTextHasTimer`: a settle timer that was superseded returns without a word,
  and a correction cancels timers; text is left waiting for nobody by one step only,
  the one that records it as `stranded`.
* `FramesInOrder`: a guess goes on producing while its held frames are flushed with an
  `await` after each; the client gets them in order, and none stays behind.
* `GuessShownOnlyIfHeard`: a guess is made from a partial transcript of one
  fragment and judged when the final one of this or of another fragment arrives. It
  shows frames only once a text was committed under its question id, all of it
  recognized, and then nothing said later can take it back as a guess. That the text
  has the words of the guess is not said: 0.92 is enough for the code.
* `EveryFragmentAnswered`: through transcriptions in any order, corrections,
  continuations and guesses, every recognized fragment comes to be in the text of a
  committed question, or was dropped on purpose, or is stranded. A guess commits to
  nothing until a final text passes for it; one that is given up answers for no
  fragment.
* `SlotsCoverAnswers`: a slot is taken and given back in different pieces of code,
  by tasks that may be cancelled at every `await`; never do more answers run
  than are counted, nor is more counted than the cap.
* `OneAnswerInWindow`: detection awaits a model, and the check for a duplicate comes
  after it; two tasks with one text both pass only if something suspends between
  check and note.
* `RegistryIsLive`: Stop finds a running task that was started for that question or
  none, although callbacks of ended tasks remove by question id, and a resumed answer
  reuses it. The task may by then be on a later question of the same utterance.
* `BubblesEnd`: each of the paths out of an answer sends a terminal frame, except
  where `CutShort` says that none does: a cancellation before the stream begins, or
  of a resumed answer.
* `LiveAnswers!Implements`: answers are admitted one by one within the cap; a bubble is
  opened only when it is not open, gets a terminal frame only after it was opened, and
  stays ended until it is opened again.
* `NoRouteTwice`: what a call has tried it does not try again, although a cooldown may
  be over before the call is.
* `WindowOverrun`: check and count are apart by the wait for the first token; the
  overrun is bounded by the other turns.
* `LlmFailover!Implements`: once something was shown, failover stops; a continued
  answer passes no error on any more, and its continuations are counted; one that is
  not continued has one part.
* `TurnsEnd` (of `LlmFailover`): waits for a route and tries of routes share one
  counter, whatever the other turns use up.
* `OneAnswerPerKey`: a second request with the key may come at any point of the first,
  and text turns and uploads claim it at different points.
* `SavedOnce`, `DoneIsSaved`: the answer may be saved by the commit, by the rescue of
  a failed commit, by the awaited save of an upload that broke off, and by the detached
  task after a disconnection. Twice only when the turn did not see the first save end.
* `StopHolds`: the Stop flag of a conversation is cleared by its next turn; a text
  turn that was told to stop stays stopped by its own scope. It still shows what it has
  at hand (`AtHand`): the pieces its coalescer holds and what the one call under way, a
  fallback tier or a verification, returns. That never grows.
* `TurnsEnd` (of `ChatTurns`): the model may hang, the client may leave, before the
  response starts or at any yield. No action of a model is fair: a silent text turn is
  ended by its budget, an upload by its provider's read timeout.
* `RealTimeIsAwaited`: a real-time agent does not outlive the scheduler's `await` of it,
  whichever timer fires or cancels.
* `EarlyDoneIsComplete`: an agent becomes ready by what others write, in any order;
  none is skipped by a turn that had time for it.
* `NothingStartsAfter`: when the clarifier's questions end the turn, the scheduler is
  cancelled first.
* `MeshEnds`: an agent whose slot is never written keeps the loop polling, and one
  that hangs keeps it waiting; all of it ends.

Runs with `violation` are the findings of section 8.

`CHECK_DEADLOCK` is off everywhere: a user who has said everything, a socket torn
down and a manager without work are proper ends.

## 5. Bounds

* `VoiceStaged`: one utterance, one chunk text, three chunks per reply, two
  synthesis slots (`_SYNTH_CONCURRENCY`), and no further call once four events are
  out. Three chunks for two slots leave one waiting, the smallest number for
  which all stages of a task coexist; four events reach a complete turn, a
  cut and a second turn. The names of utterances and chunks do not matter to
  the session, which never compares them. The theorems are for any values.
* `VoiceTalk`: two utterances, replies of two and one chunks. A hazard here needs
  two turns, the first with a chunk behind the one that is played. The events
  bound (40) is never reached: the number of utterances bounds the behaviour.
  Replies of three and one chunks were checked too (635 000 states).
  `TalkInv`, the invariant of the proofs, holds in every state of `talk_typed`.
* `VoiceRunner`: three turns, two failures. Two failures put two errors in the
  queue, so that the pump may find a second one after a handover; three turns
  put one before, one during and one after it.
* `DocumentJobs`: two jobs, two priorities, two workers, one retry, with close and
  restart. Both workers may take up one job after the other, and a second
  worker is what a job in two hands needs. Three jobs were checked for safety
  alone (1 980 000 states).
* `LiveTurns`: three fragments, the least for which two that belong together arrive
  around a third; six question ids and two frames per answer, of which one can be
  held and one live. Six ids are one guess and one commit for each fragment; a
  behaviour that ran out of them with text still pending would violate
  `EveryFragmentAnswered`, since no guess counts as a commit until a text passes for it.
  `MayOutlast` lets a fragment last longer than the hold.
* `LiveAnswers`: three tasks for two slots, three question ids, one text (texts
  that differ do not interact), one regeneration, two connections, and a database
  that may be down. Tasks and question ids are taken in a fixed order (`NextTask`,
  `NextQid`): nothing compares them but for equality, so this loses no behaviour but
  by renaming. A task answers as many questions as there are ids.
* `LlmFailover`: two turns, one continued and one passed through, two models with one
  key each, one of them limited to one request a minute, two rounds of the loop, one
  wait, one continuation, a breaker that opens at one failure. Each bound is the least
  at which its counter is both used and exhausted.
* `ChatTurns`: two turns, which may be any two kinds with one key or two, two pieces
  of an answer, of which one can be shown and one held, two fallback tiers (the code
  has three; a first and a last are what differs), one restart. Three turns matter only
  to the flag (section 8).
* `AgentMesh`: the budget is two units of time, so that an agent may start in the
  middle of it; by `Horizon`, twice that, the last timer has fired. Every subset of
  the agents is tried. The theorems are for any budget.

## 6. Fairness

* `FairTalk` (in `talk_typed`, `talk_spoken`): weak fairness of the client's
  streaming and reading, of the runner's reader, of verdicts and of the
  synthesis tasks. The loop runs what is ready; a classification is one
  call in a thread; a synthesis ends by its own timeout (`_SYNTH_TIMEOUT_S`)
  whatever the provider does; the client is assumed to send the reply it began
  and to read its socket, since otherwise the socket breaks and the session is
  torn down. The user owes nothing: typing, speaking, tapping and even rendering
  clips are not fair.
* `FairSpec` of `VoiceRunner`: weak fairness of each pump, of the delivery of
  cancellations and of the handover's steps. The client's socket takes frames, or
  the send fails, and both release the lock. Upstream, governor and disconnection
  are not fair.
* `FairSpec` of `DocumentJobs`: weak fairness of each worker's step as a whole,
  of the delivery of a cancellation, and of `aclose()` noticing its end. Timers
  fire, so a worker in `asyncio.wait` can always go on by its timeout. Renders are
  not fair: `JobsFinish` holds although none ever returns. One step per worker
  is fair, not each disjunct, since the loop only promises that the task goes on.
* `Fairness` of `LiveTurns`: the recognizer has timeouts, sends and sleeps end, an
  answer has a time budget, and a fragment is ended at `max_utterance_ms`. The
  speaker owes nothing: to speak, to go on, or to correct himself is not fair.
* `FairSpec` of `LiveAnswers`: weak fairness of each task's next step; detection and
  verification are model calls with timeouts, a stream ends by `answer_timeout_s`.
  The client and reconnections are not fair.
* `FairSpec` of `LlmFailover`: weak fairness of each turn's next step: the first
  token has a deadline, the adapters a read timeout, and sleeps end. Cooldowns
  need not ever end, nor windows slide.
* `FairSpec` of `ChatTurns`: weak fairness of a turn's handler (`Handler`) and of what
  a turn does whether its model answers or hangs (`Ending`): the budget of a text
  turn is looked at while the model is silent, a hanging provider of an upload breaks
  the stream off by its read timeout, fallback calls and verifications have deadlines,
  and database calls return or fail. Nothing a model does when it answers (`Model`) is
  fair, nor are the detached save, Stop and disconnections.
* `FairSpec` of `AgentMesh`: weak fairness of `Sure`: the loop, the timers, and the
  answer's stream. An agent or the clarifier need not ever end by itself. Time is an
  action of `Sure` that no due timer lets pass, so that it cannot starve a timer.

## 7. What is proved

All theorems hold for every value of the constants that the modules' `ASSUME`s
allow; those ask only that counts are natural numbers (`MaxSeq` and `SynthSlots`
positive), that priorities are, and that the "no value" constant is no job or
utterance. `VoiceTalk` also asks that a reply has between one and `MaxSeq` chunks, and
that a chunk is named by its turn and its place in the reply.

`VoiceStagedProofs`, about a session under any client:

* `TypeCorrect`: `Spec => []TypeOK`. `TypeOK` is inductive. The proof goes by frames
  from the client, utterances and their verdicts, and synthesis; the drain's
  facts (where the gap is, what the events are) are lemmas, and `nextSeq <= MaxSeq`
  is what keeps the buffer's seqs in range.
* `StaleAudio`: `Spec => []StaleAudioNeverOut`. The invariant `GenerationInv` adds
  that everything in the buffer has the current generation and that no cut
  that went out began a later one. Needed because a drain emits what an earlier
  step buffered.
* `EmissionInOrder`: `Spec => []OrderedEmission`. `OrderInv` adds that the last
  audio or drop of the open turn is exactly the one before `nextSeq`.
* `CompletesOnce`: `Spec => []NoTurnCompletesTwice`. `OnceInv` adds that while
  nobody has spoken since the last completion, the session holds no words to
  complete a turn with: no user text, no chunk, no part of a reply.

The last three rest on `StepCases`: every step either leaves order, generation and
turn alone, or is a speech event, a drain, or a cut. Each invariant is then
proved for those few shapes, by lemmas on what concatenation does to a property of
a sequence of events. `VoiceStagedProofs` extends `VoiceTalk`, but no proof of these
four uses what that module declares or assumes.

And about the conversation, for any number of typed turns, any length of reply, any
number of synthesis slots and any delay of the socket:

* `TypedAnswersItsOwnTurn`, `TypedEveryChunkAccounted`, `TypedCutRecordIsHeard`:
  `TalkSpec => []AnswersItsOwnTurn`, `[]EveryChunkAccounted`, `[]CutRecordIsHeard`, if
  `Said = {}` (nobody speaks over the assistant) and `CountSent` (`reply_end` carries
  the number of chunks). Both hypotheses are needed: on the instance of `talk_typed`
  TLC refutes each of the three when `u2` is said instead of typed, and each when
  the client does not count. A verdict of the barge-in classifier may change
  the turn under a reply that is still being streamed, and a client that does not
  count lets a turn complete while synthesis is under way.
* The inductive invariant is `TalkInv`. `Kept` states the three properties event by
  event, by the turn that was open then. `SessionInv`: the session is `AtRest`, with
  nothing of any turn, or `Busy` with one: it has the first `n` chunks of the reply
  to it, has told of exactly those below `nextSeq`, and each of the others is in
  synthesis, buffered or failed, in one of the three. `RepliesInv`, `TextsInv`
  and `TapsInv` say what may be on the wire: the frames of a reply, in order, before
  any other turn or tap; between two texts a tap; with every tap what was heard
  of the turn before it. `ClientInv` lists the six situations of the client: `Away`,
  `Typing`, `Begun`, `Replying`, `Completed`, `Resting`. `floor = gen + Taps(wire)`
  links the client's view of the generation with the session's: they differ by the
  taps on their way.
* Each kind of step has its lemma (`TypeStep`, `TapStep`, `SendChunkStep`,
  ..., `InterruptStep`, `SynthStep`), over lemmas on what appending to and taking from
  the wire, the tasks and the events does to each part.

`DocumentJobsProofs`, about the manager:

* `Invariant`: `Spec => []IInv`, with `IInv` the conjunction of `TypeOK`, `InOneHand`,
  `Counted` (a job no worker has taken yet has had no attempt, and one in a backoff
  fewer than `Limit`) and `AbandonsAsked` (a worker that abandons a render does so
  for a job whose cancellation was accepted). `TypeOK` bounds the attempts and
  holds because of `Counted`, which holds because a job is in one hand. The
  refinement needs all of it: an attempt must have one left, and a job may become
  cancelled only if somebody asked.
* `TypeCorrect`, `OneHand`: its conjuncts.
* `Refinement`: `Spec => Implements`. Each step of the manager is a step of
  `JobLifecycle` or a stutter, given `IInv`.

`LiveTurnsProofs`, about any number of fragments, questions and frames:

* `LiveTurnsTypeOK`: `Spec => []TypeOK`.
* `PendingTextIsTimed`: `Spec => []PendingTextHasTimer`. The inductive invariant adds
  that the current guess has a question id that was given out (`GuessIsAsked`) and that
  a handler in the middle of a continuation has a text (`MergesHaveText`): pending text
  that a handler is about to extend is not empty afterwards.
* `FramesAreInOrder` (`FramesInOrder`) and `GuessesAreHeard` (`GuessShownOnlyIfHeard`)
  are proved together, as parts of `ShownInv`. `FragmentsApart` says that a fragment
  is in one place: buffered, in transcription, dropped, or heard; what was heard stays
  heard. `TextsHeard`: all text in hand - pending, last committed, with a handler - was
  heard; this is what a guess is shown for, whatever its own fragment. `SpecInv`: the
  current guess is not live and has shown nothing. `FlushInv`: an answer that is being
  flushed is a guess whose text was heard, is no longer the current guess, has shown
  exactly what its handler has sent, and has no other handler.

`LiveAnswersProofs`, for any number of tasks, questions, texts, regenerations, slots
and connections:

* `TypeCorrect`, `SlotsCover` (`SlotsCoverAnswers`), `OneAnswer`
  (`OneAnswerInWindow`), `RegistryLive` (`RegistryIsLive`), all from one inductive
  invariant, whose parts say where each kind of task may stand (`Sound`), that a
  question somebody works on has had its bubble opened (`BubblesInv`), that noted
  texts are in the window (`WindowInv`), and that a registered task runs, was started
  for that question, and is one whose end clears the registry (`RegistryInv`).
  `SlotsCover` is about the cardinality of `Holding`: an admission adds one task and
  counts one, a release takes one away and counts down, and a slot that leaks only
  widens the gap.
* `Refinement`: `Spec => Implements`, by the same invariant: every action is an
  admission, a release, an opening of a bubble, a terminal frame, or a stutter of
  `AnswerDesk`.

`VoiceRunnerProofs`, for any number of turns and failures:

* `TypeCorrect`, `OneSwitch` (`OneHandover`), `NothingOpen` (`NothingOpenAfterwards`),
  `LedgerOrder` (`LedgerInOrder`), `Once` (`ChatOnce`). The core of the invariant is
  `Phase`, which says in which of three situations the handover is, and for each who is
  referred to, who is cancelled and what is open: before
  any handover (`Before`); cut short by its own cancellation while it closed the
  old session (`Cut`); and with the staged session open (`Over`). `EndInv` says what the
  teardown has cancelled and closed; `QueueInv` puts the turns of the ledger and of the
  queue that is still read into one increasing order, and says who answered them;
  `ChatInv` that until the transcript is written the chat has what the client wrote,
  turns of the staged engine; `HeardInv` that a turn that is heard can be answered.
* The lemmas about `Kept`, which the ledger, the queue and the send lock are filtered
  with, are inductions over the length of the sequence. They are proved from the
  least element of the set of lengths for which the claim fails (lemma `Induction`),
  which needs no operator as a parameter.

`LlmFailoverProofs`, for any number of turns, models, keys, rounds and
continuations:

* `TypeCorrect`, `NeverTwice` (`NoRouteTwice`): `Sound` relates where a turn stands to its
  route, its parts and its end, and `RanOut` counts: rounds are waits plus routes put
  aside.
* `Overrun` (`WindowOverrun`): `WindowInv` adds the turns that were given the route and
  have not been counted yet; they and the count together stay below the limit plus the
  number of turns. This is the one place where `Cardinality` is reasoned about.
* `Refinement`: `Spec => Implements`. `Sound` gives what the mapping needs: for an answer
  that is continued an error is passed on only while `parts = 0`; one that is not
  continued has one part at most.

`ChatTurnsProofs`, for any number of turns, keys, pieces and restarts:

* `ChatTypes`, `KeysAnsweredOnce`, `AnswersSavedOnce`, `DoneMeansSaved`,
  `StoppedStaysSilent`. The inductive invariant says for each place a turn can be at
  how often it has saved, whether it saw that, and what it has told (`Good`), and
  which turn a key belongs to (`OneOwner`), that the table still holds the key of a
  turn of this life (`OwnedIsKept`), and that a scope is a text turn's
  (`ScopeIsText`). Lemmas treat the three things a step may do to the key of the turn
  it changes, then each action is one of them. `StoppedStaysSilent` goes through the
  actions once more: one that is open to a stopped text turn shows what is held, or
  what the call under way returned, and begins no other.

`AgentMeshProofs`, for any budget:

* `MeshTypes`, `RealTimeAwaited`, `EarlyIsComplete`, `NothingStarts`. The inductive
  invariant adds that at most one real-time agent runs (`OneRealTime`), that the
  scheduler is over once the client was told (`OverWhenTold`), and that after the loop
  nobody is queued unless the budget is used up (`NobodyLeftOut`). The two action
  properties follow from it step by step.

Only model-checked: every liveness property (`EveryTurnCompletes`, `SynthesisEnds`,
`AnswersAreRecorded`, `JobsFinish`, `EveryFragmentAnswered`, `BubblesEnd`, both
`TurnsEnd`, `MeshEnds`): liveness under fairness rests on ENABLED, which the prover
does not handle. The library's induction theorems take an operator as a parameter and
cannot be used; where an induction is needed, it is over the natural numbers and
stated for sets. The modules have no recursive operators.

## 8. Where the code and its documentation disagree

Two are runs that TLC refutes with a trace of the code's own steps:

* `runner_handover` (`HandoverFinishes`, `routes_voice_ws.py:318`): the handover
  cancels the task it runs in; if closing the upstream socket suspends, the client
  has been told of the switch and no engine ever comes up, against "Realtime ->
  staged without dropping the conversation".
* `chat_retry` (`FailedKeyIsFree`, `routes_agents.py:843`): a text turn claims its
  idempotency key and neither completes nor releases it; if it fails, its key stays in
  flight and the retry is answered with a bare done frame, against "Release an
  IN-FLIGHT claim whose turn failed before completing, so a genuine retry can
  proceed" (`idempotency.py:70`).

The others were met while modelling. The actions that lead there are in the modules,
and the properties are stated so as to hold of the code as it is.

Voice and jobs:

* The teardown cancels the pump before it has drained the queue
  (`routes_voice_ws.py:463`): the last turn is missing in the transcript, against
  "a mid-session failure loses no spoken turn".
* Session and runner each have a `SessionMeter`, and both write a response's cost
  through (`routes_voice_ws.py:277`, `realtime.py:460`).
* A barge-in reports as dropped what is in the reorder buffer, not what is in
  synthesis or has failed (`staged.py:271`), against "never silently lost".
* A cancellation that is accepted while the worker is in `_kill` is not looked at any
  more (`jobs.py:290`): the job may end done, failed or timed out, against "always
  wins" (266-267), and `JobLifecycle` lets it. A worker in `_kill` swallows its own
  cancellation, so that `aclose()` waits for it for ever (`jobs.py:370`).
* A tap that arrives after the last clip was emitted, while it still plays, finds
  the turn complete with its whole text (`staged.py:371-378` against 383-385). So
  `CutRecordIsHeard` is about turns that are still open.
* `speak` frames in flight when the session itself confirms a barge-in are tagged
  with the new generation (`staged.py:298` against 70-72). So `AnswersItsOwnTurn` is
  about replies the client cuts.
* A `reply_end` without a count forgets chunks in synthesis (`staged.py:310`
  against 26-29); `EveryChunkAccounted` needs the count.
* A turn opened by an utterance may stay open when a late verdict resets what its
  reply is counted against (`staged.py:150-159`); `EveryTurnCompletes` is about typed
  turns.
* A handover drops what the old session still had queued (`routes_voice_ws.py:317`);
  if it does not suspend, the old pump labels what is left with the new engine's
  name (269).
* The governor ends a session in the middle of a turn (`routes_voice_ws.py:345`
  against 336-337).
* Renders in flight may outnumber `max_concurrent`, because a timed-out render
  keeps its thread (`jobs.py:293`).

Live interview:

* The hold looks only at sound that is still buffered; a fragment whose transcription is
  in flight does not hold the turn, and half a question is committed
  (`routes_ws.py:2398` against the comment at 2391-2398).
* Transcriptions that end out of order are joined in the order they end, not in the
  order spoken (`routes_ws.py:2645`).
* A guess that turns out right is committed before the fragment is added to the pending
  text; what was pending is committed as a question of its own.
* What turns out right is decided by similar words: a guess from one fragment may be
  shown as the answer to the final text of another, or to a merged question
  (`routes_ws.py:2613-2619`).
* Pending text can be left without a timer. An utterance corrects ("instead") and is a
  tail as well ("with ..."): its correction cancels the settle timers and leaves the
  buffered text, its continuation waits for a send; a guess made in between that has
  the words of the merged question takes the utterance, and nobody starts a timer until
  somebody speaks again (`routes_ws.py:2531-2541`, 2586-2641). `stranded` records it.
* A correction that cancels cancels the settle timer and leaves the buffered text; what
  is said next is joined to it.
* Two handlers that both find a continuation merge the same fragment twice, since the
  last question is replaced only after a send (`routes_ws.py:2599-2604`).
* A partial transcript that was already on its way when its fragment was judged
  starts a guess for nobody.
* A slot taken before the stream is given back only by the `finally` clause of the
  stream: the early returns at `routes_ws.py:1842-1849`, and a cancellation between
  1225 and 1875, keep it for the rest of the session (`decision.py:244-246` expects
  otherwise). `SlotsCoverAnswers` bounds the leak's effect, not the leak.
* A regenerated answer has a question id that the bus never saw: Stop does not find
  it. So has each later question of one utterance (`routes_ws.py:1111`), while Stop with
  the id of the first, already answered, cancels the one the task is on now.
* An answer cancelled while its done frame is being sent sends a second terminal frame,
  "cancelled" after "done" (`routes_ws.py:2162`, 2198).
* A resumed task is removed from the registry by the done callback of the task it
  replaced. A cancellation during detection leaves the bubble without a last
  frame.

Language models:

* `set_cooldown` overwrites (`ratelimit.py:124`): a short cooldown ends a day's
  quarantine. Its copies in the database are written and cleared by tasks nobody waits
  for (104), in any order.
* A refusal for rate counts as a hard failure of the model's breaker, against
  `health.py:51-54`; and a half-open breaker lets every turn probe, not one.
* Routes that this call itself has put aside count as throttled, so the loop waits for
  them (`engine.py:887`).
* After a stream that ended in garbage the wrapper reads the finish reason of an
  earlier attempt and may prompt for a continuation of it.
* "Always finishes" (`engine.py:712`) is up to the flag: with
  `mid_stream_continuation` off, the default, an error reaches the caller after shown
  bytes (732-738).

Chat turns and agents:

* An upload asks only the Stop flag, which the next turn clears: Stop and an immediate
  send lose the Stop (`routes_attachments.py:1053`). A text turn that is stopped while
  it awaits a fallback answer shows that answer whole, and goes on to its done frame
  (`routes_agents.py:2525-2543`); so does one stopped after its last piece, with what
  the coalescer holds (2504-2506) or the verdict on its code (2652-2654). Of three
  text turns the first can miss a Stop the same way if its scope was replaced.
* An upload commits the user's message (1017) before it claims the key (1901): a
  double tap leaves the question twice. If its generator never starts, the key
  stays held (1924).
* A read that fails after the commit makes the rescue save a second time
  (`routes_agents.py:3030-3033`, 3191). An upload that broke off and whose client
  leaves while the part it has shown is being saved saves it a second time
  (`routes_attachments.py:1558-1563`, 1861-1868). The answer that a disconnected turn
  saves by itself may land after the next question.
* What was shown is not saved when the client leaves during the keepalive, when the
  turn runs over its budget, or on Stop while an upload is verified, against the
  comment at `routes_agents.py:3171-3172`.
* `supervisor.py:431-432` says that a timeout cancels the stragglers; cancelling
  `run_p0_p1` cancels the agent it awaits and leaves the optional ones to their
  deadlines, with the turn's database session. A Stop or an exception in the middle of
  the stream leaves the scheduler running as well.
* `supervisor.py:453` says that the grounder runs concurrently with streaming; its
  input is written after the stream (413-417), and after an answer longer than the
  budget neither it nor the critic nor the suggester runs.
* A retriever that is disabled or fails never writes its slot; the loop polls to the
  deadline and the done frame waits for it.

## 9. What is not modelled

Within the modelled components: texts and their wording, audio data, STT status, voice
and speed of a chunk, timestamps and durations; in the runner, microphone frames, the
choice of the engine at the start, tool calls and truncation of the realtime engine,
prices, and a pump that ends on an exception of its session's events
(`routes_voice_ws.py:231`), so that `AnswersAreRecorded` is about pumps that wait, are
cancelled or fail a send; in the job manager, which attempt an answer of a render came
from (`InOneHand` and `Implements` would not notice a late one that was delivered with
the next attempt), the caller-supplied `job_id` (no caller passes one), event history
of a job, and the limit of the thread pool; in the live session, speaker roles, echoes
of the assistant, prepared answers, coaching; in failover, ranking, stickiness, the
degradation ladder, callers that do not stream, a client that leaves in the middle
(its turn is then `ChatTurns`'), and routes that cannot be tried for want of a
database or a key that can be decrypted; in chat turns, answers from a cache or a
patch (`routes_agents.py:2216-2275`), the ZIP fast path (2104-2163) and the hand-off
of an upload to the agent (`routes_attachments.py:1055-1096`), all of which send a
done frame even if nothing could be saved, so that `DoneIsSaved` is about turns a
model answers; the expiry of keys after ten minutes, and the replay ring; in the mesh,
tool chips, and the live and voice modes.

Not modelled, and planned: items 10 to 13 of section 2, and what items 5, 7 and 8
leave. Their hazards, which no property covers yet:

* `voice/realtime.py:336`: a clean close of the upstream ends the read loop without an
  error, and no handover follows until a send fails; 238: a tap's two sends
  interleave with the end of the response.
* `gpu/scheduler.py:119`: free memory is read and reserved in two critical sections.
* `sandbox/pool.py:94`: `close()` between the refiller's check and its put.
* `obs/resilience.py:85`: a turn admitted before the drain joins after it is over.
* `tasks/core.py:238`: rehydration makes every task RUNNING, whatever the cap and
  whoever paused it.
* `live/prepared.py:142`: answers prepared for a resume that is being replaced.
* `api/replay.py:54`: a client that reconnects late resumes behind a gap.
* `documents/jobs.py:183`: a `job_id` submitted twice is queued twice.

Not modelled, and not planned: prompt assembly, text classification, ranking,
rendering and parsing (sequential functions over large data), providers, storage
and model inference (external services), and telemetry.
