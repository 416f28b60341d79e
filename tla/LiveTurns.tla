------------------------------ MODULE LiveTurns ------------------------------
(***************************************************************************)
(* How the live interview turns speech into committed questions:           *)
(* app/audio/stream.py cuts the sound into fragments and transcribes each  *)
(* in a task of its own, app/live/hypothesis.py gathers the fragments of a *)
(* thinking speaker, and app/api/routes_ws.py decides when they are a      *)
(* question: a settle timer that holds while the speaker is talking, a     *)
(* speculative answer started from a partial transcript, a retroactive     *)
(* merge when the question was committed too early, and a correction that  *)
(* cancels what is in flight.                                              *)
(*                                                                         *)
(* Everything runs on one event loop: an action is the code between two    *)
(* awaits.  A fragment is its number in the order spoken, a text the       *)
(* sequence of the fragments in it; the wording rules are nondeterministic *)
(* choices: what reads as a tail, a correction or a complete question, and *)
(* which final text is similar enough (0.92) to the words of a guess.      *)
(* turn_taking, continuation_merge, interruption_handling and              *)
(* speculative_answers are on, as in config.example.yaml.                  *)
(***************************************************************************)
EXTENDS Integers, Sequences, FiniteSets, Functions

CONSTANTS
    NFragments,     \* bound: fragments the speaker utters
    NQuestions,     \* bound: question ids handed out
    NFrames,        \* bound: frames one answer produces
    MayOutlast,     \* may a fragment outlast the hold's deadline?
    None

ASSUME FragmentsAssumption == NFragments \in Nat \ {0} /\ NQuestions \in Nat \ {0}
ASSUME FramesAssumption == NFrames \in Nat \ {0}
ASSUME FlagAssumption == MayOutlast \in BOOLEAN
ASSUME NoneAssumption == None \notin Nat

Fragments == 1 .. NFragments
Questions == 1 .. NQuestions
Texts == Seq(Fragments)
Frames == Seq(1 .. NFrames)

VARIABLES
    connected,      \* the socket is open
    spoken,         \* fragments begun so far
    buffered,       \* the fragment whose sound the segmenter holds, or None
    partial,        \* the interim transcription task
    stt,            \* fragments whose final transcription is in flight
    handlers,       \* utterance handlers stopped at an await
    parts,          \* HypothesisBuffer.merged(): the pending text
    generation,     \* HypothesisBuffer._generation
    stranded,       \* pending fragments that no timer will commit, see Merged
    timers,         \* generations whose settle task is alive
    spec,           \* question id of the current speculation, or None
    last,           \* _last_commit: [qid, text], or None
    answers,        \* answers[q]: the answer task of question q
    dropped         \* fragments that never became a question, on purpose

vars == <<connected, spoken, buffered, partial, stt, handlers, parts, generation,
          stranded, timers, spec, last, answers, dropped>>

pending == <<parts, generation, stranded>>
hearing == <<connected, spoken, buffered, partial, stt>>

-----------------------------------------------------------------------------
(* Answers, done or cancelled alike once over.  text is the question that  *)
(* was committed with this id, <<>> as long as it is a guess; made counts   *)
(* the frames of a speculation, shown lists those the client was sent;     *)
(* live says its holder lets them through.                                 *)

Unused == [state |-> "unused", text |-> <<>>, guess |-> FALSE,
           live |-> FALSE, made |-> 0, shown |-> <<>>]
Asked == {q \in Questions : answers[q].state # "unused"}
Running(q) == answers[q].state = "running"
Spare == Asked # Questions
NewQid == CHOOSE q \in Questions : answers[q].state = "unused"
Started(text) == [Unused EXCEPT !.state = "running", !.text = text, !.live = TRUE]
Guessed == [Unused EXCEPT !.state = "running", !.guess = TRUE]

Cancelled(as, qs) ==
    [q \in Questions |->
        IF q \in qs /\ as[q].state = "running"
        THEN [as[q] EXCEPT !.state = "over"] ELSE as[q]]

\* A frame of a speculation that is not live yet stays in its holder.  An
\* ordinary answer is only asked and cancelled here: nothing in this part of
\* the code looks at its frames or its end.
Produce(q) ==
    /\ Running(q) /\ answers[q].guess /\ answers[q].made < NFrames
    /\ answers' = [answers EXCEPT ![q].made = @ + 1,
           ![q].shown = IF answers[q].live THEN Append(@, answers[q].made + 1) ELSE @]
    /\ UNCHANGED <<hearing, handlers, pending, timers, spec, last, dropped>>

Finish(q) ==
    /\ Running(q) /\ answers[q].guess /\ answers[q].made = NFrames
    /\ answers' = [answers EXCEPT ![q].state = "over"]
    /\ UNCHANGED <<hearing, handlers, pending, timers, spec, last, dropped>>

-----------------------------------------------------------------------------
(* The segmenter.                                                          *)

\* Voiced sound after silence opens a new fragment.
Speak ==
    /\ connected /\ buffered = None /\ spoken < NFragments
    /\ spoken' = spoken + 1 /\ buffered' = spoken + 1
    /\ UNCHANGED <<connected, partial, stt, handlers, pending, timers,
                   spec, last, answers, dropped>>

\* A snapshot of the growing fragment goes to the fast recognizer, one at a
\* time (bound: once per fragment).
SpawnPartial ==
    /\ connected /\ buffered # None /\ partial.at = "idle" /\ partial.frag # buffered
    /\ partial' = [frag |-> buffered, at |-> "stt"]
    /\ UNCHANGED <<connected, spoken, buffered, stt, handlers, pending,
                   timers, spec, last, answers, dropped>>

Idle == [partial EXCEPT !.at = "idle"]

\* The interim text is back: dropped when it failed, is empty, or the
\* fragment was finalized meanwhile (the generation check).
PartialHeard ==
    /\ partial.at = "stt"
    /\ \/ partial' = Idle
       \/ buffered = partial.frag /\ partial' = [partial EXCEPT !.at = "send"]
    /\ UNCHANGED <<connected, spoken, buffered, stt, handlers, pending,
                   timers, spec, last, answers, dropped>>

\* An answer whose frames are buffered takes the place of the last guess.
Speculate ==
    /\ Spare
    /\ spec' = NewQid
    /\ answers' = [Cancelled(answers, {spec}) EXCEPT ![NewQid] = Guessed]

\* _on_partial after its send: nothing for a text that is not worth a guess,
\* or has the words of the one that runs.
PartialSent ==
    /\ partial.at = "send"
    /\ partial' = Idle
    /\ \/ UNCHANGED <<spec, answers>>
       \/ connected /\ Speculate
    /\ UNCHANGED <<connected, spoken, buffered, stt, handlers, pending,
                   timers, last, dropped>>

\* The endpoint: the buffer is reset under the lock and a transcription task
\* spawned; nothing orders the tasks of successive fragments.
Finalize ==
    /\ connected /\ buffered # None
    /\ stt' = stt \cup {buffered} /\ buffered' = None
    /\ UNCHANGED <<connected, spoken, partial, handlers, pending, timers,
                   spec, last, answers, dropped>>

\* The recognizer failed or heard no words: a status frame, nothing else.
NotUnderstood(f) ==
    /\ f \in stt
    /\ stt' = stt \ {f} /\ dropped' = dropped \cup {f}
    /\ UNCHANGED <<connected, spoken, buffered, partial, handlers, pending,
                   timers, spec, last, answers>>

-----------------------------------------------------------------------------
(* handle_utterance: from its last await before it touches the turn.  The  *)
(* operators below take what the statements before them left behind: cur,  *)
(* the current speculation; as, the answers; ts, the settle tasks.         *)

\* A bug: the settle task is created before the generation moves on.
JoinStale(text, ts) ==
    /\ parts' = parts \o text /\ stranded' = {}
    /\ generation' = generation + 1
    /\ timers' = (ts \ {generation}) \cup {generation}

\* The text joins the pending turn: the generation moves on and the newest
\* settle task is cancelled and replaced.
Join(text, ts) ==
    /\ parts' = parts \o text /\ stranded' = {}
    /\ generation' = generation + 1
    /\ timers' = (ts \ {generation}) \cup {generation + 1}

\* A bug: the speculation is forgotten only after the flush.
GuessRightLate(f, text, cur, as, ts, left, others) ==
    /\ cur # None
    /\ spec' = cur
    /\ answers' = [as EXCEPT ![cur].text = text]
    /\ last' = [qid |-> cur, text |-> text]
    /\ handlers' = others \cup {[frag |-> f, text |-> text, at |-> "flush",
                                 qid |-> cur, sent |-> 0]}
    /\ timers' = ts /\ stranded' = left
    /\ UNCHANGED <<parts, generation>>

\* The words are those of the guess, or close to them: the guess becomes the
\* answer of this text, finished or not, whatever fragment it was made from.
GuessRight(f, text, cur, as, ts, left, others) ==
    /\ cur # None
    /\ spec' = None
    /\ answers' = [as EXCEPT ![cur].text = text]
    /\ last' = [qid |-> cur, text |-> text]
    /\ handlers' = others \cup {[frag |-> f, text |-> text, at |-> "flush",
                                 qid |-> cur, sent |-> 0]}
    /\ timers' = ts /\ stranded' = left
    /\ UNCHANGED <<parts, generation>>

\* A bug: the utterance goes with the guess it does not match.
GuessWrongForgets(text, cur, as, ts, commit, others) ==
    /\ spec' = None /\ answers' = Cancelled(as, {cur})
    /\ last' = commit
    /\ handlers' = others
    /\ UNCHANGED pending /\ timers' = ts

\* No guess, or other words: it is cancelled and the text is pending.
GuessWrong(text, cur, as, ts, commit, others) ==
    /\ spec' = None /\ answers' = Cancelled(as, {cur})
    /\ last' = commit
    /\ handlers' = others
    /\ Join(text, ts)

\* A suppressed utterance (feedback, rhetorical): no question, no speculation.
Suppressed(f) ==
    /\ connected /\ f \in stt
    /\ stt' = stt \ {f} /\ dropped' = dropped \cup {f}
    /\ spec' = None /\ answers' = Cancelled(answers, {spec})
    /\ UNCHANGED <<connected, spoken, buffered, partial, handlers, pending,
                   timers, last>>

\* Speech that reads as the tail of the last commit: that answer is cancelled,
\* and the handler waits for its meta frame to be sent.
Continues(f, as, ts) ==
    /\ last # None
    /\ handlers' = handlers \cup {[frag |-> f, text |-> last.text \o <<f>>,
                                   at |-> "merge", qid |-> last.qid, sent |-> 0]}
    /\ spec' = None
    /\ answers' = Cancelled(as, {last.qid, spec})
    /\ timers' = ts
    /\ UNCHANGED <<last, pending>>

\* A correction first cancels the speculation, every answer and every settle
\* task; the pending parts stay.
Understood(f, correction) ==
    LET cur == IF correction THEN None ELSE spec
        as  == IF correction THEN Cancelled(answers, Questions) ELSE answers
        ts  == IF correction THEN {} ELSE timers
    IN  /\ connected /\ f \in stt
        /\ stt' = stt \ {f}
        /\ \/ Continues(f, as, ts)
           \/ GuessRight(f, <<f>>, cur, as, ts, stranded, handlers)
           \/ GuessWrong(<<f>>, cur, as, ts, last, handlers)
        /\ UNCHANGED <<connected, spoken, buffered, partial, dropped>>

\* The meta frame is out: the commit is used up, whichever it now is.  If the
\* handler was a correction as well and a guess made meanwhile has the words of
\* the merged question, then what was pending is left without the timer that
\* the correction cancelled, until somebody speaks again: it is stranded.
Untimed == IF generation \in timers THEN {} ELSE Range(parts)
Merged(h) ==
    /\ h.at = "merge"
    /\ LET others == handlers \ {h}
       IN  \/ GuessRight(h.frag, h.text, spec, answers, timers, Untimed, others)
           \/ GuessWrong(h.text, spec, answers, timers, None, others)
    /\ UNCHANGED <<hearing, dropped>>

\* The buffered frames go out one await at a time; when none is left the
\* speculation streams live.
Flush(h) ==
    /\ h.at = "flush" /\ h.sent < answers[h.qid].made
    /\ answers' = [answers EXCEPT ![h.qid].shown = Append(@, h.sent + 1)]
    /\ handlers' = (handlers \ {h}) \cup {[h EXCEPT !.sent = @ + 1]}
    /\ UNCHANGED <<hearing, pending, timers, spec, last, dropped>>

\* A bug: the holder is opened before the last buffered frames are sent.
FlushedEarly(h) ==
    /\ h.at = "flush" /\ h.sent > 0
    /\ answers' = [answers EXCEPT ![h.qid].live = TRUE]
    /\ handlers' = handlers \ {h}
    /\ UNCHANGED <<hearing, pending, timers, spec, last, dropped>>

Flushed(h) ==
    /\ h.at = "flush" /\ h.sent = answers[h.qid].made
    /\ answers' = [answers EXCEPT ![h.qid].live = TRUE]
    /\ handlers' = handlers \ {h}
    /\ UNCHANGED <<hearing, pending, timers, spec, last, dropped>>

-----------------------------------------------------------------------------
(* _settle_then_answer: the window has passed and the segmenter holds no   *)
(* sound, or the hold has lasted to its deadline.                          *)

Held == buffered # None /\ ~MayOutlast
Superseded(g) == g # generation
Settle(g) ==
    /\ g \in timers /\ ~Held
    /\ timers' = timers \ {g}
    /\ IF Superseded(g) \/ parts = <<>>
       THEN UNCHANGED <<parts, answers, last>>
       ELSE /\ Spare
            /\ parts' = <<>>
            /\ answers' = [answers EXCEPT ![NewQid] = Started(parts)]
            /\ last' = [qid |-> NewQid, text |-> parts]
    /\ UNCHANGED <<hearing, handlers, generation, stranded, spec, dropped>>

\* The socket is gone: the answer and settle tasks are cancelled, then the
\* segmenter's tasks, the handlers among them; the turn dies with its socket (a
\* handler that slips in between starts an answer whose first send fails).
Disconnect ==
    /\ connected /\ connected' = FALSE
    /\ answers' = Cancelled(answers, Questions)
    /\ timers' = {} /\ handlers' = {} /\ stt' = {} /\ buffered' = None
    /\ parts' = <<>> /\ stranded' = {} /\ spec' = None /\ last' = None
    /\ UNCHANGED <<spoken, partial, generation, dropped>>

-----------------------------------------------------------------------------
Init ==
    /\ connected = TRUE /\ spoken = 0 /\ buffered = None
    /\ partial = [frag |-> 0, at |-> "idle"]
    /\ stt = {} /\ handlers = {} /\ dropped = {}
    /\ parts = <<>> /\ generation = 0 /\ stranded = {} /\ timers = {}
    /\ spec = None /\ last = None
    /\ answers = [q \in Questions |-> Unused]

Handle(h) == Merged(h) \/ Flush(h) \/ Flushed(h)
Transcribed(f) ==
    NotUnderstood(f) \/ Suppressed(f) \/ \E correction \in BOOLEAN : Understood(f, correction)
Answer(q) == Produce(q) \/ Finish(q)
Next ==
    \/ Speak \/ SpawnPartial \/ PartialHeard \/ PartialSent \/ Finalize \/ Disconnect
    \/ \E f \in Fragments : Transcribed(f)
    \/ \E h \in handlers : Handle(h)
    \/ \E g \in 1 .. NFragments : Settle(g)
    \/ \E q \in Questions : Answer(q)

Spec == Init /\ [][Next]_vars

\* The recognizer is bounded by its timeouts, sends and sleeps end, an answer
\* has a time budget, and a fragment is force-ended at max_utterance_ms.
Fairness ==
    /\ WF_vars(Finalize) /\ WF_vars(PartialHeard) /\ WF_vars(PartialSent)
    /\ \A f \in Fragments : WF_vars(Transcribed(f))
    /\ WF_vars(\E h \in handlers : Handle(h))
    /\ \A g \in 1 .. NFragments : WF_vars(Settle(g))
    /\ \A q \in Questions : WF_vars(Answer(q))
FairSpec == Spec /\ Fairness

-----------------------------------------------------------------------------
AnswerRecord == [state : {"unused", "running", "over"}, text : Texts, guess : BOOLEAN,
                 live : BOOLEAN, made : 0 .. NFrames, shown : Frames]
HandlerRecord == [frag : Fragments, text : Texts, at : {"merge", "flush"},
                  qid : Questions, sent : 0 .. NFrames]
TypeOK ==
    /\ connected \in BOOLEAN /\ spoken \in 0 .. NFragments
    /\ buffered \in Fragments \cup {None}
    /\ partial \in [frag : 0 .. NFragments, at : {"idle", "stt", "send"}]
    /\ partial.at # "idle" => partial.frag \in Fragments
    /\ stt \subseteq Fragments /\ dropped \subseteq Fragments
    /\ handlers \subseteq HandlerRecord
    /\ parts \in Texts /\ generation \in Nat /\ stranded \subseteq Fragments
    /\ timers \subseteq Nat
    /\ spec \in Questions \cup {None}
    /\ last = None \/ last \in [qid : Questions, text : Texts]
    /\ answers \in [Questions -> AnswerRecord]

\* Text waiting for the end of the turn always has the timer that will commit
\* it, or a handler that is about to add to it and start one: no order of
\* corrections, merges and speculations strands a question (routes_ws.py
\* 2378-2414, 2512-2673), except the one that Merged records.
PendingTextHasTimer ==
    (connected /\ parts # <<>>) =>
        \/ generation \in timers \/ \E h \in handlers : h.at = "merge"
        \/ stranded = Range(parts)

\* Whatever streams while a speculation is flushed, the client sees the frames
\* of every answer in the order they were produced, without a gap, and none is
\* left in the holder once the answer is live (routes_ws.py:2616-2626).
FramesInOrder ==
    \A q \in Asked :
        /\ answers[q].shown = [i \in 1 .. Len(answers[q].shown) |-> i]
        /\ answers[q].live => Len(answers[q].shown) = answers[q].made

\* A guess that was given up shows nothing: its frames reach the client only
\* after a final text was committed with its question id, every fragment of
\* that text recognized, and from then on no later speech can take it back as
\* a guess (routes_ws.py:2613-2641).
Heard == (1 .. spoken) \ (stt \cup dropped \cup {buffered})
GuessShownOnlyIfHeard ==
    \A q \in Asked : (answers[q].guess /\ (answers[q].shown # <<>> \/ answers[q].live)) =>
        /\ answers[q].text # <<>> /\ Range(answers[q].text) \subseteq Heard
        /\ spec # q

\* Every fragment that was recognized ends in a committed question or is
\* dropped on purpose, unless the socket closes: a guess that was cancelled
\* answers for nothing.  What is stranded waits for the next utterance.
Accounted(f) ==
    f \in dropped \cup stranded \/ \E q \in Asked : f \in Range(answers[q].text)
EveryFragmentAnswered ==
    []<>(connected => \A f \in 1 .. spoken : Accounted(f))

=============================================================================
