----------------------------- MODULE VoiceStaged -----------------------------
(***************************************************************************)
(* One staged voice session: class StagedSession of app/voice/staged.py.   *)
(*                                                                         *)
(* The client streams its reply as `speak` frames; each chunk is           *)
(* synthesized by a task of its own, at most SynthSlots of them at a time, *)
(* and the results pass through a reorder buffer that emits them in `seq`  *)
(* order.  A barge-in bumps the generation and closes the turn out.        *)
(*                                                                         *)
(* The session runs on one asyncio loop.  A handler suspends only where    *)
(* the model splits it: in the synthesis call (a task of `tasks` stays in  *)
(* "synth"), on the semaphore ("queued") and in the barge-in classifier    *)
(* (`judging`).  The event queue is unbounded and `_lock` is never held    *)
(* across a suspension, so everything else is one atomic step.             *)
(*                                                                         *)
(* Here the environment is any client whatever: every frame may come at    *)
(* any time.  VoiceTalk puts a client and its wire around the session.     *)
(***************************************************************************)
EXTENDS Naturals, Sequences, FiniteSets, SequencesExt

CONSTANTS Utterances,  \* what the user may say or type (the texts)
          Chunks,      \* the texts of the reply chunks
          MaxSeq,      \* bound: chunks of a reply are numbered 0 .. MaxSeq-1
          SynthSlots,  \* _SYNTH_CONCURRENCY
          MaxEvents,   \* bound: no call arrives once this many events are out
          None         \* Python's None, and the empty text

ASSUME StagedAssumption ==
    /\ MaxSeq \in Nat \ {0}
    /\ SynthSlots \in Nat \ {0}
    /\ MaxEvents \in Nat
    /\ None \notin Utterances
    /\ None \notin Nat

VARIABLES
    gen,        \* _gen: bumped on every confirmed interruption
    nextSeq,    \* _next_seq: the next seq to emit
    pending,    \* _pending: seq -> synthesized audio waiting for its turn
    failed,     \* _failed: seq -> a chunk with no audio (the gen it is of)
    emitted,    \* _emitted: AudioDelta events of this turn
    expected,   \* _expected: number of chunks, once the client ended the reply
    userText,   \* _user_text
    chunkText,  \* _chunk_text: seq -> text
    spoken,     \* _spoken_seqs, which is ascending: the set of them
    parts,      \* _assistant_parts: the set of them
    speaking,   \* _speaking: what the client reported of its playback
    tasks,      \* _tasks in creation order; the semaphore is FIFO
    judging,    \* utterances whose barge-in classification is in a thread
    out,        \* everything ever put on _events, in order
    closed      \* _closed

turnVars == <<nextSeq, pending, failed, emitted, expected, userText,
              chunkText, spoken, parts>>
vars == <<gen, turnVars, speaking, tasks, judging, out, closed>>

Seqs == 0 .. (MaxSeq - 1)

\* A synthesized clip: the text it says and the generation it was spoken in.
Audio == [chunk : Chunks, gen : Nat]

Task == [seq : Seqs, chunk : Chunks, gen : Nat, stage : {"queued", "synth"}]

\* The events the model keeps.  A "turn" is the final user transcript with the
\* PhaseChange(THINKING) that follows it, an "ack" the final transcript of a
\* backchannel, a "cut" the AudioDropped events of a barge-in with its
\* SpeechInterrupted and the generation it begins.
Event ==
    [kind : {"turn", "ack"}, user : Utterances]
      \cup [kind : {"chunk"}, chunk : Chunks]
      \cup [kind : {"audio"}, seq : Seqs, chunk : Chunks, gen : Nat]
      \cup [kind : {"dropped"}, seq : Seqs]
      \cup [kind : {"cut"}, seqs : SUBSET Seqs, gen : Nat]
      \cup [kind : {"complete"}, user : Utterances \cup {None},
            assistant : SUBSET Chunks, interrupted : BOOLEAN, chunks : Nat]

EmptyMap == [s \in {} |-> None]

Only(f, S) == [s \in S |-> f[s]]

Put(f, s, v) == [t \in DOMAIN f \cup {s} |-> IF t = s THEN v ELSE f[t]]

Init ==
    /\ gen = 0
    /\ nextSeq = 0
    /\ pending = EmptyMap
    /\ failed = EmptyMap
    /\ emitted = 0
    /\ expected = None
    /\ userText = None
    /\ chunkText = EmptyMap
    /\ spoken = {}
    /\ parts = {}
    /\ speaking = FALSE
    /\ tasks = <<>>
    /\ judging = {}
    /\ out = <<>>
    /\ closed = FALSE

\* The environment may still make a call: the session is open, and the bound on
\* the length of a behaviour is not reached.
Live == ~closed /\ Len(out) < MaxEvents

-----------------------------------------------------------------------------
(* The end of a turn. *)

(* Deliberate mistakes, which PROJECT.json substitutes for the definition they
   stand before to show what a property catches: the words of the turn or the
   emission position survive the turn. *)
ResetTurnKeepsUser ==
    /\ nextSeq' = 0
    /\ pending' = EmptyMap
    /\ failed' = EmptyMap
    /\ emitted' = 0
    /\ expected' = None
    /\ UNCHANGED userText
    /\ chunkText' = EmptyMap
    /\ spoken' = {}
    /\ parts' = {}

ResetTurnKeepsSeq ==
    /\ UNCHANGED nextSeq
    /\ pending' = EmptyMap
    /\ failed' = EmptyMap
    /\ emitted' = 0
    /\ expected' = None
    /\ userText' = None
    /\ chunkText' = EmptyMap
    /\ spoken' = {}
    /\ parts' = {}

\* _reset_turn
ResetTurn ==
    /\ nextSeq' = 0
    /\ pending' = EmptyMap
    /\ failed' = EmptyMap
    /\ emitted' = 0
    /\ expected' = None
    /\ userText' = None
    /\ chunkText' = EmptyMap
    /\ spoken' = {}
    /\ parts' = {}

\* _finish_turn: one TurnComplete, none for a turn in which nobody said anything
Finish(assistant, interrupted, chunks) ==
    IF userText = None /\ assistant = {}
    THEN <<>>
    ELSE <<[kind |-> "complete", user |-> userText, assistant |-> assistant,
            interrupted |-> interrupted, chunks |-> chunks]>>

-----------------------------------------------------------------------------
(* The reorder buffer. *)

\* The first seq from nextSeq on that is in neither map: where _drain stops.
FirstGap(ready) ==
    CHOOSE m \in nextSeq .. MaxSeq :
        m \notin ready /\ \A k \in nextSeq .. (m - 1) : k \in ready

\* What _drain emits for a seq: _pending is looked up before _failed.
Report(p, s) ==
    IF s \in DOMAIN p
    THEN [kind |-> "audio", seq |-> s, chunk |-> p[s].chunk, gen |-> p[s].gen]
    ELSE [kind |-> "dropped", seq |-> s]

Drained(p, gap) ==
    [i \in 1 .. (gap - nextSeq) |-> Report(p, nextSeq + i - 1)]

\* Mistake: the turn is complete one chunk early.
DrainEndsEarly(p, f, exp) ==
    LET gap  == FirstGap(DOMAIN p \cup DOMAIN f)
        run  == nextSeq .. (gap - 1)
        said == run \cap DOMAIN p
        p2   == Only(p, DOMAIN p \ run)
        f2   == Only(f, DOMAIN f \ (run \ DOMAIN p))
        n    == emitted + Cardinality(said)
        done == /\ exp # None
                /\ gap + 1 >= exp
                /\ DOMAIN p2 = {}
                /\ DOMAIN f2 = {}
    IN  \/ /\ done
           /\ out' = out \o Drained(p, gap) \o Finish(parts, FALSE, n)
           /\ ResetTurn
        \/ /\ ~done
           /\ out' = out \o Drained(p, gap)
           /\ nextSeq' = gap
           /\ pending' = p2
           /\ failed' = f2
           /\ emitted' = n
           /\ expected' = exp
           /\ spoken' = spoken \cup said
           /\ UNCHANGED <<userText, chunkText, parts>>

\* _drain and the _maybe_complete it ends with, for the buffer contents p and f
\* and the announced number of chunks exp.
Drain(p, f, exp) ==
    LET gap  == FirstGap(DOMAIN p \cup DOMAIN f)
        run  == nextSeq .. (gap - 1)
        said == run \cap DOMAIN p
        p2   == Only(p, DOMAIN p \ run)
        f2   == Only(f, DOMAIN f \ (run \ DOMAIN p))
        n    == emitted + Cardinality(said)
        done == /\ exp # None
                /\ gap >= exp
                /\ DOMAIN p2 = {}
                /\ DOMAIN f2 = {}
    IN  \/ /\ done
           /\ out' = out \o Drained(p, gap) \o Finish(parts, FALSE, n)
           /\ ResetTurn
        \/ /\ ~done
           /\ out' = out \o Drained(p, gap)
           /\ nextSeq' = gap
           /\ pending' = p2
           /\ failed' = f2
           /\ emitted' = n
           /\ expected' = exp
           /\ spoken' = spoken \cup said
           /\ UNCHANGED <<userText, chunkText, parts>>

-----------------------------------------------------------------------------
(* The client's frames. *)

\* speak: the chunk is tagged with the generation at its arrival
Speak(s, c) ==
    /\ Live
    /\ chunkText' = Put(chunkText, s, c)
    /\ parts' = parts \cup {c}
    /\ out' = Append(out, [kind |-> "chunk", chunk |-> c])
    /\ tasks' = Append(tasks, [seq |-> s, chunk |-> c, gen |-> gen,
                               stage |-> "queued"])
    /\ UNCHANGED <<gen, nextSeq, pending, failed, emitted, expected, userText,
                   spoken, speaking, judging, closed>>

\* reply_end: total is the client's count of chunks, or None
ReplyEnd(total) ==
    /\ Live
    /\ Drain(pending, failed,
             IF total # None THEN total
             ELSE nextSeq + Cardinality(DOMAIN pending)
                          + Cardinality(DOMAIN failed))
    /\ UNCHANGED <<gen, speaking, tasks, judging, closed>>

\* send_text: typed input takes the turn
SendText(u) ==
    /\ Live
    /\ userText' = u
    /\ out' = Append(out, [kind |-> "turn", user |-> u])
    /\ UNCHANGED <<gen, nextSeq, pending, failed, emitted, expected, chunkText,
                   spoken, parts, speaking, tasks, judging, closed>>

\* set_speaking
SetSpeaking(on) ==
    /\ Live
    /\ speaking # on
    /\ speaking' = on
    /\ UNCHANGED <<gen, turnVars, tasks, judging, out, closed>>

-----------------------------------------------------------------------------
(* Interruption. *)

\* Mistake: what was emitted is taken for what was heard.
HeardSeqsEmitted(heard) == spoken

\* _spoken_seqs[:heard]; with no chunk count from the client the list stands
HeardSeqs(heard) ==
    IF heard = None THEN spoken
    ELSE {s \in spoken : Cardinality({r \in spoken : r < s}) < heard}

\* The transcript of an interrupted turn: the text of what was heard.
HeardText(heard) ==
    {chunkText[s] : s \in HeardSeqs(heard) \cap DOMAIN chunkText}

\* The events of a barge-in, up to the TurnComplete it ends with.
CutEvents(heard) ==
    <<[kind |-> "cut", seqs |-> DOMAIN pending, gen |-> gen + 1]>>
        \o Finish(HeardText(heard), TRUE, emitted)

\* interrupt, from the client: heard is played_chunks, 0 when it reports that
\* nothing was played, None otherwise
Interrupt(heard) ==
    /\ Live
    /\ gen' = gen + 1
    /\ out' = out \o CutEvents(heard)
    /\ ResetTurn
    /\ UNCHANGED <<speaking, tasks, judging, closed>>

-----------------------------------------------------------------------------
(* The segmenter's callback, in its own task per utterance. *)

\* on_utterance up to the classifier.  Text the first-word gate or the speaker
\* gate turns away leaves no trace, so it is no step.
Utterance(u) ==
    /\ Live
    /\ u \notin judging
    /\ \/ /\ speaking
          /\ judging' = judging \cup {u}
          /\ UNCHANGED <<userText, out>>
       \/ /\ ~speaking
          /\ userText' = u
          /\ out' = Append(out, [kind |-> "turn", user |-> u])
          /\ UNCHANGED judging
    /\ UNCHANGED <<gen, nextSeq, pending, failed, emitted, expected, chunkText,
                   spoken, parts, speaking, tasks, closed>>

\* on_utterance after the classifier: an acknowledgement, which is shown ...
Backchannel(u) ==
    /\ ~closed
    /\ u \in judging
    /\ judging' = judging \ {u}
    /\ out' = Append(out, [kind |-> "ack", user |-> u])
    /\ UNCHANGED <<gen, turnVars, speaking, tasks, closed>>

\* ... an undecided verdict, or a speaker who may not interrupt ...
Undecided(u) ==
    /\ ~closed
    /\ u \in judging
    /\ judging' = judging \ {u}
    /\ userText' = u
    /\ out' = Append(out, [kind |-> "turn", user |-> u])
    /\ UNCHANGED <<gen, nextSeq, pending, failed, emitted, expected, chunkText,
                   spoken, parts, speaking, tasks, closed>>

\* ... or an interruption, whatever turn is under way by now.
BargeIn(u) ==
    /\ ~closed
    /\ u \in judging
    /\ judging' = judging \ {u}
    /\ gen' = gen + 1
    /\ nextSeq' = 0
    /\ pending' = EmptyMap
    /\ failed' = EmptyMap
    /\ emitted' = 0
    /\ expected' = None
    /\ userText' = u
    /\ chunkText' = EmptyMap
    /\ spoken' = {}
    /\ parts' = {}
    /\ out' = out \o CutEvents(None) \o <<[kind |-> "turn", user |-> u]>>
    /\ UNCHANGED <<speaking, tasks, closed>>

-----------------------------------------------------------------------------
(* Synthesis. *)

\* Task i may be the next through the semaphore: a slot is free and no earlier
\* task still queues.
HasSlot(i) ==
    /\ tasks[i].stage = "queued"
    /\ \A j \in 1 .. (i - 1) : tasks[j].stage # "queued"
    /\ Cardinality({j \in DOMAIN tasks : tasks[j].stage = "synth"}) < SynthSlots

\* _synth up to the synthesis call: a chunk of a stale generation goes no further
SynthStart(i) ==
    /\ HasSlot(i)
    /\ tasks' = IF tasks[i].gen # gen THEN RemoveAt(tasks, i)
                ELSE [tasks EXCEPT ![i].stage = "synth"]
    /\ UNCHANGED <<gen, turnVars, speaking, judging, out, closed>>

\* Mistake: a stale synthesis keeps its slot.
SynthStaleKeepsSlot(i) ==
    /\ tasks[i].stage = "synth"
    /\ tasks[i].gen # gen
    /\ UNCHANGED vars

\* _synth after the call, ok iff it produced audio (it may have timed out,
\* raised or come back empty), when the session was interrupted meanwhile
SynthStale(i) ==
    /\ tasks[i].stage = "synth"
    /\ tasks[i].gen # gen
    /\ tasks' = RemoveAt(tasks, i)
    /\ UNCHANGED <<gen, turnVars, speaking, judging, out, closed>>

\* Mistakes: the generation is not looked at again after the synthesis; a chunk
\* with no audio is forgotten.
SynthEndUnchecked(i, ok) ==
    /\ tasks[i].stage = "synth"
    /\ tasks' = RemoveAt(tasks, i)
    /\ IF ok
       THEN Drain(Put(pending, tasks[i].seq,
                      [chunk |-> tasks[i].chunk, gen |-> tasks[i].gen]),
                  failed, expected)
       ELSE Drain(pending, Put(failed, tasks[i].seq, tasks[i].gen), expected)
    /\ UNCHANGED <<gen, speaking, judging, closed>>

SynthEndForgets(i, ok) ==
    /\ tasks[i].stage = "synth"
    /\ tasks[i].gen = gen
    /\ tasks' = RemoveAt(tasks, i)
    /\ IF ok
       THEN Drain(Put(pending, tasks[i].seq,
                      [chunk |-> tasks[i].chunk, gen |-> tasks[i].gen]),
                  failed, expected)
       ELSE UNCHANGED <<turnVars, out>>
    /\ UNCHANGED <<gen, speaking, judging, closed>>

\* ... and when it was not: the result is buffered and the buffer drained
SynthEnd(i, ok) ==
    /\ tasks[i].stage = "synth"
    /\ tasks[i].gen = gen
    /\ tasks' = RemoveAt(tasks, i)
    /\ IF ok
       THEN Drain(Put(pending, tasks[i].seq,
                      [chunk |-> tasks[i].chunk, gen |-> tasks[i].gen]),
                  failed, expected)
       ELSE Drain(pending, Put(failed, tasks[i].seq, tasks[i].gen), expected)
    /\ UNCHANGED <<gen, speaking, judging, closed>>

\* close: every task is cancelled, and nothing is emitted any more
Close ==
    /\ ~closed
    /\ closed' = TRUE
    /\ tasks' = <<>>
    /\ UNCHANGED <<gen, turnVars, speaking, judging, out>>

-----------------------------------------------------------------------------

Frame ==
    \/ \E s \in Seqs, c \in Chunks : Speak(s, c)
    \/ \E total \in 0 .. MaxSeq \cup {None} : ReplyEnd(total)
    \/ \E u \in Utterances : SendText(u)
    \/ \E on \in BOOLEAN : SetSpeaking(on)
    \/ \E heard \in 0 .. MaxSeq \cup {None} : Interrupt(heard)

Mic ==
    \E u \in Utterances :
        Utterance(u) \/ Backchannel(u) \/ Undecided(u) \/ BargeIn(u)

Synthesis ==
    \E i \in DOMAIN tasks :
        SynthStart(i) \/ SynthStale(i) \/ \E ok \in BOOLEAN : SynthEnd(i, ok)

Next == Frame \/ Mic \/ Synthesis \/ Close

Spec == Init /\ [][Next]_vars

-----------------------------------------------------------------------------
(* What the session promises to any client. *)

TypeOK ==
    /\ gen \in Nat
    /\ nextSeq \in 0 .. MaxSeq
    /\ DOMAIN pending \subseteq Seqs /\ pending \in [DOMAIN pending -> Audio]
    /\ DOMAIN failed \subseteq Seqs /\ failed \in [DOMAIN failed -> Nat]
    /\ emitted \in Nat
    /\ expected \in Nat \cup {None}
    /\ userText \in Utterances \cup {None}
    /\ DOMAIN chunkText \subseteq Seqs
    /\ chunkText \in [DOMAIN chunkText -> Chunks]
    /\ spoken \subseteq Seqs
    /\ parts \subseteq Chunks
    /\ speaking \in BOOLEAN
    /\ tasks \in Seq(Task)
    /\ judging \subseteq Utterances
    /\ out \in Seq(Event)
    /\ closed \in BOOLEAN

\* "Bytes cannot outrun a barge-in" (Property 5): audio that comes out after an
\* interruption was spoken in the generation that interruption began, or a
\* later one, however long its synthesis took and whoever else was waiting.
StaleAudioNeverOut ==
    \A i, j \in DOMAIN out :
        (i < j /\ out[i].kind = "cut" /\ out[j].kind = "audio")
            => out[j].gen >= out[i].gen

\* The chunk before the one reported by event i was reported before it, in the
\* same turn and with nothing in between.
Follows(i) ==
    \E j \in 1 .. (i - 1) :
        /\ out[j].kind \in {"audio", "dropped"}
        /\ out[j].seq = out[i].seq - 1
        /\ \A k \in (j + 1) .. (i - 1) :
              out[k].kind \notin {"audio", "dropped", "cut", "complete"}

\* Ordered clip assembly (Property 2): whatever the order in which synthesis
\* ends, a chunk is played or reported lost right after its predecessor.
OrderedEmission ==
    \A i \in DOMAIN out :
        (out[i].kind \in {"audio", "dropped"} /\ out[i].seq > 0) => Follows(i)

\* Exactly one TurnComplete per turn (Property 3), the half that holds for any
\* client: between two of them somebody has spoken.
NoTurnCompletesTwice ==
    \A i, j \in DOMAIN out :
        (i < j /\ out[i].kind = "complete" /\ out[j].kind = "complete")
            => \E k \in (i + 1) .. (j - 1) : out[k].kind \in {"turn", "chunk"}

=============================================================================
