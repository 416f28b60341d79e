----------------------------- MODULE VoiceRunner -----------------------------
(***************************************************************************)
(* One voice socket: class VoiceSessionRunner of app/api/routes_voice_ws.py *)
(* with the turn, metering and failure path of the realtime session it     *)
(* hands over from (app/voice/realtime.py), its turn ledger                *)
(* (app/voice/engine.py) and the transcript it leaves (transcript.py).     *)
(*                                                                         *)
(* Four asyncio tasks share the runner: the reader of the client socket,   *)
(* which also tears down; a pump per engine session, which forwards that   *)
(* session's events; the governor of a metered session; and the realtime   *)
(* session's own reader of the upstream socket.  A task is interleaved     *)
(* where it suspends: on the event queue, on the send lock and the client  *)
(* socket, in the governor's sleep, and in the close of the old session.   *)
(*                                                                         *)
(* Task.cancel() of a suspended task ends it at that suspension.  Of the   *)
(* RUNNING task it takes effect at the next suspension: a handover always  *)
(* cancels the task it runs in, so whether it gets any further depends on  *)
(* whether closing the upstream socket suspends.                           *)
(*                                                                         *)
(* What the turns say is abstracted to their number in the order in which  *)
(* they were answered, and what a response costs to one unit.              *)
(***************************************************************************)
EXTENDS Integers, Sequences

CONSTANTS MaxTurns,   \* bound: turns answered in a behaviour
          MaxErrors   \* bound: failures of the upstream, or of sends to it

ASSUME RunnerAssumption == MaxTurns \in Nat /\ MaxErrors \in Nat

Engines == {"realtime", "staged"}

\* The tasks the runner creates: a pump per session, named for its engine.
Tasks == Engines \cup {"governor"}

VARIABLES
    engine,     \* _engine_name
    session,    \* _session: whose session the runner holds
    open,       \* what became of each session
    upstream,   \* the read loop of the realtime session still runs
    heard,      \* the realtime session holds user words of an unanswered turn
    queue,      \* the event queue of each session
    pc,         \* where each task is suspended
    held,       \* _pump and _governor: the tasks the runner refers to
    cancelled,  \* tasks with a cancellation to be delivered
    wire,       \* _send_lock: its holder, then who waits for it
    reader,     \* how far run() is
    ledger,     \* _ledger.turns
    chat,       \* the turns in the chat thread, whoever wrote them
    saved,      \* the outcome of persist_ledger
    answered,   \* the turns that took place: the engine that answered each
    told,       \* engine_switch frames the client received
    used,       \* usage the upstream reported
    spend,      \* the spend ledger of budget.py
    failures    \* failures so far (for the bound)

vars == <<engine, session, open, upstream, heard, queue, pc, held, cancelled,
          wire, reader, ledger, chat, saved, answered, told, used, spend,
          failures>>

Turns == 1 .. MaxTurns

\* The events that change anything in the runner; "end" is the None that ends
\* the stream of a closed session.
Complete == [kind : {"complete"}, turn : Turns]
Event == Complete \cup [kind : {"usage", "error", "end"}]

Record == [turn : Turns, engine : Engines]

\* What there is of S in a sequence, in its order (SelectSeq, in a form the
\* prover can expand).
Kept(seq, S) ==
    LET kept[i \in 0 .. Len(seq)] ==
            IF i = 0 THEN <<>>
            ELSE IF seq[i] \in S THEN Append(kept[i - 1], seq[i]) ELSE kept[i - 1]
    IN  kept[Len(seq)]

\* run() up to _read_client: the session is open, the pump runs, and a metered
\* session has its governor.
Init ==
    /\ engine \in Engines
    /\ session = engine
    /\ open = [e \in Engines |-> IF e = engine THEN "open" ELSE "no"]
    /\ upstream = (engine = "realtime")
    /\ heard = FALSE
    /\ queue = [e \in Engines |-> <<>>]
    /\ held = IF engine = "realtime" THEN {"realtime", "governor"} ELSE {"staged"}
    /\ pc = [t \in Tasks |-> IF t \notin held THEN "none"
                             ELSE IF t = "governor" THEN "sleep" ELSE "get"]
    /\ cancelled = {}
    /\ wire = <<>>
    /\ reader = "reading"
    /\ ledger = <<>>
    /\ chat = <<>>
    /\ saved = "no"
    /\ answered = <<>>
    /\ told = 0
    /\ used = 0
    /\ spend = 0
    /\ failures = 0

runnerVars == <<engine, session, pc, held, cancelled, wire, reader, ledger, told>>
chatVars   == <<chat, saved>>

Emit(e, events) == queue' = [queue EXCEPT ![e] = @ \o events]

-----------------------------------------------------------------------------
(* The realtime session: what its read loop makes of the upstream. *)

\* The upstream heard the user: input_audio_transcription.completed.
Heard ==
    /\ open["realtime"] = "open" /\ upstream
    /\ ~heard
    /\ Len(answered) < MaxTurns
    /\ heard' = TRUE
    /\ UNCHANGED <<runnerVars, chatVars, open, upstream, queue, answered, used,
                   spend, failures>>

\* Mistake: the words of the turn are not dropped with it.
AnsweredAgain(metered) ==
    LET turn == [kind |-> "complete", turn |-> Len(answered) + 1]
    IN  /\ open["realtime"] = "open" /\ upstream
        /\ heard
        /\ answered' = Append(answered, "realtime")
        /\ \/ /\ metered
              /\ used' = used + 1
              /\ spend' = spend + 1
              /\ Emit("realtime", <<[kind |-> "usage"], turn>>)
           \/ /\ ~metered
              /\ UNCHANGED <<used, spend>>
              /\ Emit("realtime", <<turn>>)
        /\ UNCHANGED <<runnerVars, chatVars, open, upstream, heard, failures>>

\* response.done: _meter_response, when the response says what it cost, which
\* writes the spend through before it reports it, and _finish_turn.
Answered(metered) ==
    LET turn == [kind |-> "complete", turn |-> Len(answered) + 1]
    IN  /\ open["realtime"] = "open" /\ upstream
        /\ heard
        /\ heard' = FALSE
        /\ answered' = Append(answered, "realtime")
        /\ \/ /\ metered
              /\ used' = used + 1
              /\ spend' = spend + 1
              /\ Emit("realtime", <<[kind |-> "usage"], turn>>)
           \/ /\ ~metered
              /\ UNCHANGED <<used, spend>>
              /\ Emit("realtime", <<turn>>)
        /\ UNCHANGED <<runnerVars, chatVars, open, upstream, failures>>

\* An error event, or a send of the reader's that fails: the session goes on.
Fails ==
    /\ open["realtime"] = "open"
    /\ failures < MaxErrors
    /\ failures' = failures + 1
    /\ Emit("realtime", <<[kind |-> "error"]>>)
    /\ UNCHANGED <<runnerVars, chatVars, open, upstream, heard, answered, used,
                   spend>>

\* The upstream socket closes.  A clean close ends the read loop silently.
UpstreamEnds(clean) ==
    /\ open["realtime"] = "open" /\ upstream
    /\ failures < MaxErrors
    /\ failures' = failures + 1
    /\ upstream' = FALSE
    /\ Emit("realtime", IF clean THEN <<>> ELSE <<[kind |-> "error"]>>)
    /\ UNCHANGED <<runnerVars, chatVars, open, heard, answered, used, spend>>

\* A turn under the staged engine: the client runs it through its chat pipeline,
\* which writes both bubbles, and the session reports it complete.
StagedTurn ==
    /\ session = "staged" /\ open["staged"] = "open"
    /\ reader = "reading"
    /\ Len(answered) < MaxTurns
    /\ answered' = Append(answered, "staged")
    /\ chat' = Append(chat, Len(answered) + 1)
    /\ Emit("staged", <<[kind |-> "complete", turn |-> Len(answered) + 1]>>)
    /\ UNCHANGED <<runnerVars, saved, open, upstream, heard, used, spend,
                   failures>>

-----------------------------------------------------------------------------
(* The pump. *)

\* The ledger entries that forwarding these events makes, under the name the
\* engine has by then.
Recorded(events, name) ==
    LET turns == Kept(events, Complete)
    IN  [i \in DOMAIN turns |-> [turn |-> turns[i].turn, engine |-> name]]

\* What the runner's own meter adds for them.
Metered(events) == Len(Kept(events, [kind : {"usage"}]))

\* _handover up to its first suspension.
Begin(t) ==
    /\ reader = "reading"
    /\ engine = "realtime"
    /\ pc' = [pc EXCEPT ![t] = "switch"]
    /\ wire' = Append(wire, t)

\* _forward, up to the frame it sends
Forward(e) ==
    /\ pc[e] = "get" /\ e \notin cancelled
    /\ queue[e] # <<>>
    /\ queue' = [queue EXCEPT ![e] = Tail(@)]
    /\ ledger' = ledger \o Recorded(<<Head(queue[e])>>, engine)
    /\ spend' = spend + Metered(<<Head(queue[e])>>)
    /\ LET kind == Head(queue[e]).kind
       IN  \/ /\ kind \in {"complete", "usage"}
              /\ pc' = [pc EXCEPT ![e] = "send"]
              /\ wire' = Append(wire, e)
           \/ /\ kind = "error"
              /\ Begin(e)
           \/ /\ kind = "end"
              /\ pc' = [pc EXCEPT ![e] = "over"]
              /\ UNCHANGED wire
    /\ UNCHANGED <<engine, session, open, upstream, heard, held, cancelled,
                   reader, chatVars, answered, told, used, failures>>

\* Mistake: the pump does not survive a frame.
SentAndOver(e) ==
    /\ pc[e] = "send" /\ e \notin cancelled
    /\ wire # <<>> /\ Head(wire) = e
    /\ wire' = Tail(wire)
    /\ pc' = [pc EXCEPT ![e] = "over"]
    /\ UNCHANGED <<engine, session, open, upstream, heard, queue, held, cancelled,
                   reader, ledger, chatVars, answered, told, used, spend, failures>>

\* The frame is out, or failed: _send_json swallows that.
Sent(e) ==
    /\ pc[e] = "send" /\ e \notin cancelled
    /\ wire # <<>> /\ Head(wire) = e
    /\ wire' = Tail(wire)
    /\ pc' = [pc EXCEPT ![e] = "get"]
    /\ UNCHANGED <<engine, session, open, upstream, heard, queue, held, cancelled,
                   reader, ledger, chatVars, answered, told, used, spend, failures>>

\* A cancelled task ends where it is suspended, and leaves the lock.
Die(t) ==
    /\ t \in cancelled
    /\ pc[t] \in {"get", "send", "switch", "closing", "sleep"}
    /\ pc' = [pc EXCEPT ![t] = "over"]
    /\ wire' = Kept(wire, Tasks \ {t})
    /\ UNCHANGED <<engine, session, open, upstream, heard, queue, held, cancelled,
                   reader, ledger, chatVars, answered, told, used, spend, failures>>

-----------------------------------------------------------------------------
(* The handover. *)

\* The governor finds the session over its time cap, or the budget exhausted.
\* The cap is wall-clock time, so it may be reached at any tick.
Govern ==
    /\ pc["governor"] = "sleep" /\ "governor" \notin cancelled
    /\ session # "none"
    /\ Begin("governor")
    /\ UNCHANGED <<engine, session, open, upstream, heard, queue, held, cancelled,
                   reader, ledger, chatVars, answered, told, used, spend, failures>>

\* The engine_switch frame is out, and t goes on with the handover.
SwitchSent(t) ==
    /\ pc[t] = "switch" /\ t \notin cancelled
    /\ wire # <<>> /\ Head(wire) = t
    /\ wire' = Tail(wire)
    /\ told' = told + 1

\* old.close(), up to its suspension
CloseOld(old) ==
    [e \in Engines |-> IF e = old THEN "closed" ELSE open[e]]

\* The rest of _handover when closing the old session suspends.  Both tasks the
\* runner refers to are cancelled by now, and t is one of them.
Interrupted(t) ==
    /\ SwitchSent(t)
    /\ cancelled' = cancelled \cup held
    /\ held' = {}
    /\ session' = "none"
    /\ open' = CloseOld(session)
    /\ pc' = [pc EXCEPT ![t] = "closing"]
    /\ UNCHANGED <<engine, upstream, heard, queue, reader, ledger, chatVars,
                   answered, used, spend, failures>>

\* Mistakes: the governor, or the pump, is not cancelled.
HandOverKeepsGovernor(t, k) ==
    /\ SwitchSent(t)
    /\ cancelled' = cancelled \cup (held \cap Engines)
    /\ held' = {"staged"}
    /\ session' = "staged"
    /\ engine' = "staged"
    /\ open' = [CloseOld(session) EXCEPT !["staged"] = "open"]
    /\ pc' = [pc EXCEPT ![t] = "over", !["staged"] = "get"]
    /\ LET rest == SubSeq(queue["realtime"], 1, k)
       IN  /\ ledger' = ledger \o Recorded(rest, "staged")
           /\ spend' = spend + Metered(rest)
    /\ queue' = [queue EXCEPT !["realtime"] = SubSeq(@, k + 1, Len(@))]
    /\ UNCHANGED <<upstream, heard, reader, chatVars, answered, used, failures>>

HandOverKeepsPump(t, k) ==
    /\ SwitchSent(t)
    /\ cancelled' = cancelled \cup (held \ Engines)
    /\ held' = {"staged"}
    /\ session' = "staged"
    /\ engine' = "staged"
    /\ open' = [CloseOld(session) EXCEPT !["staged"] = "open"]
    /\ pc' = [pc EXCEPT ![t] = IF t = "governor" THEN "over" ELSE "get",
                        !["staged"] = "get"]
    /\ UNCHANGED <<upstream, heard, queue, reader, ledger, chatVars, answered,
                   used, spend, failures>>

\* The rest of _handover when it does not suspend: the staged session opens with
\* its pump, and t ends at its next suspension.  If t is the old pump and finds
\* more events in its queue, it forwards k of them before it suspends.
HandOver(t, k) ==
    /\ SwitchSent(t)
    /\ cancelled' = cancelled \cup held
    /\ held' = {"staged"}
    /\ session' = "staged"
    /\ engine' = "staged"
    /\ open' = [CloseOld(session) EXCEPT !["staged"] = "open"]
    /\ pc' = [pc EXCEPT ![t] = "over", !["staged"] = "get"]
    /\ LET rest == SubSeq(queue["realtime"], 1, k)
       IN  /\ ledger' = ledger \o Recorded(rest, "staged")
           /\ spend' = spend + Metered(rest)
    /\ queue' = [queue EXCEPT !["realtime"] = SubSeq(@, k + 1, Len(@))]
    /\ UNCHANGED <<upstream, heard, reader, chatVars, answered, used, failures>>

-----------------------------------------------------------------------------
(* The end of the session. *)

\* Mistake: only the pump is cancelled.
DisconnectKeepsGovernor ==
    /\ reader = "reading"
    /\ reader' = "flushing"
    /\ cancelled' = cancelled \cup (held \cap Engines)
    /\ UNCHANGED <<engine, session, open, upstream, heard, queue, pc, held, wire,
                   ledger, chatVars, answered, told, used, spend, failures>>

\* The client leaves, or says stop: _teardown up to the segmenter's flush.
Disconnect ==
    /\ reader = "reading"
    /\ reader' = "flushing"
    /\ cancelled' = cancelled \cup held
    /\ UNCHANGED <<engine, session, open, upstream, heard, queue, pc, held, wire,
                   ledger, chatVars, answered, told, used, spend, failures>>

\* ... then it closes the session it holds ...
CloseSession ==
    /\ reader = "flushing"
    /\ reader' = "closed"
    /\ open' = CloseOld(session)
    /\ queue' = [e \in Engines |->
                    IF e = session THEN Append(queue[e], [kind |-> "end"])
                    ELSE queue[e]]
    /\ UNCHANGED <<engine, session, upstream, heard, pc, held, cancelled, wire,
                   ledger, chatVars, answered, told, used, spend, failures>>

\* Mistake: nobody asks who has written the turn already.
PendingAll == [i \in DOMAIN ledger |-> ledger[i].turn]

\* transcript.pending: the turns the client has not written
Pending ==
    LET todo == Kept(ledger, [turn : Turns, engine : Engines \ {"staged"}])
    IN  [i \in DOMAIN todo |-> todo[i].turn]

\* ... and writes the transcript, which may fail and then writes nothing.
Persist(ok) ==
    /\ reader = "closed"
    /\ reader' = "done"
    /\ saved' = IF ok THEN "yes" ELSE "failed"
    /\ chat' = IF ok THEN chat \o Pending ELSE chat
    /\ UNCHANGED <<engine, session, open, upstream, heard, queue, pc, held,
                   cancelled, wire, ledger, answered, told, used, spend, failures>>

-----------------------------------------------------------------------------

HandoverStep(t) ==
    \/ Interrupted(t)
    \/ \E k \in 0 .. (IF t = "realtime" THEN Len(queue["realtime"]) ELSE 0) :
          HandOver(t, k)

Upstream ==
    \/ Heard
    \/ \E metered \in BOOLEAN : Answered(metered)
    \/ Fails
    \/ \E clean \in BOOLEAN : UpstreamEnds(clean)

Pump(e) == Forward(e) \/ Sent(e)

Teardown == Disconnect \/ CloseSession \/ \E ok \in BOOLEAN : Persist(ok)

Next ==
    \/ Upstream
    \/ StagedTurn
    \/ \E e \in Engines : Pump(e)
    \/ Govern
    \/ \E t \in {"realtime", "governor"} : HandoverStep(t)
    \/ \E t \in Tasks : Die(t)
    \/ Teardown

Spec == Init /\ [][Next]_vars

\* The loop runs a task that is ready, and the client's socket takes frames.
FairSpec ==
    /\ Spec
    /\ \A e \in Engines : WF_vars(Pump(e))
    /\ \A t \in Tasks : WF_vars(Die(t))
    /\ WF_vars(HandoverStep("realtime")) /\ WF_vars(HandoverStep("governor"))

-----------------------------------------------------------------------------
(* What the runner promises. *)

TypeOK ==
    /\ engine \in Engines
    /\ session \in Engines \cup {"none"}
    /\ open \in [Engines -> {"no", "open", "closed"}]
    /\ upstream \in BOOLEAN
    /\ heard \in BOOLEAN
    /\ queue \in [Engines -> Seq(Event)]
    /\ pc \in [Tasks -> {"none", "get", "send", "switch", "closing", "sleep", "over"}]
    /\ held \subseteq Tasks
    /\ cancelled \subseteq Tasks
    /\ wire \in Seq(Tasks)
    /\ reader \in {"reading", "flushing", "closed", "done"}
    /\ ledger \in Seq(Record)
    /\ chat \in Seq(Turns)
    /\ saved \in {"no", "yes", "failed"}
    /\ answered \in Seq(Engines)
    /\ told \in Nat
    /\ used \in Nat
    /\ spend \in Nat
    /\ failures \in Nat

\* The ledger holds the turns in the order they were answered and none twice,
\* although two pumps of two sessions write it.
LedgerInOrder ==
    \A i, j \in DOMAIN ledger : i < j => ledger[i].turn < ledger[j].turn

\* "Turns neither ... nor duplicated" (Requirement 10.3): the client and the
\* server never both write a turn to the chat thread.
ChatOnce ==
    \A i, j \in DOMAIN chat : i # j => chat[i] # chat[j]

\* The pump and the governor may both be inside a handover; only one gets past
\* the frame, and the client is told of one switch.
OneHandover == told <= 1

\* After the teardown nothing is open any more, and nothing opens: a handover
\* that was under way does not come back with a session nobody will close.
NothingOpenAfterwards ==
    reader \in {"closed", "done"} => \A e \in Engines : open[e] # "open"

\* While the socket is up and the engine stays, every turn that was answered
\* gets into the ledger.
AnswersAreRecorded ==
    \A n \in Turns :
        n \in DOMAIN answered
            ~> \/ \E i \in DOMAIN ledger : ledger[i].turn = n
               \/ told > 0
               \/ reader # "reading"

-----------------------------------------------------------------------------
(* What its comments say of it, and a run refutes. *)

\* "Realtime -> staged without dropping the conversation" (Property 7): once the
\* client was told of the switch, the new engine comes up.
HandoverFinishes == told > 0 ~> (engine = "staged" \/ reader # "reading")

=============================================================================
