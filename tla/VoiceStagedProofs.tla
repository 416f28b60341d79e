-------------------------- MODULE VoiceStagedProofs --------------------------
(***************************************************************************)
(* What holds of a staged session for every client, every number of        *)
(* synthesis slots and every length of reply; and then of its conversation *)
(* with a client who types and taps, as VoiceTalk has it.  What is said of *)
(* Spec is proved of VoiceStaged alone: no proof of it uses anything that  *)
(* VoiceTalk declares or assumes.                                          *)
(***************************************************************************)
EXTENDS VoiceTalk, FiniteSetTheorems, SequenceTheorems, FunctionTheorems,
        WellFoundedInduction, TLAPS

-----------------------------------------------------------------------------
(* The helpers. *)

\* Where _drain stops: every seq before the gap is buffered, the gap is not.
LEMMA FirstGapFacts ==
    ASSUME nextSeq \in 0 .. MaxSeq, NEW ready \in SUBSET Seqs
    PROVE  /\ FirstGap(ready) \in nextSeq .. MaxSeq
           /\ FirstGap(ready) \notin ready
           /\ \A k \in nextSeq .. (FirstGap(ready) - 1) : k \in ready
<1> DEFINE absent == {m \in nextSeq .. MaxSeq : m \notin ready}
<1>1. MaxSeq \in absent
  BY StagedAssumption DEF Seqs
<1>2. absent \subseteq Nat
  BY StagedAssumption
<1> HIDE DEF absent
<1> DEFINE less == {ss \in Nat \X Nat : ss[1] < ss[2]}
<1>a. IsWellFoundedOn(less, Nat)
  BY NatLessThanWellFounded DEF OpToRel
<1>3. PICK m \in absent : \A n \in absent : ~ (<<n, m>> \in less)
  <2> HIDE DEF less
  <2> QED BY <1>1, <1>2, <1>a, WFMin
<1>4. \A n \in absent : ~ (n < m)
  BY <1>2, <1>3
<1>5. /\ m \in nextSeq .. MaxSeq
      /\ m \notin ready
      /\ \A k \in nextSeq .. (m - 1) : k \in ready
  BY <1>4, StagedAssumption DEF absent
<1>6. QED
  BY <1>5 DEF FirstGap

\* A task list stays one when a task leaves it.
LEMMA RemoveTask ==
    ASSUME NEW ts \in Seq(Task), NEW i \in DOMAIN ts
    PROVE  RemoveAt(ts, i) \in Seq(Task)
<1>1. i \in 1 .. Len(ts)
  BY LenProperties
<1>2. SubSeq(ts, 1, i - 1) \in Seq(Task)
  BY <1>1, SubSeqProperties, LenProperties, ElementOfSeq
<1>3. SubSeq(ts, i + 1, Len(ts)) \in Seq(Task)
  BY <1>1, SubSeqProperties, LenProperties, ElementOfSeq
<1>4. QED
  BY <1>2, <1>3, ConcatProperties DEF RemoveAt

\* The events a drain emits: one per seq, in order.
LEMMA DrainedFacts ==
    ASSUME nextSeq \in 0 .. MaxSeq,
           NEW p, DOMAIN p \subseteq Seqs, p \in [DOMAIN p -> Audio],
           NEW gap \in nextSeq .. MaxSeq
    PROVE  /\ Drained(p, gap) \in Seq(Event)
           /\ Len(Drained(p, gap)) = gap - nextSeq
           /\ \A i \in 1 .. (gap - nextSeq) :
                 /\ Drained(p, gap)[i] = Report(p, nextSeq + i - 1)
                 /\ Drained(p, gap)[i].kind \in {"audio", "dropped"}
                 /\ Drained(p, gap)[i].seq = nextSeq + i - 1
<1> DEFINE n == gap - nextSeq
           d == Drained(p, gap)
<1>1. n \in Nat
  BY StagedAssumption
<1>2. \A i \in 1 .. n : nextSeq + i - 1 \in Seqs
  BY StagedAssumption DEF Seqs
<1>3. ASSUME NEW k \in Seqs
      PROVE  /\ Report(p, k) \in Event
             /\ Report(p, k).kind \in {"audio", "dropped"}
             /\ Report(p, k).seq = k
  <2>1. CASE k \in DOMAIN p
    <3>1. p[k] \in Audio
      BY <2>1
    <3>2. QED
      BY <2>1, <3>1 DEF Report, Event, Audio
  <2>2. CASE k \notin DOMAIN p
    BY <2>2 DEF Report, Event
  <2>3. QED
    BY <2>1, <2>2
<1>4. d = [i \in 1 .. n |-> Report(p, nextSeq + i - 1)]
  BY DEF Drained
<1>5. \A i \in 1 .. n : d[i] = Report(p, nextSeq + i - 1)
  BY <1>4
<1>6. d \in [1 .. n -> Event]
  BY <1>2, <1>3, <1>4
<1> HIDE DEF n, d
<1>7. d \in Seq(Event) /\ Len(d) = n
  BY <1>1, <1>6
<1>8. QED
  BY <1>2, <1>3, <1>5, <1>7 DEF n, d

\* The end of a turn is at most one event, and none only for an empty turn.
LEMMA FinishFacts ==
    ASSUME userText \in Utterances \cup {None},
           NEW a \in SUBSET Chunks, NEW b \in BOOLEAN, NEW n \in Nat
    PROVE  /\ Finish(a, b, n) \in Seq(Event)
           /\ \/ userText = None /\ a = {} /\ Finish(a, b, n) = <<>>
              \/ /\ userText # None \/ a # {}
                 /\ \E e \in Event : /\ e.kind = "complete"
                                     /\ Finish(a, b, n) = <<e>>
<1> DEFINE e == [kind |-> "complete", user |-> userText, assistant |-> a,
                 interrupted |-> b, chunks |-> n]
<1>1. e \in Event /\ e.kind = "complete"
  BY DEF Event
<1>2. Finish(a, b, n) = IF userText = None /\ a = {} THEN <<>> ELSE <<e>>
  BY DEF Finish
<1> HIDE DEF e
<1>3. <<e>> \in Seq(Event)
  BY <1>1
<1>4. <<>> \in Seq(Event)
  OBVIOUS
<1>5. QED
  BY <1>1, <1>2, <1>3, <1>4

\* What a drain makes of the turn.
TurnOK ==
    /\ nextSeq \in 0 .. MaxSeq
    /\ DOMAIN pending \subseteq Seqs /\ pending \in [DOMAIN pending -> Audio]
    /\ DOMAIN failed \subseteq Seqs /\ failed \in [DOMAIN failed -> Nat]
    /\ emitted \in Nat
    /\ expected \in Nat \cup {None}
    /\ userText \in Utterances \cup {None}
    /\ DOMAIN chunkText \subseteq Seqs
    /\ chunkText \in [DOMAIN chunkText -> Chunks]
    /\ spoken \subseteq Seqs
    /\ parts \subseteq Chunks

LEMMA ResetTurnType ==
    ASSUME ResetTurn
    PROVE  TurnOK'
  BY StagedAssumption DEF ResetTurn, TurnOK, EmptyMap

LEMMA DrainType ==
    ASSUME TurnOK, out \in Seq(Event),
           NEW p, DOMAIN p \subseteq Seqs, p \in [DOMAIN p -> Audio],
           NEW f, DOMAIN f \subseteq Seqs, f \in [DOMAIN f -> Nat],
           NEW exp \in Nat \cup {None},
           Drain(p, f, exp)
    PROVE  TurnOK' /\ out' \in Seq(Event)
<1> DEFINE gap  == FirstGap(DOMAIN p \cup DOMAIN f)
           run  == nextSeq .. (gap - 1)
           said == run \cap DOMAIN p
           n    == emitted + Cardinality(said)
<1>1. gap \in nextSeq .. MaxSeq
  BY FirstGapFacts DEF TurnOK
<1>2. gap \in 0 .. MaxSeq
  BY <1>1, StagedAssumption DEF TurnOK
<1>3. said \subseteq Seqs /\ n \in Nat
  <2>1. IsFiniteSet(run)
    BY <1>1, StagedAssumption, FS_Interval DEF TurnOK
  <2>2. Cardinality(said) \in Nat
    BY <2>1, FS_Intersection, FS_CardinalityType
  <2>3. QED
    BY <2>2 DEF TurnOK
<1>4. Drained(p, gap) \in Seq(Event)
  BY <1>1, DrainedFacts DEF TurnOK
<1>5. Finish(parts, FALSE, n) \in Seq(Event)
  BY <1>3, FinishFacts DEF TurnOK
<1> HIDE DEF gap, run, said, n
<1>6. \/ /\ out' = out \o Drained(p, gap) \o Finish(parts, FALSE, n)
         /\ ResetTurn
      \/ /\ out' = out \o Drained(p, gap)
         /\ nextSeq' = gap
         /\ pending' = Only(p, DOMAIN p \ run)
         /\ failed' = Only(f, DOMAIN f \ (run \ DOMAIN p))
         /\ emitted' = n
         /\ expected' = exp
         /\ spoken' = spoken \cup said
         /\ UNCHANGED <<userText, chunkText, parts>>
  BY DEF Drain, gap, run, said, n
<1>7. out \o Drained(p, gap) \in Seq(Event)
  BY <1>4, ConcatProperties
<1>8. CASE /\ out' = out \o Drained(p, gap) \o Finish(parts, FALSE, n)
           /\ ResetTurn
  BY <1>5, <1>7, <1>8, ConcatProperties, ResetTurnType
<1>9. CASE /\ out' = out \o Drained(p, gap)
           /\ nextSeq' = gap
           /\ pending' = Only(p, DOMAIN p \ run)
           /\ failed' = Only(f, DOMAIN f \ (run \ DOMAIN p))
           /\ emitted' = n
           /\ expected' = exp
           /\ spoken' = spoken \cup said
           /\ UNCHANGED <<userText, chunkText, parts>>
  BY <1>2, <1>3, <1>7, <1>9 DEF TurnOK, Only
<1>10. QED
  BY <1>6, <1>8, <1>9

\* The events of a barge-in: its cut, then the end of the turn.
LEMMA CutEventsFacts ==
    ASSUME TurnOK, gen \in Nat, NEW upTo
    PROVE  /\ CutEvents(upTo) \in Seq(Event)
           /\ HeardText(upTo) \in SUBSET Chunks
           /\ \E e \in Event :
                 /\ e.kind = "cut"
                 /\ e.gen = gen + 1
                 /\ CutEvents(upTo) =
                      <<e>> \o Finish(HeardText(upTo), TRUE, emitted)
<1> DEFINE e == [kind |-> "cut", seqs |-> DOMAIN pending, gen |-> gen + 1]
           fin == Finish(HeardText(upTo), TRUE, emitted)
<1>1. e \in Event /\ e.kind = "cut" /\ e.gen = gen + 1
  BY DEF Event, TurnOK
<1>2. HeardText(upTo) \in SUBSET Chunks
  BY DEF HeardText, TurnOK
<1>3. fin \in Seq(Event)
  BY <1>2, FinishFacts DEF TurnOK
<1>4. CutEvents(upTo) = <<e>> \o fin
  BY DEF CutEvents
<1> HIDE DEF e, fin
<1>5. <<e>> \in Seq(Event)
  BY <1>1
<1>6. <<e>> \o fin \in Seq(Event)
  BY <1>3, <1>5, ConcatProperties
<1>7. QED
  BY <1>1, <1>2, <1>4, <1>6 DEF fin

-----------------------------------------------------------------------------
(* Type correctness. *)

LEMMA TypeInit == Init => TypeOK
<1> SUFFICES ASSUME Init
             PROVE  TypeOK
  OBVIOUS
<1>1. TurnOK
  BY StagedAssumption DEF Init, TurnOK, EmptyMap
<1>2. tasks \in Seq(Task) /\ out \in Seq(Event)
  BY DEF Init
<1>3. QED
  BY <1>1, <1>2 DEF Init, TypeOK, TurnOK

LEMMA TypeSplit == TypeOK <=> /\ TurnOK
                             /\ gen \in Nat
                             /\ speaking \in BOOLEAN
                             /\ tasks \in Seq(Task)
                             /\ judging \subseteq Utterances
                             /\ out \in Seq(Event)
                             /\ closed \in BOOLEAN
  BY DEF TypeOK, TurnOK

LEMMA FrameType == TypeOK /\ Frame => TypeOK'
<1> SUFFICES ASSUME TypeOK, Frame
             PROVE  TypeOK'
  OBVIOUS
<1>1. ASSUME NEW s \in Seqs, NEW c \in Chunks, Speak(s, c)
      PROVE  TypeOK'
  <2>1. [kind |-> "chunk", chunk |-> c] \in Event
    BY DEF Event
  <2>2. out' \in Seq(Event)
    BY <1>1, <2>1, AppendProperties DEF TypeOK, Speak
  <2>3. [seq |-> s, chunk |-> c, gen |-> gen, stage |-> "queued"] \in Task
    BY DEF Task, TypeOK
  <2>4. tasks' \in Seq(Task)
    BY <1>1, <2>3, AppendProperties DEF TypeOK, Speak
  <2>5. chunkText' \in [DOMAIN chunkText' -> Chunks] /\ DOMAIN chunkText' \subseteq Seqs
    BY <1>1 DEF TypeOK, Speak, Put
  <2>6. QED
    BY <1>1, <2>2, <2>4, <2>5 DEF TypeOK, Speak
<1>2. ASSUME NEW total \in 0 .. MaxSeq \cup {None}, ReplyEnd(total)
      PROVE  TypeOK'
  <2> DEFINE exp == IF total # None THEN total
                    ELSE nextSeq + Cardinality(DOMAIN pending)
                                 + Cardinality(DOMAIN failed)
  <2>1. IsFiniteSet(Seqs)
    BY StagedAssumption, FS_Interval DEF Seqs
  <2>2. Cardinality(DOMAIN pending) \in Nat /\ Cardinality(DOMAIN failed) \in Nat
    BY <2>1, FS_Subset, FS_CardinalityType DEF TypeOK
  <2>3. exp \in Nat \cup {None}
    BY <2>2, StagedAssumption DEF TypeOK
  <2> HIDE DEF exp
  <2>4. Drain(pending, failed, exp)
    BY <1>2 DEF ReplyEnd, exp
  <2>5. TurnOK' /\ out' \in Seq(Event)
    BY <2>3, <2>4, DrainType, TypeSplit DEF TurnOK
  <2>6. QED
    BY <1>2, <2>5 DEF ReplyEnd, TypeOK, TurnOK
<1>3. ASSUME NEW u \in Utterances, SendText(u)
      PROVE  TypeOK'
  <2>1. [kind |-> "turn", user |-> u] \in Event
    BY DEF Event
  <2>2. out' \in Seq(Event)
    BY <1>3, <2>1, AppendProperties DEF TypeOK, SendText
  <2>3. QED
    BY <1>3, <2>2 DEF TypeOK, SendText
<1>4. ASSUME NEW on \in BOOLEAN, SetSpeaking(on)
      PROVE  TypeOK'
  BY <1>4 DEF TypeOK, SetSpeaking, turnVars
<1>5. ASSUME NEW upTo \in 0 .. MaxSeq \cup {None}, Interrupt(upTo)
      PROVE  TypeOK'
  <2>1. out' \in Seq(Event)
    BY <1>5, CutEventsFacts, TypeSplit, ConcatProperties DEF Interrupt
  <2>2. TurnOK'
    BY <1>5, ResetTurnType DEF Interrupt
  <2>3. QED
    BY <1>5, <2>1, <2>2 DEF Interrupt, TypeOK, TurnOK
<1>6. QED
  BY <1>1, <1>2, <1>3, <1>4, <1>5 DEF Frame

LEMMA MicType == TypeOK /\ Mic => TypeOK'
<1> SUFFICES ASSUME TypeOK, NEW u \in Utterances,
                    Utterance(u) \/ Backchannel(u) \/ Undecided(u) \/ BargeIn(u)
             PROVE  TypeOK'
  BY DEF Mic
<1>1. /\ [kind |-> "turn", user |-> u] \in Event
      /\ [kind |-> "ack", user |-> u] \in Event
  BY DEF Event
<1>2. CASE Utterance(u)
  <2>1. out' \in Seq(Event)
    BY <1>1, <1>2, AppendProperties DEF TypeOK, Utterance
  <2>2. QED
    BY <1>2, <2>1 DEF TypeOK, Utterance
<1>3. CASE Backchannel(u)
  <2>1. out' \in Seq(Event)
    BY <1>1, <1>3, AppendProperties DEF TypeOK, Backchannel
  <2>2. QED
    BY <1>3, <2>1 DEF TypeOK, Backchannel, turnVars
<1>4. CASE Undecided(u)
  <2>1. out' \in Seq(Event)
    BY <1>1, <1>4, AppendProperties DEF TypeOK, Undecided
  <2>2. QED
    BY <1>4, <2>1 DEF TypeOK, Undecided
<1>5. CASE BargeIn(u)
  <2>1. out \o CutEvents(None) \in Seq(Event)
    BY CutEventsFacts, TypeSplit, ConcatProperties
  <2>2. <<[kind |-> "turn", user |-> u]>> \in Seq(Event)
    BY <1>1
  <2>3. out' \in Seq(Event)
    BY <1>5, <2>1, <2>2, ConcatProperties DEF BargeIn
  <2>4. QED
    BY <1>5, <2>3, StagedAssumption DEF TypeOK, BargeIn, EmptyMap
<1>6. QED
  BY <1>2, <1>3, <1>4, <1>5

LEMMA SynthesisType == TypeOK /\ Synthesis => TypeOK'
<1> SUFFICES ASSUME TypeOK, NEW i \in DOMAIN tasks,
                    \/ SynthStart(i)
                    \/ SynthStale(i)
                    \/ \E ok \in BOOLEAN : SynthEnd(i, ok)
             PROVE  TypeOK'
  BY DEF Synthesis
<1>1. tasks \in Seq(Task) /\ i \in 1 .. Len(tasks) /\ tasks[i] \in Task
  BY LenProperties, ElementOfSeq DEF TypeOK
<1>2. RemoveAt(tasks, i) \in Seq(Task)
  BY <1>1, RemoveTask
<1>3. CASE SynthStart(i)
  <2>1. [tasks[i] EXCEPT !.stage = "synth"] \in Task
    BY <1>1 DEF Task
  <2>2. [tasks EXCEPT ![i].stage = "synth"] \in Seq(Task)
    BY <1>1, <2>1, ExceptSeq
  <2>3. QED
    BY <1>2, <1>3, <2>2 DEF TypeOK, SynthStart, turnVars
<1>4. CASE SynthStale(i)
  BY <1>2, <1>4 DEF TypeOK, SynthStale, turnVars
<1>5. ASSUME NEW ok \in BOOLEAN, SynthEnd(i, ok)
      PROVE  TypeOK'
  <2> DEFINE p == Put(pending, tasks[i].seq,
                      [chunk |-> tasks[i].chunk, gen |-> tasks[i].gen])
             f == Put(failed, tasks[i].seq, tasks[i].gen)
  <2>1. tasks[i].seq \in Seqs /\ tasks[i].chunk \in Chunks /\ tasks[i].gen \in Nat
    BY <1>1 DEF Task
  <2>2. DOMAIN p \subseteq Seqs /\ p \in [DOMAIN p -> Audio]
    BY <2>1 DEF TypeOK, Put, Audio
  <2>3. DOMAIN f \subseteq Seqs /\ f \in [DOMAIN f -> Nat]
    BY <2>1 DEF TypeOK, Put
  <2> HIDE DEF p, f
  <2>4. Drain(p, failed, expected) \/ Drain(pending, f, expected)
    BY <1>5 DEF SynthEnd, p, f
  <2>5. TurnOK' /\ out' \in Seq(Event)
    <3>1. TurnOK /\ out \in Seq(Event)
      BY TypeSplit
    <3>2. CASE Drain(p, failed, expected)
      BY <2>2, <3>1, <3>2, DrainType DEF TurnOK
    <3>3. CASE Drain(pending, f, expected)
      BY <2>3, <3>1, <3>3, DrainType DEF TurnOK
    <3>4. QED
      BY <2>4, <3>2, <3>3
  <2>6. QED
    BY <1>2, <1>5, <2>5 DEF SynthEnd, TypeOK, TurnOK
<1>6. QED
  BY <1>3, <1>4, <1>5

LEMMA TypeNext == TypeOK /\ [Next]_vars => TypeOK'
<1>1. TypeOK /\ Close => TypeOK'
  BY DEF TypeOK, Close, turnVars
<1>2. TypeOK /\ UNCHANGED vars => TypeOK'
  BY DEF TypeOK, vars, turnVars
<1>3. QED
  BY <1>1, <1>2, FrameType, MicType, SynthesisType DEF Next

\* The session's state stays what its code takes it for, whatever the client
\* sends and however the synthesis tasks interleave.
THEOREM TypeCorrect == Spec => []TypeOK
<1>1. QED
  BY TypeInit, TypeNext, PTL DEF Spec

-----------------------------------------------------------------------------
(* The four things a step can do to the event stream. *)

\* Nothing at all.
Idle == UNCHANGED <<gen, nextSeq, pending, userText, chunkText, parts, out>>

\* Somebody speaks.
Speech ==
    \E e \in Event :
        /\ e.kind \in {"turn", "ack", "chunk"}
        /\ out' = Append(out, e)
        /\ UNCHANGED <<gen, nextSeq, pending>>
        /\ e.kind = "ack" => UNCHANGED <<userText, chunkText, parts>>

\* The reorder buffer is drained after it has taken in, at most, a clip of the
\* current generation.
DrainStep ==
    /\ UNCHANGED gen
    /\ \E p, f, exp :
        /\ DOMAIN p \subseteq Seqs /\ p \in [DOMAIN p -> Audio]
        /\ DOMAIN f \subseteq Seqs /\ f \in [DOMAIN f -> Nat]
        /\ exp \in Nat \cup {None}
        /\ \A s \in DOMAIN p :
              p[s].gen = gen \/ (s \in DOMAIN pending /\ p[s] = pending[s])
        /\ Drain(p, f, exp)

\* A barge-in, with or without the turn that takes over.
CutStep ==
    /\ gen' = gen + 1
    /\ nextSeq' = 0
    /\ pending' = EmptyMap
    /\ chunkText' = EmptyMap
    /\ parts' = {}
    /\ \E upTo :
        \/ /\ out' = out \o CutEvents(upTo)
           /\ userText' = None
        \/ \E e \in Event : /\ e.kind = "turn"
                            /\ out' = out \o CutEvents(upTo) \o <<e>>

LEMMA StepCases ==
    ASSUME TypeOK, [Next]_vars
    PROVE  Idle \/ Speech \/ DrainStep \/ CutStep
<1>1. ASSUME NEW s \in Seqs, NEW c \in Chunks, Speak(s, c)
      PROVE  Speech
  <2>1. [kind |-> "chunk", chunk |-> c] \in Event
    BY DEF Event
  <2>2. QED
    BY <1>1, <2>1 DEF Speak, Speech
<1>2. ASSUME NEW total \in 0 .. MaxSeq \cup {None}, ReplyEnd(total)
      PROVE  DrainStep
  <2> DEFINE exp == IF total # None THEN total
                    ELSE nextSeq + Cardinality(DOMAIN pending)
                                 + Cardinality(DOMAIN failed)
  <2>1. IsFiniteSet(Seqs)
    BY StagedAssumption, FS_Interval DEF Seqs
  <2>2. Cardinality(DOMAIN pending) \in Nat /\ Cardinality(DOMAIN failed) \in Nat
    BY <2>1, FS_Subset, FS_CardinalityType DEF TypeOK
  <2>3. exp \in Nat \cup {None}
    BY <2>2, StagedAssumption DEF TypeOK
  <2> HIDE DEF exp
  <2>4. Drain(pending, failed, exp)
    BY <1>2 DEF ReplyEnd, exp
  <2>5. QED
    BY <1>2, <2>3, <2>4 DEF ReplyEnd, DrainStep, TypeOK
<1>3. ASSUME NEW u \in Utterances, SendText(u)
      PROVE  Speech
  <2>1. [kind |-> "turn", user |-> u] \in Event
    BY DEF Event
  <2>2. QED
    BY <1>3, <2>1 DEF SendText, Speech
<1>4. ASSUME NEW on \in BOOLEAN, SetSpeaking(on)
      PROVE  Idle
  BY <1>4 DEF SetSpeaking, Idle, turnVars
<1>5. ASSUME NEW upTo \in 0 .. MaxSeq \cup {None}, Interrupt(upTo)
      PROVE  CutStep
  BY <1>5 DEF Interrupt, ResetTurn, CutStep
<1>6. ASSUME NEW u \in Utterances, Utterance(u)
      PROVE  Idle \/ Speech
  <2>1. [kind |-> "turn", user |-> u] \in Event
    BY DEF Event
  <2>2. QED
    BY <1>6, <2>1 DEF Utterance, Idle, Speech
<1>7. ASSUME NEW u \in Utterances, Backchannel(u)
      PROVE  Speech
  <2>1. [kind |-> "ack", user |-> u] \in Event
    BY DEF Event
  <2>2. QED
    BY <1>7, <2>1 DEF Backchannel, Speech, turnVars
<1>8. ASSUME NEW u \in Utterances, Undecided(u)
      PROVE  Speech
  <2>1. [kind |-> "turn", user |-> u] \in Event
    BY DEF Event
  <2>2. QED
    BY <1>8, <2>1 DEF Undecided, Speech
<1>9. ASSUME NEW u \in Utterances, BargeIn(u)
      PROVE  CutStep
  <2> DEFINE e == [kind |-> "turn", user |-> u]
  <2>1. e \in Event /\ e.kind = "turn"
    BY DEF Event
  <2>2. out' = out \o CutEvents(None) \o <<e>>
    BY <1>9 DEF BargeIn
  <2> HIDE DEF e
  <2>3. QED
    BY <1>9, <2>1, <2>2 DEF BargeIn, CutStep
<1>10. ASSUME NEW i \in DOMAIN tasks,
              SynthStart(i) \/ SynthStale(i)
       PROVE  Idle
  BY <1>10 DEF SynthStart, SynthStale, Idle, turnVars
<1>11. ASSUME NEW i \in DOMAIN tasks, NEW ok \in BOOLEAN, SynthEnd(i, ok)
       PROVE  DrainStep
  <2> DEFINE p == Put(pending, tasks[i].seq,
                      [chunk |-> tasks[i].chunk, gen |-> tasks[i].gen])
             f == Put(failed, tasks[i].seq, tasks[i].gen)
  <2>1. tasks[i] \in Task
    BY LenProperties, ElementOfSeq DEF TypeOK
  <2>2. tasks[i].seq \in Seqs /\ tasks[i].chunk \in Chunks /\ tasks[i].gen \in Nat
    BY <2>1 DEF Task
  <2>3. tasks[i].gen = gen
    BY <1>11 DEF SynthEnd
  <2>4. DOMAIN p \subseteq Seqs /\ p \in [DOMAIN p -> Audio]
    BY <2>2 DEF TypeOK, Put, Audio
  <2>5. \A s \in DOMAIN p :
           p[s].gen = gen \/ (s \in DOMAIN pending /\ p[s] = pending[s])
    BY <2>2, <2>3 DEF TypeOK, Put
  <2>6. DOMAIN f \subseteq Seqs /\ f \in [DOMAIN f -> Nat]
    BY <2>2 DEF TypeOK, Put
  <2> HIDE DEF p, f
  <2>7. Drain(p, failed, expected) \/ Drain(pending, f, expected)
    BY <1>11 DEF SynthEnd, p, f
  <2>8. CASE Drain(p, failed, expected)
    BY <1>11, <2>4, <2>5, <2>8 DEF SynthEnd, DrainStep, TypeOK
  <2>9. CASE Drain(pending, f, expected)
    BY <1>11, <2>6, <2>9 DEF SynthEnd, DrainStep, TypeOK
  <2>10. QED
    BY <2>7, <2>8, <2>9
<1>12. ASSUME Close \/ UNCHANGED vars
       PROVE  Idle
  BY <1>12 DEF Close, Idle, vars, turnVars
<1>13. QED
  BY <1>1, <1>2, <1>3, <1>4, <1>5, <1>6, <1>7, <1>8, <1>9, <1>10, <1>11, <1>12
     DEF Next, Frame, Mic, Synthesis

\* What Drain does, in the words of its events.
LEMMA DrainFacts ==
    ASSUME TypeOK, NEW p, DOMAIN p \subseteq Seqs, p \in [DOMAIN p -> Audio],
           NEW f, DOMAIN f \subseteq Seqs, NEW exp, Drain(p, f, exp)
    PROVE  \E gap \in nextSeq .. MaxSeq :
              /\ \A k \in nextSeq .. (gap - 1) : k \in DOMAIN p \cup DOMAIN f
              /\ Drained(p, gap) \in Seq(Event)
              /\ \/ /\ \E n \in Nat :
                          out' = out \o Drained(p, gap) \o Finish(parts, FALSE, n)
                    /\ ResetTurn
                 \/ /\ out' = out \o Drained(p, gap)
                    /\ nextSeq' = gap
                    /\ DOMAIN pending' \subseteq DOMAIN p
                    /\ \A s \in DOMAIN pending' : pending'[s] = p[s]
                    /\ UNCHANGED <<userText, chunkText, parts>>
<1> DEFINE gap  == FirstGap(DOMAIN p \cup DOMAIN f)
           run  == nextSeq .. (gap - 1)
           n    == emitted + Cardinality(run \cap DOMAIN p)
<1>1. /\ gap \in nextSeq .. MaxSeq
      /\ \A k \in nextSeq .. (gap - 1) : k \in DOMAIN p \cup DOMAIN f
  BY FirstGapFacts DEF TypeOK
<1>2. Drained(p, gap) \in Seq(Event)
  BY <1>1, DrainedFacts DEF TypeOK
<1>3. n \in Nat
  <2>1. IsFiniteSet(run)
    BY <1>1, StagedAssumption, FS_Interval DEF TypeOK
  <2>2. Cardinality(run \cap DOMAIN p) \in Nat
    BY <2>1, FS_Intersection, FS_CardinalityType
  <2>3. QED
    BY <2>2 DEF TypeOK
<1>4. \/ /\ out' = out \o Drained(p, gap) \o Finish(parts, FALSE, n)
         /\ ResetTurn
      \/ /\ out' = out \o Drained(p, gap)
         /\ nextSeq' = gap
         /\ pending' = Only(p, DOMAIN p \ run)
         /\ UNCHANGED <<userText, chunkText, parts>>
  BY DEF Drain
<1> HIDE DEF gap, run, n
<1>5. QED
  BY <1>1, <1>2, <1>3, <1>4 DEF Only, run

-----------------------------------------------------------------------------
(* No stale audio comes out. *)

CutsUpTo(o, g) == \A i \in DOMAIN o : o[i].kind = "cut" => o[i].gen <= g

AudioFrom(o, g) == \A i \in DOMAIN o : o[i].kind = "audio" => o[i].gen >= g

Fresh(o) ==
    \A i, j \in DOMAIN o :
        (i < j /\ o[i].kind = "cut" /\ o[j].kind = "audio") => o[j].gen >= o[i].gen

\* StaleAudioNeverOut is not inductive by itself: it takes that whatever waits
\* in the reorder buffer is of the current generation, and that no cut that went
\* out began a later one.
GenerationInv ==
    /\ \A s \in DOMAIN pending : pending[s].gen = gen
    /\ CutsUpTo(out, gen)
    /\ StaleAudioNeverOut

LEMMA FreshConcat ==
    ASSUME NEW o \in Seq(Event), NEW e \in Seq(Event), NEW g \in Nat,
           CutsUpTo(o, g), AudioFrom(e, g), Fresh(o), Fresh(e)
    PROVE  Fresh(o \o e)
<1>1. /\ DOMAIN (o \o e) = 1 .. (Len(o) + Len(e))
      /\ DOMAIN o = 1 .. Len(o) /\ DOMAIN e = 1 .. Len(e)
      /\ Len(o) \in Nat /\ Len(e) \in Nat
      /\ \A i \in 1 .. (Len(o) + Len(e)) :
            (o \o e)[i] = IF i <= Len(o) THEN o[i] ELSE e[i - Len(o)]
  BY ConcatProperties, LenProperties
<1>2. \A i \in DOMAIN o : o[i].kind = "cut" => o[i].gen \in Nat
  <2>1. \A v \in Event : v.kind = "cut" => v.gen \in Nat
    BY DEF Event
  <2>2. QED
    BY <2>1
<1>3. \A i \in DOMAIN e : e[i].kind = "audio" => e[i].gen \in Nat
  <2>1. \A v \in Event : v.kind = "audio" => v.gen \in Nat
    BY DEF Event
  <2>2. QED
    BY <2>1
<1>4. SUFFICES ASSUME NEW i \in DOMAIN (o \o e), NEW j \in DOMAIN (o \o e), i < j,
                      (o \o e)[i].kind = "cut", (o \o e)[j].kind = "audio"
               PROVE  (o \o e)[j].gen >= (o \o e)[i].gen
  BY DEF Fresh
<1>5. CASE j <= Len(o)
  BY <1>1, <1>4, <1>5 DEF Fresh
<1>6. CASE i > Len(o)
  <2>1. /\ i - Len(o) \in DOMAIN e /\ j - Len(o) \in DOMAIN e
        /\ i - Len(o) < j - Len(o)
        /\ (o \o e)[i] = e[i - Len(o)] /\ (o \o e)[j] = e[j - Len(o)]
    BY <1>1, <1>4, <1>6
  <2>2. QED
    BY <1>4, <2>1 DEF Fresh
<1>7. CASE i <= Len(o) /\ j > Len(o)
  <2>1. /\ i \in DOMAIN o /\ j - Len(o) \in DOMAIN e
        /\ (o \o e)[i] = o[i] /\ (o \o e)[j] = e[j - Len(o)]
    BY <1>1, <1>4, <1>7
  <2>2. o[i].gen <= g /\ e[j - Len(o)].gen >= g
    BY <1>4, <2>1 DEF CutsUpTo, AudioFrom
  <2>3. QED
    BY <1>2, <1>3, <1>4, <2>1, <2>2
<1>8. QED
  BY <1>1, <1>5, <1>6, <1>7

LEMMA CutsConcat ==
    ASSUME NEW o \in Seq(Event), NEW e \in Seq(Event), NEW g,
           CutsUpTo(o, g), CutsUpTo(e, g)
    PROVE  CutsUpTo(o \o e, g)
<1>1. /\ DOMAIN (o \o e) = 1 .. (Len(o) + Len(e))
      /\ DOMAIN o = 1 .. Len(o) /\ DOMAIN e = 1 .. Len(e)
      /\ Len(o) \in Nat /\ Len(e) \in Nat
      /\ \A i \in 1 .. (Len(o) + Len(e)) :
            (o \o e)[i] = IF i <= Len(o) THEN o[i] ELSE e[i - Len(o)]
  BY ConcatProperties, LenProperties
<1>2. SUFFICES ASSUME NEW i \in DOMAIN (o \o e), (o \o e)[i].kind = "cut"
               PROVE  (o \o e)[i].gen <= g
  BY DEF CutsUpTo
<1>3. CASE i <= Len(o)
  BY <1>1, <1>2, <1>3 DEF CutsUpTo
<1>4. CASE i > Len(o)
  <2>1. i - Len(o) \in DOMAIN e /\ (o \o e)[i] = e[i - Len(o)]
    BY <1>1, <1>4
  <2>2. QED
    BY <1>2, <2>1 DEF CutsUpTo
<1>5. QED
  BY <1>1, <1>3, <1>4

\* A stream without a cut, whose audio is of generation g, can follow.
LEMMA GenerationExtend ==
    ASSUME NEW o \in Seq(Event), NEW e \in Seq(Event), NEW g \in Nat,
           CutsUpTo(o, g), Fresh(o), AudioFrom(e, g),
           \A i \in DOMAIN e : e[i].kind # "cut"
    PROVE  CutsUpTo(o \o e, g) /\ Fresh(o \o e)
<1>1. CutsUpTo(e, g) /\ Fresh(e)
  BY DEF CutsUpTo, Fresh
<1>2. QED
  BY <1>1, FreshConcat, CutsConcat

\* One event that is neither a cut nor a clip.
LEMMA GenerationExtendOne ==
    ASSUME NEW o \in Seq(Event), NEW e \in Event, NEW g \in Nat,
           CutsUpTo(o, g), Fresh(o), e.kind # "audio", e.kind # "cut"
    PROVE  CutsUpTo(o \o <<e>>, g) /\ Fresh(o \o <<e>>)
<1>1. <<e>> \in Seq(Event) /\ DOMAIN <<e>> = {1} /\ <<e>>[1] = e
  OBVIOUS
<1>2. AudioFrom(<<e>>, g) /\ \A i \in DOMAIN <<e>> : <<e>>[i].kind # "cut"
  BY <1>1 DEF AudioFrom
<1>3. QED
  BY <1>1, <1>2, GenerationExtend

\* The end of a turn adds nothing that matters here.
LEMMA GenerationFinish ==
    ASSUME TypeOK, NEW o \in Seq(Event), NEW g \in Nat,
           CutsUpTo(o, g), Fresh(o),
           NEW a \in SUBSET Chunks, NEW b \in BOOLEAN, NEW n \in Nat
    PROVE  /\ o \o Finish(a, b, n) \in Seq(Event)
           /\ CutsUpTo(o \o Finish(a, b, n), g)
           /\ Fresh(o \o Finish(a, b, n))
<1>1. Finish(a, b, n) \in Seq(Event)
  BY FinishFacts DEF TypeOK
<1>2. CASE Finish(a, b, n) = <<>>
  BY <1>2, ConcatEmptySeq
<1>3. ASSUME NEW e \in Event, e.kind = "complete", Finish(a, b, n) = <<e>>
      PROVE  /\ CutsUpTo(o \o Finish(a, b, n), g)
             /\ Fresh(o \o Finish(a, b, n))
  BY <1>3, GenerationExtendOne
<1>4. QED
  BY <1>1, <1>2, <1>3, FinishFacts, ConcatProperties DEF TypeOK

LEMMA GenerationDrain ==
    ASSUME TypeOK, GenerationInv, DrainStep
    PROVE  GenerationInv'
<1>1. PICK p, f, exp :
        /\ DOMAIN p \subseteq Seqs /\ p \in [DOMAIN p -> Audio]
        /\ DOMAIN f \subseteq Seqs /\ f \in [DOMAIN f -> Nat]
        /\ exp \in Nat \cup {None}
        /\ \A s \in DOMAIN p :
              p[s].gen = gen \/ (s \in DOMAIN pending /\ p[s] = pending[s])
        /\ Drain(p, f, exp)
  BY DEF DrainStep
<1>2. \A s \in DOMAIN p : p[s].gen = gen
  BY <1>1 DEF GenerationInv
<1>3. gen' = gen /\ gen \in Nat /\ out \in Seq(Event)
  BY DEF DrainStep, TypeOK
<1>4. PICK gap \in nextSeq .. MaxSeq :
              /\ \A k \in nextSeq .. (gap - 1) : k \in DOMAIN p \cup DOMAIN f
              /\ Drained(p, gap) \in Seq(Event)
              /\ \/ /\ \E n \in Nat :
                          out' = out \o Drained(p, gap) \o Finish(parts, FALSE, n)
                    /\ ResetTurn
                 \/ /\ out' = out \o Drained(p, gap)
                    /\ nextSeq' = gap
                    /\ DOMAIN pending' \subseteq DOMAIN p
                    /\ \A s \in DOMAIN pending' : pending'[s] = p[s]
                    /\ UNCHANGED <<userText, chunkText, parts>>
  BY <1>1, DrainFacts
<1> DEFINE d == Drained(p, gap)
<1>5. \A i \in DOMAIN d : d[i].kind # "cut" /\ (d[i].kind = "audio" => d[i].gen = gen)
  <2>1. DOMAIN d = 1 .. (gap - nextSeq)
    BY DEF Drained
  <2>2. SUFFICES ASSUME NEW i \in 1 .. (gap - nextSeq)
                 PROVE  d[i].kind # "cut" /\ (d[i].kind = "audio" => d[i].gen = gen)
    BY <2>1
  <2>3. d[i] = Report(p, nextSeq + i - 1)
    BY DEF Drained
  <2>4. QED
    BY <1>2, <2>3 DEF Report
<1>6. AudioFrom(d, gen)
  BY <1>3, <1>5 DEF AudioFrom
<1>7. d \in Seq(Event)
  BY <1>4
<1> HIDE DEF d
<1>8. CutsUpTo(out \o d, gen) /\ Fresh(out \o d) /\ out \o d \in Seq(Event)
  BY <1>3, <1>5, <1>6, <1>7, GenerationExtend, ConcatProperties
     DEF GenerationInv, StaleAudioNeverOut, Fresh
<1>9. CASE ResetTurn /\ \E n \in Nat : out' = out \o d \o Finish(parts, FALSE, n)
  <2>1. CutsUpTo(out', gen) /\ Fresh(out')
    BY <1>3, <1>8, <1>9, GenerationFinish DEF TypeOK
  <2>2. QED
    BY <1>3, <1>9, <2>1
       DEF GenerationInv, StaleAudioNeverOut, Fresh, ResetTurn, EmptyMap, CutsUpTo
<1>10. CASE /\ out' = out \o d
            /\ DOMAIN pending' \subseteq DOMAIN p
            /\ \A s \in DOMAIN pending' : pending'[s] = p[s]
  BY <1>2, <1>3, <1>8, <1>10
     DEF GenerationInv, StaleAudioNeverOut, Fresh, CutsUpTo
<1>11. QED
  BY <1>4, <1>9, <1>10 DEF d

LEMMA GenerationCut ==
    ASSUME TypeOK, GenerationInv, CutStep
    PROVE  GenerationInv'
<1>1. PICK upTo :
        \/ /\ out' = out \o CutEvents(upTo)
           /\ userText' = None
        \/ \E e \in Event : /\ e.kind = "turn"
                            /\ out' = out \o CutEvents(upTo) \o <<e>>
  BY DEF CutStep
<1>2. /\ gen \in Nat /\ gen' = gen + 1 /\ out \in Seq(Event)
      /\ TurnOK /\ emitted \in Nat
  BY DEF CutStep, TypeOK, TurnOK
<1>3. HeardText(upTo) \in SUBSET Chunks
  BY <1>2, CutEventsFacts
<1>4. PICK c \in Event : /\ c.kind = "cut"
                         /\ c.gen = gen + 1
                         /\ CutEvents(upTo) =
                              <<c>> \o Finish(HeardText(upTo), TRUE, emitted)
  BY <1>2, CutEventsFacts
<1> DEFINE fin == Finish(HeardText(upTo), TRUE, emitted)
           o   == out \o <<c>>
<1>5. <<c>> \in Seq(Event) /\ DOMAIN <<c>> = {1} /\ <<c>>[1] = c
  OBVIOUS
<1>6. o \in Seq(Event) /\ CutsUpTo(o, gen + 1) /\ Fresh(o)
  <2>1. CutsUpTo(out, gen) /\ Fresh(out)
    BY DEF GenerationInv, StaleAudioNeverOut, Fresh
  <2>2. CutsUpTo(out, gen + 1)
    <3>1. \A v \in Event : v.kind = "cut" => v.gen \in Nat
      BY DEF Event
    <3>2. \A i \in DOMAIN out : out[i].kind = "cut" => out[i].gen \in Nat
      BY <1>2, <3>1
    <3>3. QED
      BY <1>2, <2>1, <3>2 DEF CutsUpTo
  <2>3. CutsUpTo(<<c>>, gen + 1) /\ AudioFrom(<<c>>, gen) /\ Fresh(<<c>>)
    BY <1>2, <1>4, <1>5 DEF CutsUpTo, AudioFrom, Fresh
  <2>4. QED
    BY <1>2, <1>5, <2>1, <2>2, <2>3, FreshConcat, CutsConcat, ConcatProperties
<1>7. out \o CutEvents(upTo) = o \o fin
  <2>1. fin \in Seq(Event)
    BY <1>2, <1>3, FinishFacts DEF TypeOK
  <2>2. CutEvents(upTo) = <<c>> \o fin
    BY <1>4
  <2>3. out \in Seq(Event) /\ <<c>> \in Seq(Event)
    BY <1>2, <1>5
  <2> HIDE DEF fin
  <2>4. (out \o <<c>>) \o fin = out \o (<<c>> \o fin)
    BY <2>1, <2>3, ConcatAssociative
  <2>5. QED
    BY <2>2, <2>4
<1> HIDE DEF o
<1>8. /\ o \o fin \in Seq(Event)
      /\ CutsUpTo(o \o fin, gen + 1)
      /\ Fresh(o \o fin)
  <2>1. gen + 1 \in Nat /\ TRUE \in BOOLEAN /\ emitted \in Nat
    BY <1>2
  <2>2. QED
    BY <1>3, <1>6, <2>1, GenerationFinish
<1> HIDE DEF fin
<1>9. CutsUpTo(out', gen + 1) /\ Fresh(out')
  <2>1. CASE out' = out \o CutEvents(upTo)
    BY <1>7, <1>8, <2>1
  <2>2. ASSUME NEW e \in Event, e.kind = "turn",
               out' = out \o CutEvents(upTo) \o <<e>>
        PROVE  CutsUpTo(out', gen + 1) /\ Fresh(out')
    <3>1. out' = (o \o fin) \o <<e>> /\ gen + 1 \in Nat
      BY <1>2, <1>7, <2>2
    <3>2. QED
      BY <1>8, <2>2, <3>1, GenerationExtendOne
  <2>3. QED
    BY <1>1, <2>1, <2>2
<1>10. pending' = EmptyMap
  BY DEF CutStep
<1>11. QED
  BY <1>2, <1>9, <1>10
     DEF GenerationInv, StaleAudioNeverOut, Fresh, EmptyMap, CutsUpTo

LEMMA GenerationNext ==
    ASSUME TypeOK, GenerationInv, [Next]_vars
    PROVE  GenerationInv'
<1>1. CASE Idle
  BY <1>1 DEF Idle, GenerationInv, CutsUpTo, StaleAudioNeverOut
<1>2. CASE Speech
  <2>1. PICK e \in Event : /\ e.kind \in {"turn", "ack", "chunk"}
                           /\ out' = Append(out, e)
                           /\ UNCHANGED <<gen, nextSeq, pending>>
    BY <1>2 DEF Speech
  <2>2. out \in Seq(Event) /\ gen \in Nat
    BY DEF TypeOK
  <2>3. out' = out \o <<e>>
    BY <2>1, <2>2, AppendIsConcat
  <2>4. CutsUpTo(out', gen) /\ Fresh(out')
    BY <2>1, <2>2, <2>3, GenerationExtendOne
       DEF GenerationInv, StaleAudioNeverOut, Fresh
  <2>5. QED
    BY <2>1, <2>4 DEF GenerationInv, StaleAudioNeverOut, Fresh, CutsUpTo
<1>3. QED
  BY <1>1, <1>2, GenerationDrain, GenerationCut, StepCases

\* Property 5 for every client: what comes out after a barge-in was spoken after
\* it, because the generation is compared again once the synthesis is back.
THEOREM StaleAudio == Spec => []StaleAudioNeverOut
<1>1. Init => GenerationInv
  BY DEF Init, GenerationInv, CutsUpTo, StaleAudioNeverOut, EmptyMap
<1>2. TypeOK /\ GenerationInv /\ [Next]_vars => GenerationInv'
  BY GenerationNext
<1>3. GenerationInv => StaleAudioNeverOut
  BY DEF GenerationInv
<1>4. QED
  BY <1>1, <1>2, <1>3, TypeCorrect, PTL DEF Spec

-----------------------------------------------------------------------------
(* Chunks come out in order. *)

Reported(e) == e.kind \in {"audio", "dropped"}

Boundary(e) == e.kind \in {"cut", "complete"}

\* The last report of the turn under way is that of chunk n - 1.
AtSeq(o, n) ==
    n > 0 => \E j \in 1 .. Len(o) :
               /\ Reported(o[j])
               /\ o[j].seq = n - 1
               /\ \A k \in (j + 1) .. Len(o) : ~Reported(o[k]) /\ ~Boundary(o[k])

Ordered(o) ==
    \A i \in 1 .. Len(o) :
        (Reported(o[i]) /\ o[i].seq > 0) =>
            \E j \in 1 .. (i - 1) :
                /\ Reported(o[j])
                /\ o[j].seq = o[i].seq - 1
                /\ \A k \in (j + 1) .. (i - 1) : ~Reported(o[k]) /\ ~Boundary(o[k])

\* OrderedEmission follows from where the emission stands: nextSeq is one past
\* the chunk reported last in this turn.
OrderInv == Ordered(out) /\ AtSeq(out, nextSeq)

LEMMA ConcatFacts ==
    ASSUME NEW o \in Seq(Event), NEW e \in Seq(Event)
    PROVE  /\ o \o e \in Seq(Event)
           /\ Len(o) \in Nat /\ Len(e) \in Nat
           /\ Len(o \o e) = Len(o) + Len(e)
           /\ \A i \in 1 .. Len(o) : (o \o e)[i] = o[i]
           /\ \A i \in (Len(o) + 1) .. (Len(o) + Len(e)) :
                 (o \o e)[i] = e[i - Len(o)]
  BY ConcatProperties, LenProperties

\* Events that report nothing do not disturb the order ...
LEMMA OrderedSilent ==
    ASSUME NEW o \in Seq(Event), NEW e \in Seq(Event), Ordered(o),
           \A i \in 1 .. Len(e) : ~Reported(e[i])
    PROVE  Ordered(o \o e)
<1>1. /\ Len(o) \in Nat /\ Len(e) \in Nat
      /\ Len(o \o e) = Len(o) + Len(e)
      /\ \A i \in 1 .. Len(o) : (o \o e)[i] = o[i]
      /\ \A i \in (Len(o) + 1) .. (Len(o) + Len(e)) :
            (o \o e)[i] = e[i - Len(o)]
  BY ConcatFacts
<1>2. SUFFICES ASSUME NEW i \in 1 .. Len(o \o e),
                      Reported((o \o e)[i]), (o \o e)[i].seq > 0
               PROVE  \E j \in 1 .. (i - 1) :
                         /\ Reported((o \o e)[j])
                         /\ (o \o e)[j].seq = (o \o e)[i].seq - 1
                         /\ \A k \in (j + 1) .. (i - 1) :
                               ~Reported((o \o e)[k]) /\ ~Boundary((o \o e)[k])
  BY DEF Ordered
<1>3. i \in 1 .. Len(o)
  <2>1. SUFFICES ASSUME i > Len(o)
                 PROVE  FALSE
    BY <1>1
  <2>2. i - Len(o) \in 1 .. Len(e) /\ (o \o e)[i] = e[i - Len(o)]
    BY <1>1, <2>1
  <2>3. QED
    BY <1>2, <2>2
<1>4. PICK j \in 1 .. (i - 1) :
        /\ Reported(o[j])
        /\ o[j].seq = o[i].seq - 1
        /\ \A k \in (j + 1) .. (i - 1) : ~Reported(o[k]) /\ ~Boundary(o[k])
  BY <1>1, <1>2, <1>3 DEF Ordered
<1>5. /\ j \in 1 .. Len(o)
      /\ \A k \in (j + 1) .. (i - 1) : k \in 1 .. Len(o)
  BY <1>1, <1>3
<1>6. QED
  BY <1>1, <1>3, <1>4, <1>5

\* ... nor, when they close no turn either, where the emission stands.
LEMMA AtSeqSilent ==
    ASSUME NEW o \in Seq(Event), NEW e \in Seq(Event), NEW n \in Nat,
           AtSeq(o, n),
           \A i \in 1 .. Len(e) : ~Reported(e[i]) /\ ~Boundary(e[i])
    PROVE  AtSeq(o \o e, n)
<1>1. /\ Len(o) \in Nat /\ Len(e) \in Nat
      /\ Len(o \o e) = Len(o) + Len(e)
      /\ \A i \in 1 .. Len(o) : (o \o e)[i] = o[i]
      /\ \A i \in (Len(o) + 1) .. (Len(o) + Len(e)) :
            (o \o e)[i] = e[i - Len(o)]
  BY ConcatFacts
<1>2. CASE n = 0
  BY <1>2 DEF AtSeq
<1>3. CASE n > 0
  <2>1. PICK j \in 1 .. Len(o) :
           /\ Reported(o[j])
           /\ o[j].seq = n - 1
           /\ \A k \in (j + 1) .. Len(o) : ~Reported(o[k]) /\ ~Boundary(o[k])
    BY <1>3 DEF AtSeq
  <2>2. ASSUME NEW k \in (j + 1) .. Len(o \o e)
        PROVE  ~Reported((o \o e)[k]) /\ ~Boundary((o \o e)[k])
    <3>1. CASE k <= Len(o)
      BY <1>1, <2>1, <3>1
    <3>2. CASE k > Len(o)
      <4>1. k - Len(o) \in 1 .. Len(e) /\ (o \o e)[k] = e[k - Len(o)]
        BY <1>1, <3>2
      <4>2. QED
        BY <4>1
    <3>3. QED
      BY <1>1, <3>1, <3>2
  <2>3. j \in 1 .. Len(o \o e) /\ (o \o e)[j] = o[j]
    BY <1>1
  <2>4. QED
    BY <2>1, <2>2, <2>3 DEF AtSeq
<1>4. QED
  BY <1>2, <1>3

\* A run of reports from where the emission stands on keeps the order.
LEMMA OrderedRun ==
    ASSUME NEW o \in Seq(Event), NEW e \in Seq(Event), NEW n \in Nat,
           Ordered(o), AtSeq(o, n),
           \A i \in 1 .. Len(e) : Reported(e[i]) /\ e[i].seq = n + i - 1
    PROVE  Ordered(o \o e) /\ AtSeq(o \o e, n + Len(e))
<1> DEFINE oe == o \o e
<1>1. /\ Len(o) \in Nat /\ Len(e) \in Nat
      /\ Len(oe) = Len(o) + Len(e)
      /\ \A i \in 1 .. Len(o) : oe[i] = o[i]
      /\ \A i \in (Len(o) + 1) .. (Len(o) + Len(e)) : oe[i] = e[i - Len(o)]
  BY ConcatFacts
<1> HIDE DEF oe
<1>2. \A t \in 1 .. Len(e) :
        /\ Len(o) + t \in 1 .. Len(oe)
        /\ Reported(oe[Len(o) + t])
        /\ oe[Len(o) + t].seq = n + t - 1
  <2>1. SUFFICES ASSUME NEW t \in 1 .. Len(e)
                 PROVE  /\ Len(o) + t \in 1 .. Len(oe)
                        /\ Reported(oe[Len(o) + t])
                        /\ oe[Len(o) + t].seq = n + t - 1
    OBVIOUS
  <2>2. /\ Len(o) + t \in (Len(o) + 1) .. (Len(o) + Len(e))
        /\ (Len(o) + t) - Len(o) = t
    BY <1>1
  <2>3. oe[Len(o) + t] = e[t]
    BY <1>1, <2>2
  <2>4. QED
    BY <1>1, <2>2, <2>3
<1>3. AtSeq(oe, n + Len(e))
  <2>1. CASE Len(e) = 0
    <3>1. Len(oe) = Len(o) /\ n + Len(e) = n
      BY <1>1, <2>1
    <3>2. QED
      BY <1>1, <3>1, SMTT(30) DEF AtSeq
  <2>2. CASE Len(e) > 0
    <3>1. /\ Len(e) \in 1 .. Len(e) /\ Len(oe) = Len(o) + Len(e)
          /\ (n + Len(e)) - 1 = n + Len(e) - 1
      BY <1>1, <2>2
    <3>2. /\ Len(oe) \in 1 .. Len(oe)
          /\ Reported(oe[Len(oe)])
          /\ oe[Len(oe)].seq = (n + Len(e)) - 1
      BY <1>2, <3>1
    <3>3. (Len(oe) + 1) .. Len(oe) = {}
      BY <1>1
    <3>4. QED
      BY <3>2, <3>3 DEF AtSeq
  <2>3. QED
    BY <1>1, <2>1, <2>2
<1>4. Ordered(oe)
  <2>1. SUFFICES ASSUME NEW i \in 1 .. Len(oe), Reported(oe[i]), oe[i].seq > 0
                 PROVE  \E j \in 1 .. (i - 1) :
                           /\ Reported(oe[j])
                           /\ oe[j].seq = oe[i].seq - 1
                           /\ \A k \in (j + 1) .. (i - 1) :
                                 ~Reported(oe[k]) /\ ~Boundary(oe[k])
    BY DEF Ordered
  <2>2. CASE i <= Len(o)
    <3>1. i \in 1 .. Len(o) /\ oe[i] = o[i]
      BY <1>1, <2>2
    <3>2. PICK j \in 1 .. (i - 1) :
            /\ Reported(o[j])
            /\ o[j].seq = o[i].seq - 1
            /\ \A k \in (j + 1) .. (i - 1) : ~Reported(o[k]) /\ ~Boundary(o[k])
      BY <2>1, <3>1 DEF Ordered
    <3>a. /\ j \in 1 .. Len(o)
          /\ \A k \in (j + 1) .. (i - 1) : k \in 1 .. Len(o)
      <4>1. i \in Int /\ i <= Len(o) /\ Len(o) \in Nat
        BY <1>1, <3>1
      <4>2. QED
        BY <4>1
    <3>3. oe[j] = o[j] /\ \A k \in (j + 1) .. (i - 1) : oe[k] = o[k]
      BY <1>1, <3>a
    <3>4. /\ Reported(oe[j])
          /\ oe[j].seq = oe[i].seq - 1
          /\ \A k \in (j + 1) .. (i - 1) : ~Reported(oe[k]) /\ ~Boundary(oe[k])
      BY <3>1, <3>2, <3>3
    <3>5. QED
      BY <3>4
  <2>3. CASE i = Len(o) + 1
    <3>1. 1 \in 1 .. Len(e)
      BY <1>1, <2>3
    <3>2. oe[i].seq = n + 1 - 1
      BY <1>2, <2>3, <3>1
    <3>3. oe[i].seq = n /\ n > 0
      BY <2>1, <3>2
    <3>4. PICK j \in 1 .. Len(o) :
             /\ Reported(o[j])
             /\ o[j].seq = n - 1
             /\ \A k \in (j + 1) .. Len(o) : ~Reported(o[k]) /\ ~Boundary(o[k])
      BY <3>3 DEF AtSeq
    <3>5. j \in 1 .. (i - 1) /\ \A k \in (j + 1) .. (i - 1) : k \in (j + 1) .. Len(o)
                                                          /\ k \in 1 .. Len(o)
      BY <1>1, <2>3
    <3>6. QED
      BY <1>1, <3>3, <3>4, <3>5
  <2>4. CASE i > Len(o) + 1
    <3> DEFINE t == i - Len(o)
    <3>1. /\ t \in 1 .. Len(e) /\ t - 1 \in 1 .. Len(e)
          /\ i = Len(o) + t /\ i - 1 = Len(o) + (t - 1)
          /\ i - 1 \in 1 .. (i - 1)
          /\ (i - 1 + 1) .. (i - 1) = {}
      BY <1>1, <2>4
    <3>2. oe[i].seq = n + t - 1
      BY <1>2, <3>1
    <3>3. Reported(oe[i - 1]) /\ oe[i - 1].seq = n + (t - 1) - 1
      BY <1>2, <3>1
    <3>4. oe[i - 1].seq = oe[i].seq - 1
      BY <1>1, <3>1, <3>2, <3>3
    <3>5. QED
      BY <3>1, <3>3, <3>4
  <2>5. QED
    BY <1>1, <2>2, <2>3, <2>4
<1>5. QED
  BY <1>3, <1>4 DEF oe

\* The end of a turn reports nothing.
LEMMA FinishSilent ==
    ASSUME TypeOK, NEW a \in SUBSET Chunks, NEW b \in BOOLEAN, NEW n \in Nat
    PROVE  /\ Finish(a, b, n) \in Seq(Event)
           /\ \A i \in 1 .. Len(Finish(a, b, n)) : ~Reported(Finish(a, b, n)[i])
<1>1. Finish(a, b, n) \in Seq(Event)
  BY FinishFacts DEF TypeOK
<1>2. CASE Finish(a, b, n) = <<>>
  BY <1>1, <1>2
<1>3. ASSUME NEW e \in Event, e.kind = "complete", Finish(a, b, n) = <<e>>
      PROVE  \A i \in 1 .. Len(Finish(a, b, n)) : ~Reported(Finish(a, b, n)[i])
  BY <1>3 DEF Reported
<1>4. QED
  BY <1>1, <1>2, <1>3, FinishFacts DEF TypeOK

LEMMA OrderDrain ==
    ASSUME TypeOK, OrderInv, DrainStep
    PROVE  OrderInv'
<1>1. PICK p, f, exp :
        /\ DOMAIN p \subseteq Seqs /\ p \in [DOMAIN p -> Audio]
        /\ DOMAIN f \subseteq Seqs /\ f \in [DOMAIN f -> Nat]
        /\ Drain(p, f, exp)
  BY DEF DrainStep
<1>2. PICK gap \in nextSeq .. MaxSeq :
              /\ Drained(p, gap) \in Seq(Event)
              /\ \/ /\ \E n \in Nat :
                          out' = out \o Drained(p, gap) \o Finish(parts, FALSE, n)
                    /\ ResetTurn
                 \/ /\ out' = out \o Drained(p, gap)
                    /\ nextSeq' = gap
  BY <1>1, DrainFacts
<1> DEFINE d == Drained(p, gap)
<1>3. /\ out \in Seq(Event) /\ nextSeq \in Nat /\ gap \in Nat /\ gap >= nextSeq
      /\ parts \in SUBSET Chunks
  BY StagedAssumption DEF TypeOK
<1>4. /\ Len(d) = gap - nextSeq
      /\ \A i \in 1 .. Len(d) : Reported(d[i]) /\ d[i].seq = nextSeq + i - 1
  <2>1. Len(d) = gap - nextSeq
    BY <1>3 DEF Drained
  <2>2. SUFFICES ASSUME NEW i \in 1 .. (gap - nextSeq)
                 PROVE  Reported(d[i]) /\ d[i].seq = nextSeq + i - 1
    BY <2>1
  <2>3. d[i] = Report(p, nextSeq + i - 1)
    BY DEF Drained
  <2> HIDE DEF d
  <2>4. QED
    BY <2>3 DEF Report, Reported
<1>5. d \in Seq(Event)
  BY <1>2
<1> HIDE DEF d
<1>6. /\ Ordered(out \o d) /\ AtSeq(out \o d, nextSeq + Len(d))
      /\ out \o d \in Seq(Event)
  BY <1>3, <1>4, <1>5, OrderedRun, ConcatFacts DEF OrderInv
<1>7. nextSeq + Len(d) = gap
  BY <1>3, <1>4
<1>8. CASE /\ out' = out \o d
           /\ nextSeq' = gap
  BY <1>6, <1>7, <1>8 DEF OrderInv
<1>9. ASSUME NEW n \in Nat, out' = out \o d \o Finish(parts, FALSE, n), ResetTurn
      PROVE  OrderInv'
  <2>1. Ordered(out')
    BY <1>3, <1>6, <1>9, FinishSilent, OrderedSilent
  <2>2. nextSeq' = 0
    BY <1>9 DEF ResetTurn
  <2>3. AtSeq(out', nextSeq')
    BY <2>2 DEF AtSeq
  <2>4. QED
    BY <2>1, <2>3 DEF OrderInv
<1>10. QED
  BY <1>2, <1>8, <1>9 DEF d

LEMMA OrderCut ==
    ASSUME TypeOK, OrderInv, CutStep
    PROVE  OrderInv'
<1>1. PICK upTo :
        \/ out' = out \o CutEvents(upTo)
        \/ \E e \in Event : /\ e.kind = "turn"
                            /\ out' = out \o CutEvents(upTo) \o <<e>>
  BY DEF CutStep
<1>2. out \in Seq(Event) /\ TurnOK /\ emitted \in Nat /\ gen \in Nat
  BY DEF TypeOK, TurnOK
<1>3. HeardText(upTo) \in SUBSET Chunks
  BY <1>2, CutEventsFacts
<1>4. PICK c \in Event : /\ c.kind = "cut"
                         /\ CutEvents(upTo) =
                              <<c>> \o Finish(HeardText(upTo), TRUE, emitted)
  BY <1>2, CutEventsFacts
<1> DEFINE fin == Finish(HeardText(upTo), TRUE, emitted)
<1>5. fin \in Seq(Event) /\ \A i \in 1 .. Len(fin) : ~Reported(fin[i])
  BY <1>2, <1>3, FinishSilent
<1>6. CutEvents(upTo) = <<c>> \o fin
  BY <1>4
<1> HIDE DEF fin
<1>7. <<c>> \in Seq(Event) /\ \A i \in 1 .. Len(<<c>>) : ~Reported(<<c>>[i])
  BY <1>4 DEF Reported
<1>8. Ordered(out \o <<c>>) /\ out \o <<c>> \in Seq(Event)
  BY <1>2, <1>7, OrderedSilent, ConcatFacts DEF OrderInv
<1>9. /\ Ordered((out \o <<c>>) \o fin)
      /\ (out \o <<c>>) \o fin \in Seq(Event)
  BY <1>5, <1>8, OrderedSilent, ConcatFacts
<1>10. (out \o <<c>>) \o fin = out \o CutEvents(upTo)
  BY <1>2, <1>5, <1>6, <1>7, ConcatAssociative
<1>11. Ordered(out')
  <2>1. CASE out' = out \o CutEvents(upTo)
    BY <1>9, <1>10, <2>1
  <2>2. ASSUME NEW e \in Event, e.kind = "turn",
               out' = out \o CutEvents(upTo) \o <<e>>
        PROVE  Ordered(out')
    <3>1. <<e>> \in Seq(Event) /\ \A i \in 1 .. Len(<<e>>) : ~Reported(<<e>>[i])
      BY <2>2 DEF Reported
    <3>2. QED
      BY <1>9, <1>10, <2>2, <3>1, OrderedSilent
  <2>3. QED
    BY <1>1, <2>1, <2>2
<1>12. nextSeq' = 0
  BY DEF CutStep
<1>13. QED
  BY <1>11, <1>12 DEF OrderInv, AtSeq

LEMMA OrderNext ==
    ASSUME TypeOK, OrderInv, [Next]_vars
    PROVE  OrderInv'
<1>1. CASE Idle
  BY <1>1 DEF Idle, OrderInv, Ordered, AtSeq
<1>2. CASE Speech
  <2>1. PICK e \in Event : /\ e.kind \in {"turn", "ack", "chunk"}
                           /\ out' = Append(out, e)
                           /\ nextSeq' = nextSeq
    BY <1>2 DEF Speech
  <2>2. out \in Seq(Event) /\ nextSeq \in Nat
    BY DEF TypeOK
  <2>3. out' = out \o <<e>>
    BY <2>1, <2>2, AppendIsConcat
  <2>4. /\ <<e>> \in Seq(Event)
        /\ \A i \in 1 .. Len(<<e>>) : ~Reported(<<e>>[i]) /\ ~Boundary(<<e>>[i])
    BY <2>1 DEF Reported, Boundary
  <2>5. Ordered(out') /\ AtSeq(out', nextSeq)
    BY <2>2, <2>3, <2>4, OrderedSilent, AtSeqSilent DEF OrderInv
  <2>6. QED
    BY <2>1, <2>5 DEF OrderInv
<1>3. QED
  BY <1>1, <1>2, OrderDrain, OrderCut, StepCases

\* Property 2 for every client: each chunk is played, or reported lost, right
\* after its predecessor, although synthesis ends in any order.
THEOREM EmissionInOrder == Spec => []OrderedEmission
<1>1. Init => OrderInv
  BY DEF Init, OrderInv, Ordered, AtSeq
<1>2. TypeOK /\ OrderInv /\ [Next]_vars => OrderInv'
  BY OrderNext
<1>3. TypeOK /\ OrderInv => OrderedEmission
  <2>1. TypeOK => out \in Seq(Event)
    BY DEF TypeOK
  <2>2. QED
    BY <2>1, LenProperties
       DEF OrderInv, Ordered, OrderedEmission, Follows, Reported, Boundary
<1>4. QED
  BY <1>1, <1>2, <1>3, TypeCorrect, PTL DEF Spec

-----------------------------------------------------------------------------
(* No turn completes twice. *)

Talk(e) == e.kind \in {"turn", "chunk"}

Complete(e) == e.kind = "complete"

\* A turn has completed and nobody has spoken since.
Quiet(o) ==
    \E i \in 1 .. Len(o) :
        Complete(o[i]) /\ \A k \in (i + 1) .. Len(o) : ~Talk(o[k])

OnceEach(o) ==
    \A i, j \in 1 .. Len(o) :
        (i < j /\ Complete(o[i]) /\ Complete(o[j]))
            => \E k \in (i + 1) .. (j - 1) : Talk(o[k])

\* What makes NoTurnCompletesTwice inductive: while nobody has spoken since the
\* last completion the turn holds no words to complete with.
OnceInv ==
    /\ OnceEach(out)
    /\ Quiet(out) => userText = None /\ parts = {} /\ DOMAIN chunkText = {}

LEMMA OnceSilent ==
    ASSUME NEW o \in Seq(Event), NEW e \in Seq(Event), OnceEach(o),
           \A i \in 1 .. Len(e) : ~Complete(e[i])
    PROVE  OnceEach(o \o e)
<1>1. /\ Len(o) \in Nat /\ Len(e) \in Nat
      /\ Len(o \o e) = Len(o) + Len(e)
      /\ \A i \in 1 .. Len(o) : (o \o e)[i] = o[i]
      /\ \A i \in (Len(o) + 1) .. (Len(o) + Len(e)) :
            (o \o e)[i] = e[i - Len(o)]
  BY ConcatFacts
<1>2. SUFFICES ASSUME NEW i \in 1 .. Len(o \o e), NEW j \in 1 .. Len(o \o e),
                      i < j, Complete((o \o e)[i]), Complete((o \o e)[j])
               PROVE  \E k \in (i + 1) .. (j - 1) : Talk((o \o e)[k])
  BY DEF OnceEach
<1>3. j \in 1 .. Len(o)
  <2>1. SUFFICES ASSUME j > Len(o)
                 PROVE  FALSE
    BY <1>1
  <2>2. j - Len(o) \in 1 .. Len(e) /\ (o \o e)[j] = e[j - Len(o)]
    BY <1>1, <2>1
  <2>3. QED
    BY <1>2, <2>2
<1>4. i \in 1 .. Len(o) /\ (o \o e)[i] = o[i] /\ (o \o e)[j] = o[j]
  BY <1>1, <1>2, <1>3
<1>5. PICK k \in (i + 1) .. (j - 1) : Talk(o[k])
  BY <1>2, <1>3, <1>4 DEF OnceEach
<1>6. (o \o e)[k] = o[k]
  BY <1>1, <1>3, <1>4
<1>7. QED
  BY <1>5, <1>6

LEMMA QuietSilent ==
    ASSUME NEW o \in Seq(Event), NEW e \in Seq(Event), Quiet(o \o e),
           \A i \in 1 .. Len(e) : ~Complete(e[i])
    PROVE  Quiet(o)
<1>1. /\ Len(o) \in Nat /\ Len(e) \in Nat
      /\ Len(o \o e) = Len(o) + Len(e)
      /\ \A i \in 1 .. Len(o) : (o \o e)[i] = o[i]
      /\ \A i \in (Len(o) + 1) .. (Len(o) + Len(e)) :
            (o \o e)[i] = e[i - Len(o)]
  BY ConcatFacts
<1>2. PICK i \in 1 .. Len(o \o e) :
        /\ Complete((o \o e)[i])
        /\ \A k \in (i + 1) .. Len(o \o e) : ~Talk((o \o e)[k])
  BY DEF Quiet
<1>3. i \in 1 .. Len(o)
  <2>1. SUFFICES ASSUME i > Len(o)
                 PROVE  FALSE
    BY <1>1
  <2>2. i - Len(o) \in 1 .. Len(e) /\ (o \o e)[i] = e[i - Len(o)]
    BY <1>1, <2>1
  <2>3. QED
    BY <1>2, <2>2
<1>4. Complete(o[i])
  BY <1>1, <1>2, <1>3
<1>5. \A k \in (i + 1) .. Len(o) : ~Talk(o[k])
  <2>1. SUFFICES ASSUME NEW k \in (i + 1) .. Len(o)
                 PROVE  ~Talk(o[k])
    OBVIOUS
  <2>2. k \in (i + 1) .. Len(o \o e) /\ (o \o e)[k] = o[k]
    BY <1>1, <1>3
  <2>3. QED
    BY <1>2, <2>2
<1>6. QED
  BY <1>3, <1>4, <1>5 DEF Quiet

\* A completion may follow once somebody has spoken.
LEMMA OnceComplete ==
    ASSUME NEW o \in Seq(Event), NEW c \in Event, OnceEach(o), ~Quiet(o)
    PROVE  OnceEach(o \o <<c>>)
<1> DEFINE oc == o \o <<c>>
<1>1. /\ Len(o) \in Nat /\ Len(oc) = Len(o) + 1
      /\ \A i \in 1 .. Len(o) : oc[i] = o[i]
  <2>1. <<c>> \in Seq(Event) /\ Len(<<c>>) = 1
    OBVIOUS
  <2>2. QED
    BY <2>1, ConcatFacts
<1> HIDE DEF oc
<1>2. SUFFICES ASSUME NEW i \in 1 .. Len(oc), NEW j \in 1 .. Len(oc),
                      i < j, Complete(oc[i]), Complete(oc[j])
               PROVE  \E k \in (i + 1) .. (j - 1) : Talk(oc[k])
  BY DEF OnceEach, oc
<1>3. i \in 1 .. Len(o) /\ Complete(o[i])
  BY <1>1, <1>2
<1>4. PICK k \in (i + 1) .. (j - 1) : k \in 1 .. Len(o) /\ Talk(o[k])
  <2>1. CASE j <= Len(o)
    <3>1. j \in 1 .. Len(o) /\ Complete(o[j])
      BY <1>1, <1>2, <2>1
    <3>2. PICK k \in (i + 1) .. (j - 1) : Talk(o[k])
      BY <1>2, <1>3, <3>1 DEF OnceEach
    <3>3. k \in 1 .. Len(o)
      BY <1>1, <1>3, <3>1
    <3>4. QED
      BY <3>2, <3>3
  <2>2. CASE j > Len(o)
    <3>1. j - 1 = Len(o)
      BY <1>1, <2>2
    <3>2. PICK k \in (i + 1) .. Len(o) : Talk(o[k])
      BY <1>3 DEF Quiet
    <3>3. QED
      BY <1>1, <1>3, <3>1, <3>2
  <2>3. QED
    BY <1>1, <2>1, <2>2
<1>5. oc[k] = o[k]
  BY <1>1, <1>4
<1>6. QED
  BY <1>4, <1>5

LEMMA NotQuietAfterTalk ==
    ASSUME NEW o \in Seq(Event), NEW e \in Event, Talk(e)
    PROVE  ~Quiet(o \o <<e>>)
<1>1. Complete(e) => FALSE
  BY DEF Complete, Talk
<1>2. /\ Len(o) \in Nat /\ Len(o \o <<e>>) = Len(o) + 1
      /\ (o \o <<e>>)[Len(o) + 1] = e
  OBVIOUS
<1>3. SUFFICES ASSUME NEW i \in 1 .. Len(o \o <<e>>), Complete((o \o <<e>>)[i]),
                      \A k \in (i + 1) .. Len(o \o <<e>>) : ~Talk((o \o <<e>>)[k])
               PROVE  FALSE
  BY DEF Quiet
<1>4. CASE i = Len(o) + 1
  BY <1>1, <1>2, <1>3, <1>4
<1>5. CASE i # Len(o) + 1
  <2>1. Len(o) + 1 \in (i + 1) .. Len(o \o <<e>>)
    BY <1>2, <1>5
  <2>2. QED
    BY <1>2, <1>3, <2>1
<1>6. QED
  BY <1>4, <1>5

\* The TurnComplete of a turn in which something was said.
LEMMA OnceFinish ==
    ASSUME TypeOK, NEW o \in Seq(Event), OnceEach(o),
           NEW a \in SUBSET Chunks, NEW b \in BOOLEAN, NEW n \in Nat,
           Quiet(o) => userText = None /\ a = {}
    PROVE  /\ o \o Finish(a, b, n) \in Seq(Event)
           /\ OnceEach(o \o Finish(a, b, n))
<1>1. Finish(a, b, n) \in Seq(Event)
  BY FinishFacts DEF TypeOK
<1>2. CASE Finish(a, b, n) = <<>>
  BY <1>2, ConcatEmptySeq
<1>3. CASE Finish(a, b, n) # <<>>
  <2>1. PICK e \in Event : Finish(a, b, n) = <<e>>
    BY <1>3, FinishFacts DEF TypeOK
  <2>2. ~Quiet(o)
    BY <1>3 DEF Finish
  <2>3. QED
    BY <1>1, <2>1, <2>2, OnceComplete, ConcatFacts
<1>4. QED
  BY <1>1, <1>2, <1>3, ConcatFacts

LEMMA OnceDrain ==
    ASSUME TypeOK, OnceInv, DrainStep
    PROVE  OnceInv'
<1>1. PICK p, f, exp :
        /\ DOMAIN p \subseteq Seqs /\ p \in [DOMAIN p -> Audio]
        /\ DOMAIN f \subseteq Seqs /\ f \in [DOMAIN f -> Nat]
        /\ Drain(p, f, exp)
  BY DEF DrainStep
<1>2. PICK gap \in nextSeq .. MaxSeq :
              /\ Drained(p, gap) \in Seq(Event)
              /\ \/ /\ \E n \in Nat :
                          out' = out \o Drained(p, gap) \o Finish(parts, FALSE, n)
                    /\ ResetTurn
                 \/ /\ out' = out \o Drained(p, gap)
                    /\ UNCHANGED <<userText, chunkText, parts>>
  BY <1>1, DrainFacts
<1> DEFINE d == Drained(p, gap)
<1>3. /\ out \in Seq(Event) /\ nextSeq \in Nat /\ gap \in Nat
      /\ parts \in SUBSET Chunks
  BY StagedAssumption DEF TypeOK
<1>4. d \in Seq(Event) /\ \A i \in 1 .. Len(d) : ~Complete(d[i])
  <2>1. SUFFICES ASSUME NEW i \in 1 .. (gap - nextSeq)
                 PROVE  ~Complete(d[i])
    BY <1>2, <1>3 DEF Drained
  <2>2. d[i] = Report(p, nextSeq + i - 1)
    BY DEF Drained
  <2> HIDE DEF d
  <2>3. QED
    BY <2>2 DEF Report, Complete
<1> HIDE DEF d
<1>5. OnceEach(out \o d) /\ out \o d \in Seq(Event)
  BY <1>3, <1>4, OnceSilent, ConcatFacts DEF OnceInv
<1>6. Quiet(out \o d) => userText = None /\ parts = {} /\ DOMAIN chunkText = {}
  BY <1>3, <1>4, QuietSilent DEF OnceInv
<1>7. CASE out' = out \o d /\ UNCHANGED <<userText, chunkText, parts>>
  BY <1>5, <1>6, <1>7 DEF OnceInv
<1>8. ASSUME NEW n \in Nat, out' = out \o d \o Finish(parts, FALSE, n), ResetTurn
      PROVE  OnceInv'
  <2>1. OnceEach(out')
    BY <1>3, <1>5, <1>6, <1>8, OnceFinish
  <2>2. userText' = None /\ parts' = {} /\ DOMAIN chunkText' = {}
    BY <1>8 DEF ResetTurn, EmptyMap
  <2>3. QED
    BY <2>1, <2>2 DEF OnceInv
<1>9. QED
  BY <1>2, <1>7, <1>8 DEF d

LEMMA OnceCut ==
    ASSUME TypeOK, OnceInv, CutStep
    PROVE  OnceInv'
<1>1. PICK upTo :
        \/ out' = out \o CutEvents(upTo) /\ userText' = None
        \/ \E e \in Event : /\ e.kind = "turn"
                            /\ out' = out \o CutEvents(upTo) \o <<e>>
  BY DEF CutStep
<1>2. out \in Seq(Event) /\ TurnOK /\ emitted \in Nat /\ gen \in Nat
  BY DEF TypeOK, TurnOK
<1>3. HeardText(upTo) \in SUBSET Chunks
  BY <1>2, CutEventsFacts
<1>4. PICK c \in Event : /\ c.kind = "cut"
                         /\ CutEvents(upTo) =
                              <<c>> \o Finish(HeardText(upTo), TRUE, emitted)
  BY <1>2, CutEventsFacts
<1> DEFINE fin == Finish(HeardText(upTo), TRUE, emitted)
<1>5. <<c>> \in Seq(Event) /\ \A i \in 1 .. Len(<<c>>) : ~Complete(<<c>>[i])
  BY <1>4 DEF Complete
<1>6. OnceEach(out \o <<c>>) /\ out \o <<c>> \in Seq(Event)
  BY <1>2, <1>5, OnceSilent, ConcatFacts DEF OnceInv
<1>7. Quiet(out \o <<c>>) => userText = None /\ HeardText(upTo) = {}
  BY <1>2, <1>5, QuietSilent DEF OnceInv, HeardText
<1>8. OnceEach((out \o <<c>>) \o fin) /\ (out \o <<c>>) \o fin \in Seq(Event)
  <2>1. TRUE \in BOOLEAN
    OBVIOUS
  <2>2. QED
    BY <1>2, <1>3, <1>6, <1>7, <2>1, OnceFinish
<1>9. (out \o <<c>>) \o fin = out \o CutEvents(upTo)
  <2>1. fin \in Seq(Event) /\ CutEvents(upTo) = <<c>> \o fin
    BY <1>2, <1>3, <1>4, FinishFacts DEF TypeOK
  <2> HIDE DEF fin
  <2>2. QED
    BY <1>2, <1>5, <2>1, ConcatAssociative
<1> HIDE DEF fin
<1>10. CASE out' = out \o CutEvents(upTo) /\ userText' = None
  <2>1. parts' = {} /\ DOMAIN chunkText' = {}
    BY DEF CutStep, EmptyMap
  <2>2. QED
    BY <1>8, <1>9, <1>10, <2>1 DEF OnceInv
<1>11. ASSUME NEW e \in Event, e.kind = "turn",
              out' = out \o CutEvents(upTo) \o <<e>>
       PROVE  OnceInv'
  <2> DEFINE o == (out \o <<c>>) \o fin
  <2>1. o \in Seq(Event) /\ OnceEach(o) /\ out' = o \o <<e>>
    BY <1>8, <1>9, <1>11
  <2> HIDE DEF o
  <2>2. <<e>> \in Seq(Event) /\ \A i \in 1 .. Len(<<e>>) : ~Complete(<<e>>[i])
    BY <1>11 DEF Complete
  <2>3. OnceEach(out')
    BY <2>1, <2>2, OnceSilent
  <2>4. ~Quiet(out')
    BY <1>11, <2>1, NotQuietAfterTalk DEF Talk
  <2>5. QED
    BY <2>3, <2>4 DEF OnceInv
<1>12. QED
  BY <1>1, <1>10, <1>11

LEMMA OnceNext ==
    ASSUME TypeOK, OnceInv, [Next]_vars
    PROVE  OnceInv'
<1>1. CASE Idle
  BY <1>1 DEF Idle, OnceInv, OnceEach, Quiet
<1>2. CASE Speech
  <2>1. PICK e \in Event :
          /\ e.kind \in {"turn", "ack", "chunk"}
          /\ out' = Append(out, e)
          /\ e.kind = "ack" => UNCHANGED <<userText, chunkText, parts>>
    BY <1>2 DEF Speech
  <2>2. out \in Seq(Event)
    BY DEF TypeOK
  <2>3. out' = out \o <<e>>
    BY <2>1, <2>2, AppendIsConcat
  <2>4. <<e>> \in Seq(Event) /\ \A i \in 1 .. Len(<<e>>) : ~Complete(<<e>>[i])
    BY <2>1 DEF Complete
  <2>5. OnceEach(out')
    BY <2>2, <2>3, <2>4, OnceSilent DEF OnceInv
  <2>6. CASE e.kind = "ack"
    <3>1. Quiet(out') => Quiet(out)
      BY <2>2, <2>3, <2>4, QuietSilent
    <3>2. QED
      BY <2>1, <2>5, <2>6, <3>1 DEF OnceInv
  <2>7. CASE e.kind # "ack"
    <3>1. ~Quiet(out')
      BY <2>1, <2>2, <2>3, <2>7, NotQuietAfterTalk DEF Talk
    <3>2. QED
      BY <2>5, <3>1 DEF OnceInv
  <2>8. QED
    BY <2>6, <2>7
<1>3. QED
  BY <1>1, <1>2, OnceDrain, OnceCut, StepCases

\* Property 3 for every client, its "at most once" half: no turn is completed a
\* second time, because completing one leaves no words to complete with.
THEOREM CompletesOnce == Spec => []NoTurnCompletesTwice
<1>1. Init => OnceInv
  BY DEF Init, OnceInv, OnceEach, EmptyMap
<1>2. TypeOK /\ OnceInv /\ [Next]_vars => OnceInv'
  BY OnceNext
<1>3. TypeOK /\ OnceInv => NoTurnCompletesTwice
  <2>1. TypeOK => out \in Seq(Event)
    BY DEF TypeOK
  <2>2. QED
    BY <2>1, LenProperties DEF OnceInv, OnceEach, NoTurnCompletesTwice, Talk, Complete
<1>4. QED
  BY <1>1, <1>2, <1>3, TypeCorrect, PTL DEF Spec

-----------------------------------------------------------------------------
(* The session and a client who types.                                     *)

\* The turn under way before event i is the one that event t began.
OpenAt(o, t, i) ==
    /\ t \in 1 .. (i - 1)
    /\ o[t].kind = "turn"
    /\ \A k \in (t + 1) .. (i - 1) : o[k].kind # "turn"

\* What VoiceTalk promises, of one event: audio is of its turn, ...
AudioOK(o, i) ==
    o[i].kind = "audio" =>
        \E t \in Nat : OpenAt(o, t, i) /\ o[i].chunk[1] = o[t].user

\* ... a completed turn accounts for its chunks, ...
CompleteOK(o, i) ==
    o[i].kind = "complete" =>
        \E t \in Nat :
            /\ OpenAt(o, t, i) /\ o[i].user = o[t].user
            /\ o[i].chunks = Cardinality({j \in t .. (i - 1) : o[j].kind = "audio"})
            /\ ~o[i].interrupted =>
                  {o[j].seq : j \in {j \in t .. (i - 1) : Reported(o[j])}}
                      = 0 .. (ReplyLen[o[i].user] - 1)

\* ... and the record of a cut one is what was heard.
CutOK(o, i, cuts) ==
    (o[i].kind = "complete" /\ o[i].interrupted) =>
        /\ o[i].user \in DOMAIN cuts
        /\ Cardinality(o[i].assistant) <= cuts[o[i].user]
        /\ \A c \in o[i].assistant :
              \E t \in Nat, j \in Nat : /\ OpenAt(o, t, i) /\ j \in t .. (i - 1)
                                        /\ o[j].kind = "audio" /\ o[j].chunk = c

Kept(o, cuts) == \A i \in 1 .. Len(o) : AudioOK(o, i) /\ CompleteOK(o, i) /\ CutOK(o, i, cuts)

\* Between turns the session has nothing of any, and no synthesis it waits for.
AtRest ==
    /\ userText = None /\ chunkText = EmptyMap /\ parts = {} /\ spoken = {}
    /\ pending = EmptyMap /\ failed = EmptyMap
    /\ nextSeq = 0 /\ emitted = 0 /\ expected = None
    /\ \A i \in 1 .. Len(tasks) : tasks[i].gen # gen

\* What event t and those after it have told of the turn of v: chunks below n,
\* each once, those in S as audio.
ToldOf(o, t, v, n, S) ==
    /\ \A j \in (t + 1) .. Len(o) :
          /\ Reported(o[j]) => o[j].seq \in 0 .. (n - 1)
          /\ o[j].kind = "audio" => o[j].seq \in S /\ o[j].chunk = <<v, o[j].seq>>
    /\ \A s \in 0 .. (n - 1) :
          \E j \in (t + 1) .. Len(o) :
              Reported(o[j]) /\ o[j].seq = s /\ (s \in S => o[j].kind = "audio")
    /\ \A j, k \in (t + 1) .. Len(o) :
          (Reported(o[j]) /\ Reported(o[k]) /\ o[j].seq = o[k].seq) => j = k

\* The chunks of v's reply that wait: in synthesis, buffered, failed.
Waiting(ts, g, p, f, v, from, n) ==
    /\ DOMAIN p \subseteq from .. (n - 1)
    /\ DOMAIN f \subseteq from .. (n - 1)
    /\ DOMAIN p \cap DOMAIN f = {}
    /\ \A s \in DOMAIN p : p[s].chunk = <<v, s>>
    /\ \A i \in 1 .. Len(ts) : ts[i].gen = g =>
          /\ ts[i].seq \in (from .. (n - 1)) \ (DOMAIN p \cup DOMAIN f)
          /\ ts[i].chunk = <<v, ts[i].seq>>
          /\ \A j \in 1 .. Len(ts) : (ts[j].gen = g /\ ts[j].seq = ts[i].seq) => j = i

\* The session is in the turn of v, begun by event t, and has received n chunks.
Busy(t, v, n) ==
    /\ v \in Utterances /\ userText = v
    /\ n \in 0 .. ReplyLen[v]
    /\ OpenAt(out, t, Len(out) + 1) /\ out[t].user = v
    /\ \A j \in (t + 1) .. Len(out) : out[j].kind \notin {"cut", "complete"}
    /\ DOMAIN chunkText = 0 .. (n - 1)
    /\ \A s \in 0 .. (n - 1) : chunkText[s] = <<v, s>>
    /\ nextSeq <= n /\ spoken \subseteq 0 .. (nextSeq - 1) /\ emitted = Cardinality(spoken)
    /\ ToldOf(out, t, v, nextSeq, spoken)
    /\ Waiting(tasks, gen, pending, failed, v, nextSeq, n)
    /\ expected # None => expected = n /\ n = ReplyLen[v]

SessionInv == AtRest \/ \E t, n \in Nat, v \in Utterances : Busy(t, v, n)

\* A turn is begun once for an utterance, and only for one that was typed.
TurnsInv ==
    /\ \A i \in 1 .. Len(out) : out[i].kind = "turn" => out[i].user \in asked
    /\ \A i, j \in 1 .. Len(out) :
          (out[i].kind = "turn" /\ out[j].kind = "turn" /\ out[i].user = out[j].user) => i = j
    /\ \A i \in 1 .. Len(out) : out[i].kind = "cut" => out[i].gen <= gen

\* Frames of a reply are those its turn still misses, in order, and come before
\* any other turn or cut.
ReplyFrame(k) ==
    /\ wire[k].kind \in {"speak", "end"} =>
          /\ userText # None /\ expected = None
          /\ \A j \in 1 .. (k - 1) : wire[j].kind \notin {"text", "interrupt"}
    /\ wire[k].kind = "speak" =>
          /\ wire[k].chunk = <<userText, wire[k].seq>>
          /\ wire[k].seq < ReplyLen[userText] /\ wire[k].seq \notin DOMAIN chunkText
          /\ \A s \in 0 .. (wire[k].seq - 1) :
                \/ s \in DOMAIN chunkText
                \/ \E j \in 1 .. (k - 1) : wire[j].kind = "speak" /\ wire[j].seq = s
          /\ \A j \in 1 .. (k - 1) : wire[j].kind = "speak" => wire[j].seq < wire[k].seq
    /\ wire[k].kind = "end" =>
          /\ wire[k].total = ReplyLen[userText]
          /\ \A j \in (k + 1) .. Len(wire) : wire[j].kind \notin {"speak", "end"}
          /\ \A s \in 0 .. (ReplyLen[userText] - 1) :
                \/ s \in DOMAIN chunkText
                \/ \E j \in 1 .. (k - 1) : wire[j].kind = "speak" /\ wire[j].seq = s

RepliesInv == \A k \in 1 .. Len(wire) : ReplyFrame(k)

\* Between two texts the user has tapped; a text is of a turn not begun yet.
TextFrame(k) ==
    wire[k].kind = "text" =>
        /\ wire[k].user \in asked
        /\ \A i \in 1 .. Len(out) : out[i].kind = "turn" => out[i].user # wire[k].user
        /\ \A j \in 1 .. (k - 1) : wire[j].kind = "text" =>
              /\ wire[j].user # wire[k].user
              /\ \E l \in (j + 1) .. (k - 1) : wire[l].kind = "interrupt"
        /\ (\A j \in 1 .. (k - 1) : wire[j].kind # "interrupt") => userText = None

TextsInv == \A k \in 1 .. Len(wire) : TextFrame(k)

\* A tap is about the turn before it, and has what was heard of that.
TapsInv ==
    \A k \in 1 .. Len(wire) : wire[k].kind = "interrupt" =>
        /\ \A j \in 1 .. (k - 1) : wire[j].kind = "text" =>
              /\ wire[j].user \in DOMAIN cutAt
              /\ (\A l \in (j + 1) .. (k - 1) : wire[l].kind \notin {"text", "interrupt"})
                    => cutAt[wire[j].user] = wire[k].heard
        /\ userText # None =>
              /\ userText \in DOMAIN cutAt
              /\ (\A l \in 1 .. (k - 1) : wire[l].kind \notin {"text", "interrupt"})
                    => cutAt[userText] = wire[k].heard

Taps(w) == Cardinality({k \in 1 .. Len(w) : w[k].kind = "interrupt"})

\* Only the playback state is on its way.
Still == \A k \in 1 .. Len(wire) : wire[k].kind = "speaking"

\* The turns before event i that the client has yet to read were cut by the user.
UnreadCut(i) ==
    \A j \in (read + 1) .. (i - 1) : out[j].kind = "turn" => out[j].user \in DOMAIN cutAt

Unread(kinds) == \E j \in (read + 1) .. Len(out) : out[j].kind \in kinds

\* Where the client is: no turn is open, and what went before was cut, ...
Away ==
    /\ open = None /\ reply = NoReply /\ UnreadCut(Len(out) + 1)
    /\ \A k \in 1 .. Len(wire) : wire[k].kind = "text" =>
          \E l \in (k + 1) .. Len(wire) : wire[l].kind = "interrupt"
    /\ userText # None => \E l \in 1 .. Len(wire) : wire[l].kind = "interrupt"

\* ... the user's text is on its way, ...
Typing ==
    /\ open \in Utterances \ DOMAIN cutAt /\ reply = NoReply /\ UnreadCut(Len(out) + 1)
    /\ \E k \in 1 .. Len(wire) :
          /\ wire[k].kind = "text" /\ wire[k].user = open
          /\ \A l \in (k + 1) .. Len(wire) : wire[l].kind = "speaking"

\* ... the session has it and the client does not know yet, ...
Begun ==
    /\ open \in Utterances \ DOMAIN cutAt /\ reply = NoReply /\ Still
    /\ Busy(Len(out), open, 0) /\ expected = None
    /\ read < Len(out) /\ UnreadCut(Len(out))

\* ... the reply is being sent, ...
Replying ==
    /\ open \in Utterances \ DOMAIN cutAt /\ reply.turn = open /\ userText = open
    /\ \A k \in 1 .. Len(wire) : wire[k].kind \notin {"text", "interrupt"}
    /\ ~Unread({"turn", "cut", "complete"})
    /\ \A s \in 0 .. (ReplyLen[open] - 1) :
          s < reply.sent <=> \/ s \in DOMAIN chunkText
                             \/ \E k \in 1 .. Len(wire) :
                                   wire[k].kind = "speak" /\ wire[k].seq = s
    /\ reply.sent = ReplyLen[open] + 1 <=>
          expected # None \/ \E k \in 1 .. Len(wire) : wire[k].kind = "end"

\* ... the turn is complete and the client does not know yet, ...
Completed ==
    /\ open \in Utterances \ DOMAIN cutAt /\ reply.turn = open
    /\ reply.sent = ReplyLen[open] + 1
    /\ Still /\ AtRest /\ read < Len(out)
    /\ out[Len(out)].kind = "complete" /\ out[Len(out)].user = open
    /\ \A j \in (read + 1) .. (Len(out) - 1) : out[j].kind \notin {"turn", "cut", "complete"}

\* ... or it does, and may still be playing.
Resting ==
    /\ open = None /\ reply.turn \in Utterances \ DOMAIN cutAt
    /\ reply.sent = ReplyLen[reply.turn] + 1
    /\ Still /\ AtRest /\ read = Len(out)

ClientInv == Away \/ Typing \/ Begun \/ Replying \/ Completed \/ Resting

Wire ==
    [kind : {"text"}, user : Typed]
      \cup [kind : {"speak"}, seq : Seqs, chunk : Chunks]
      \cup [kind : {"end"}, total : 0 .. MaxSeq]
      \cup [kind : {"speaking"}, on : BOOLEAN]
      \cup [kind : {"interrupt"}, heard : Nat]

TalkTypes ==
    /\ TypeOK /\ judging = {}
    /\ wire \in Seq(Wire)
    /\ \A i \in 1 .. Len(tasks) : tasks[i].gen <= gen
    /\ read \in 0 .. Len(out)
    /\ asked \subseteq Typed
    /\ open \in asked \cup {None}
    /\ reply = NoReply \/ reply \in [turn : asked, sent : 0 .. MaxSeq + 1]
    /\ buffered \in Nat /\ heard \in Nat
    /\ floor = gen + Taps(wire)
    /\ reported \in BOOLEAN
    /\ DOMAIN cutAt \subseteq asked \cup {None} /\ cutAt \in [DOMAIN cutAt -> Nat]

TalkInv ==
    /\ TalkTypes /\ Kept(out, cutAt) /\ SessionInv /\ TurnsInv
    /\ RepliesInv /\ TextsInv /\ TapsInv /\ ClientInv

-----------------------------------------------------------------------------
(* More events keep what was told.                                         *)

LEMMA OpenKept ==
    ASSUME NEW o \in Seq(Event), NEW e \in Seq(Event), NEW t \in Nat,
           NEW i \in 1 .. (Len(o) + 1), OpenAt(o, t, i)
    PROVE  OpenAt(o \o e, t, i)
<1> DEFINE oe == o \o e
<1>1. Len(o) \in Nat /\ \A k \in 1 .. Len(o) : oe[k] = o[k]
  BY ConcatFacts
<1> HIDE DEF oe
<1>2. t \in 1 .. (i - 1) /\ t \in 1 .. Len(o)
  BY <1>1 DEF OpenAt
<1>3. \A k \in (t + 1) .. (i - 1) : k \in 1 .. Len(o)
  BY <1>1, <1>2
<1>4. OpenAt(oe, t, i)
  BY <1>1, <1>2, <1>3 DEF OpenAt
<1> QED
  BY <1>4 DEF oe

\* Unless they are turns, the turn under way is still the same.
LEMMA OpenOn ==
    ASSUME NEW o \in Seq(Event), NEW e \in Seq(Event), NEW t \in Nat,
           OpenAt(o, t, Len(o) + 1),
           \A k \in 1 .. Len(e) : e[k].kind # "turn",
           NEW i \in (Len(o) + 1) .. (Len(o) + Len(e) + 1)
    PROVE  OpenAt(o \o e, t, i)
<1> DEFINE oe == o \o e
<1>1. /\ Len(o) \in Nat /\ Len(e) \in Nat /\ \A k \in 1 .. Len(o) : oe[k] = o[k]
      /\ \A k \in (Len(o) + 1) .. (Len(o) + Len(e)) : oe[k] = e[k - Len(o)]
  BY ConcatFacts
<1> HIDE DEF oe
<1>2. t \in 1 .. Len(o) /\ o[t].kind = "turn"
      /\ \A k \in (t + 1) .. Len(o) : o[k].kind # "turn"
  BY <1>1 DEF OpenAt
<1>3. ASSUME NEW k \in (t + 1) .. (i - 1) PROVE oe[k].kind # "turn"
  <2>1. CASE k <= Len(o)
    <3>1. k \in (t + 1) .. Len(o) /\ k \in 1 .. Len(o)
      BY <1>1, <1>2, <2>1
    <3> QED
      BY <1>1, <1>2, <3>1
  <2>2. CASE k > Len(o)
    <3>1. k \in (Len(o) + 1) .. (Len(o) + Len(e)) /\ k - Len(o) \in 1 .. Len(e)
      BY <1>1, <1>2, <2>2
    <3> QED
      BY <1>1, <3>1
  <2> QED
    BY <1>1, <1>2, <2>1, <2>2
<1>4. t \in 1 .. (i - 1) /\ oe[t].kind = "turn"
  BY <1>1, <1>2
<1> QED
  BY <1>3, <1>4 DEF OpenAt, oe

LEMMA KeptSoFar ==
    ASSUME NEW o \in Seq(Event), NEW e \in Seq(Event), NEW cuts, NEW i \in 1 .. Len(o),
           Kept(o, cuts)
    PROVE  AudioOK(o \o e, i) /\ CompleteOK(o \o e, i) /\ CutOK(o \o e, i, cuts)
<1> DEFINE oe == o \o e
<1>1. Len(o) \in Nat /\ \A k \in 1 .. Len(o) : oe[k] = o[k]
  BY ConcatFacts
<1>2. ASSUME NEW t \in Nat, OpenAt(o, t, i) PROVE OpenAt(oe, t, i)
  BY <1>1, <1>2, OpenKept
<1>3. AudioOK(o, i) /\ CompleteOK(o, i) /\ CutOK(o, i, cuts)
  BY DEF Kept
<1> HIDE DEF oe
<1>4. oe[i] = o[i]
  BY <1>1
<1>5. ASSUME NEW t \in Nat, OpenAt(o, t, i)
      PROVE  /\ oe[t] = o[t]
             /\ \A j \in t .. (i - 1) : oe[j] = o[j]
  BY <1>1, <1>5 DEF OpenAt
<1>6. AudioOK(oe, i)
  BY <1>2, <1>3, <1>4, <1>5 DEF AudioOK
<1>7. CompleteOK(oe, i)
  <2> SUFFICES ASSUME oe[i].kind = "complete" PROVE CompleteOK(oe, i)
    BY DEF CompleteOK
  <2>1. PICK t \in Nat :
          /\ OpenAt(o, t, i) /\ o[i].user = o[t].user
          /\ o[i].chunks = Cardinality({j \in t .. (i - 1) : o[j].kind = "audio"})
          /\ ~o[i].interrupted =>
                {o[j].seq : j \in {j \in t .. (i - 1) : Reported(o[j])}}
                    = 0 .. (ReplyLen[o[i].user] - 1)
    BY <1>3, <1>4 DEF CompleteOK
  <2>2. {j \in t .. (i - 1) : o[j].kind = "audio"} = {j \in t .. (i - 1) : oe[j].kind = "audio"}
    BY <1>5, <2>1
  <2>3. {j \in t .. (i - 1) : Reported(o[j])} = {j \in t .. (i - 1) : Reported(oe[j])}
    BY <1>5, <2>1
  <2>4. {o[j].seq : j \in {j \in t .. (i - 1) : Reported(o[j])}}
          = {oe[j].seq : j \in {j \in t .. (i - 1) : Reported(oe[j])}}
    BY <1>5, <2>1, <2>3
  <2>5. oe[t] = o[t] /\ OpenAt(oe, t, i)
    BY <1>2, <1>5, <2>1
  <2> QED
    BY <1>4, <2>1, <2>2, <2>4, <2>5 DEF CompleteOK
<1>8. CutOK(oe, i, cuts)
  BY <1>2, <1>3, <1>4, <1>5, SMTT(30) DEF CutOK
<1> QED
  BY <1>6, <1>7, <1>8 DEF oe

\* The history is kept by events of other kinds, ...
LEMMA KeptSilent ==
    ASSUME NEW o \in Seq(Event), NEW e \in Seq(Event), NEW cuts, Kept(o, cuts),
           \A k \in 1 .. Len(e) : e[k].kind \notin {"audio", "complete"}
    PROVE  Kept(o \o e, cuts)
<1> DEFINE oe == o \o e
<1>1. /\ Len(o) \in Nat /\ Len(e) \in Nat /\ Len(oe) = Len(o) + Len(e)
      /\ \A k \in (Len(o) + 1) .. (Len(o) + Len(e)) : oe[k] = e[k - Len(o)]
  BY ConcatFacts
<1>2. ASSUME NEW i \in 1 .. Len(o)
      PROVE  AudioOK(oe, i) /\ CompleteOK(oe, i) /\ CutOK(oe, i, cuts)
  BY KeptSoFar
<1> HIDE DEF oe
<1>3. ASSUME NEW i \in (Len(o) + 1) .. Len(oe)
      PROVE  AudioOK(oe, i) /\ CompleteOK(oe, i) /\ CutOK(oe, i, cuts)
  <2>1. i - Len(o) \in 1 .. Len(e) /\ oe[i] = e[i - Len(o)]
    BY <1>1
  <2> QED
    BY <2>1 DEF AudioOK, CompleteOK, CutOK
<1>4. \A i \in 1 .. Len(oe) : i \in 1 .. Len(o) \/ i \in (Len(o) + 1) .. Len(oe)
  BY <1>1
<1> QED
  BY <1>2, <1>3, <1>4 DEF Kept, oe

\* ... by reports of the turn under way, ...
LEMMA KeptReports ==
    ASSUME NEW o \in Seq(Event), NEW e \in Seq(Event), NEW cuts, Kept(o, cuts),
           NEW t \in Nat, NEW v, OpenAt(o, t, Len(o) + 1), o[t].user = v,
           \A k \in 1 .. Len(e) :
              Reported(e[k]) /\ (e[k].kind = "audio" => e[k].chunk[1] = v)
    PROVE  Kept(o \o e, cuts)
<1> DEFINE oe == o \o e
<1>1. /\ Len(o) \in Nat /\ Len(e) \in Nat /\ Len(oe) = Len(o) + Len(e)
      /\ \A k \in 1 .. Len(o) : oe[k] = o[k]
      /\ \A k \in (Len(o) + 1) .. (Len(o) + Len(e)) : oe[k] = e[k - Len(o)]
  BY ConcatFacts
<1>2. ASSUME NEW i \in 1 .. Len(o)
      PROVE  AudioOK(oe, i) /\ CompleteOK(oe, i) /\ CutOK(oe, i, cuts)
  BY KeptSoFar
<1>3. ASSUME NEW i \in (Len(o) + 1) .. Len(oe) PROVE OpenAt(oe, t, i)
  <2>1. \A k \in 1 .. Len(e) : e[k].kind # "turn"
    BY DEF Reported
  <2>2. i \in (Len(o) + 1) .. (Len(o) + Len(e) + 1)
    BY <1>1
  <2> QED
    BY <2>1, <2>2, OpenOn
<1> HIDE DEF oe
<1>4. ASSUME NEW i \in (Len(o) + 1) .. Len(oe)
      PROVE  AudioOK(oe, i) /\ CompleteOK(oe, i) /\ CutOK(oe, i, cuts)
  <2>1. i - Len(o) \in 1 .. Len(e) /\ oe[i] = e[i - Len(o)]
    BY <1>1
  <2>2. Reported(oe[i]) /\ (oe[i].kind = "audio" => oe[i].chunk[1] = v)
    BY <2>1
  <2>3. oe[t].user = v
    BY <1>1 DEF OpenAt
  <2>4. AudioOK(oe, i)
    BY <1>3, <2>2, <2>3 DEF AudioOK
  <2> QED
    BY <2>2, <2>4 DEF CompleteOK, CutOK, Reported
<1>5. \A i \in 1 .. Len(oe) : i \in 1 .. Len(o) \/ i \in (Len(o) + 1) .. Len(oe)
  BY <1>1
<1> QED
  BY <1>2, <1>4, <1>5 DEF Kept, oe

-----------------------------------------------------------------------------
(* What was told of a turn.                                                *)

\* As many clips were played as the session has in its list, and every chunk
\* below n was reported.
LEMMA ToldCount ==
    ASSUME NEW o \in Seq(Event), NEW t \in 1 .. Len(o), o[t].kind = "turn",
           NEW v, NEW n \in Nat, NEW S \in SUBSET (0 .. (n - 1)), ToldOf(o, t, v, n, S)
    PROVE  /\ Cardinality({j \in t .. Len(o) : o[j].kind = "audio"}) = Cardinality(S)
           /\ {o[j].seq : j \in {j \in t .. Len(o) : Reported(o[j])}} = 0 .. (n - 1)
<1> DEFINE A == {j \in t .. Len(o) : o[j].kind = "audio"}
           F == [j \in A |-> o[j].seq]
<1>1. Len(o) \in Nat /\ t \in Nat /\ ~Reported(o[t])
  BY LenProperties DEF Reported
<1>2. \A j \in t .. Len(o) : Reported(o[j]) => j \in (t + 1) .. Len(o)
  BY <1>1
<1>3. \A j \in A : j \in (t + 1) .. Len(o) /\ Reported(o[j]) /\ o[j].kind = "audio"
  BY <1>1, <1>2 DEF Reported
<1>4. F \in [A -> S]
  BY <1>3 DEF ToldOf
<1>5. \A j, k \in A : F[j] = F[k] => j = k
  BY <1>3 DEF ToldOf
<1>6. \A s \in S : \E j \in A : F[j] = s
  <2> SUFFICES ASSUME NEW s \in S PROVE \E j \in A : o[j].seq = s
    OBVIOUS
  <2>1. PICK j \in (t + 1) .. Len(o) :
            Reported(o[j]) /\ o[j].seq = s /\ (s \in S => o[j].kind = "audio")
    BY DEF ToldOf
  <2>2. j \in A
    BY <1>1, <2>1
  <2> QED
    BY <2>1, <2>2
<1>7. F \in Bijection(A, S)
  <2> HIDE DEF A, F
  <2> QED
    BY <1>4, <1>5, <1>6, Fun_IsBij
<1>8. ExistsBijection(A, S)
  BY <1>7, Fun_ExistsBij
<1>9. IsFiniteSet(A)
  <2>1. IsFiniteSet(t .. Len(o)) /\ A \in SUBSET (t .. Len(o))
    BY <1>1, FS_Interval
  <2> QED
    BY <2>1, FS_Subset
<1>10. Cardinality(A) = Cardinality(S)
  <2> HIDE DEF A
  <2> QED
    BY <1>8, <1>9, FS_Bijection
<1>11. {o[j].seq : j \in {j \in t .. Len(o) : Reported(o[j])}} \subseteq 0 .. (n - 1)
  BY <1>1, <1>2 DEF ToldOf
<1>12. ASSUME NEW s \in 0 .. (n - 1)
       PROVE  s \in {o[j].seq : j \in {j \in t .. Len(o) : Reported(o[j])}}
  <2>1. PICK j \in (t + 1) .. Len(o) : Reported(o[j]) /\ o[j].seq = s
    BY DEF ToldOf
  <2>2. j \in {i \in t .. Len(o) : Reported(o[i])}
    BY <1>1, <2>1
  <2> QED
    BY <2>1, <2>2
<1> QED
  BY <1>10, <1>11, <1>12

\* Events that report nothing tell nothing, ...
LEMMA ToldSilent ==
    ASSUME NEW o \in Seq(Event), NEW e \in Seq(Event), NEW t \in 1 .. Len(o),
           NEW v, NEW n \in Nat, NEW S \in SUBSET (0 .. (n - 1)), ToldOf(o, t, v, n, S),
           \A k \in 1 .. Len(e) : ~Reported(e[k])
    PROVE  ToldOf(o \o e, t, v, n, S)
<1> DEFINE oe == o \o e
<1>1. /\ Len(o) \in Nat /\ Len(e) \in Nat /\ Len(oe) = Len(o) + Len(e)
      /\ \A k \in 1 .. Len(o) : oe[k] = o[k]
      /\ \A k \in (Len(o) + 1) .. (Len(o) + Len(e)) : oe[k] = e[k - Len(o)]
  BY ConcatFacts
<1> HIDE DEF oe
<1>2. ASSUME NEW j \in (t + 1) .. Len(oe), Reported(oe[j])
      PROVE  j \in (t + 1) .. Len(o) /\ oe[j] = o[j]
  <2>1. CASE j > Len(o)
    <3>1. j \in (Len(o) + 1) .. (Len(o) + Len(e)) /\ j - Len(o) \in 1 .. Len(e)
      BY <1>1, <2>1
    <3> QED
      BY <1>1, <1>2, <3>1
  <2> QED
    BY <1>1, <2>1
<1>3. ASSUME NEW j \in (t + 1) .. Len(o)
      PROVE  j \in (t + 1) .. Len(oe) /\ oe[j] = o[j]
  BY <1>1
<1>4. \A j \in (t + 1) .. Len(oe) :
          /\ Reported(oe[j]) => oe[j].seq \in 0 .. (n - 1)
          /\ oe[j].kind = "audio" => oe[j].seq \in S /\ oe[j].chunk = <<v, oe[j].seq>>
  BY <1>2, SMTT(30) DEF ToldOf, Reported
<1>5. \A s \in 0 .. (n - 1) :
          \E j \in (t + 1) .. Len(oe) :
              Reported(oe[j]) /\ oe[j].seq = s /\ (s \in S => oe[j].kind = "audio")
  BY <1>3, SMTT(30) DEF ToldOf
<1>6. \A j, k \in (t + 1) .. Len(oe) :
          (Reported(oe[j]) /\ Reported(oe[k]) /\ oe[j].seq = oe[k].seq) => j = k
  BY <1>2 DEF ToldOf
<1> QED
  BY <1>4, <1>5, <1>6 DEF ToldOf, oe

\* ... and a run of reports, those in Q as audio, tells the chunks up to m.
LEMMA ToldRun ==
    ASSUME NEW o \in Seq(Event), NEW d \in Seq(Event), NEW t \in 1 .. Len(o),
           NEW v, NEW n \in Nat, NEW S \in SUBSET (0 .. (n - 1)), ToldOf(o, t, v, n, S),
           NEW m \in Nat, n <= m, NEW Q \in SUBSET (n .. (m - 1)), Len(d) = m - n,
           \A k \in 1 .. Len(d) :
              /\ Reported(d[k]) /\ d[k].seq = n + k - 1
              /\ d[k].kind = "audio" <=> d[k].seq \in Q
              /\ d[k].kind = "audio" => d[k].chunk = <<v, d[k].seq>>
    PROVE  ToldOf(o \o d, t, v, m, S \cup Q)
<1> DEFINE od == o \o d
           T == S \cup Q
<1>1. /\ Len(o) \in Nat /\ Len(d) \in Nat /\ Len(od) = Len(o) + Len(d)
      /\ \A k \in 1 .. Len(o) : od[k] = o[k]
      /\ \A k \in (Len(o) + 1) .. (Len(o) + Len(d)) : od[k] = d[k - Len(o)]
  BY ConcatFacts
<1> HIDE DEF od
<1>2. ASSUME NEW j \in (t + 1) .. Len(o)
      PROVE  /\ j \in (t + 1) .. Len(od) /\ od[j] = o[j]
             /\ Reported(od[j]) => od[j].seq \in 0 .. (n - 1)
  BY <1>1 DEF ToldOf
<1>3. ASSUME NEW j \in (Len(o) + 1) .. Len(od)
      PROVE  /\ j - Len(o) \in 1 .. Len(d) /\ od[j] = d[j - Len(o)]
             /\ od[j].seq = n + (j - Len(o)) - 1 /\ od[j].seq \in n .. (m - 1)
             /\ Reported(od[j]) /\ (od[j].kind = "audio" <=> od[j].seq \in Q)
             /\ od[j].kind = "audio" => od[j].chunk = <<v, od[j].seq>>
  <2> DEFINE k == j - Len(o)
  <2>1. k \in 1 .. Len(d) /\ od[j] = d[k]
    BY <1>1
  <2>3. /\ Reported(d[k]) /\ d[k].seq = n + k - 1
        /\ d[k].kind = "audio" <=> d[k].seq \in Q
        /\ d[k].kind = "audio" => d[k].chunk = <<v, d[k].seq>>
    BY <2>1
  <2>2. od[j].seq = n + (j - Len(o)) - 1
    BY <2>1, <2>3
  <2> QED
    BY <1>1, <2>1, <2>2, <2>3, SMTT(30)
<1>4. \A j \in (t + 1) .. Len(od) : j \in (t + 1) .. Len(o) \/ j \in (Len(o) + 1) .. Len(od)
  BY <1>1
<1>5. ASSUME NEW j \in (t + 1) .. Len(od)
      PROVE  /\ Reported(od[j]) => od[j].seq \in 0 .. (m - 1)
             /\ od[j].kind = "audio" => od[j].seq \in T /\ od[j].chunk = <<v, od[j].seq>>
  <2>1. CASE j \in (t + 1) .. Len(o)
    BY <1>2, <2>1, SMTT(30) DEF ToldOf
  <2>2. CASE j \in (Len(o) + 1) .. Len(od)
    <3>1. /\ od[j].seq \in n .. (m - 1) /\ (od[j].kind = "audio" <=> od[j].seq \in Q)
          /\ od[j].kind = "audio" => od[j].chunk = <<v, od[j].seq>>
      BY <1>3, <2>2
    <3>2. n .. (m - 1) \subseteq 0 .. (m - 1) /\ Q \subseteq T
      OBVIOUS
    <3> QED
      BY <3>1, <3>2
  <2> QED
    BY <1>4, <2>1, <2>2
<1>6. ASSUME NEW s \in 0 .. (m - 1)
      PROVE  \E j \in (t + 1) .. Len(od) :
                Reported(od[j]) /\ od[j].seq = s /\ (s \in T => od[j].kind = "audio")
  <2>1. CASE s < n
    <3>0. s \in 0 .. (n - 1)
      BY <2>1
    <3>1. PICK j \in (t + 1) .. Len(o) :
              Reported(o[j]) /\ o[j].seq = s /\ (s \in S => o[j].kind = "audio")
      BY <3>0 DEF ToldOf
    <3>2. s \in T => s \in S
      BY <2>1
    <3> QED
      BY <1>2, <3>1, <3>2
  <2>2. CASE s >= n
    <3> DEFINE j == Len(o) + (s - n) + 1
    <3>1. j \in (Len(o) + 1) .. Len(od) /\ j \in (t + 1) .. Len(od) /\ j - Len(o) = s - n + 1
      BY <1>1, <2>2
    <3> HIDE DEF j
    <3>4. od[j].seq = n + (j - Len(o)) - 1
      BY <1>3, <3>1
    <3>5. n + (s - n + 1) - 1 = s
      BY <2>2
    <3>6. od[j].seq = s
      BY <3>1, <3>4, <3>5
    <3>2. od[j].seq = s /\ Reported(od[j]) /\ (od[j].kind = "audio" <=> s \in Q)
      BY <1>3, <3>1, <3>6
    <3>3. s \in T => s \in Q
      BY <2>2
    <3> QED
      BY <3>1, <3>2, <3>3
  <2> QED
    BY <2>1, <2>2
<1>7. ASSUME NEW j \in (t + 1) .. Len(od), NEW k \in (t + 1) .. Len(od),
             Reported(od[j]), Reported(od[k]), od[j].seq = od[k].seq
      PROVE  j = k
  <2>1. CASE j \in (t + 1) .. Len(o) /\ k \in (t + 1) .. Len(o)
    BY <1>2, <1>7, <2>1 DEF ToldOf
  <2>2. CASE j \in (Len(o) + 1) .. Len(od) /\ k \in (Len(o) + 1) .. Len(od)
    <3>1. n + (j - Len(o)) - 1 = n + (k - Len(o)) - 1
      BY <1>3, <1>7, <2>2
    <3> QED
      BY <1>1, <3>1, SMTT(30)
  <2>3. CASE j \in (t + 1) .. Len(o) /\ k \in (Len(o) + 1) .. Len(od)
    <3>1. od[j].seq \in 0 .. (n - 1) /\ od[k].seq \in n .. (m - 1)
      BY <1>2, <1>3, <1>7, <2>3
    <3> QED
      BY <1>7, <3>1, SMTT(30)
  <2>4. CASE j \in (Len(o) + 1) .. Len(od) /\ k \in (t + 1) .. Len(o)
    <3>1. od[k].seq \in 0 .. (n - 1) /\ od[j].seq \in n .. (m - 1)
      BY <1>2, <1>3, <1>7, <2>4
    <3> QED
      BY <1>7, <3>1, SMTT(30)
  <2> QED
    BY <1>4, <2>1, <2>2, <2>3, <2>4
<1> QED
  BY <1>5, <1>6, <1>7 DEF ToldOf, od

\* A turn that ends as it should is accounted for.
LEMMA KeptComplete ==
    ASSUME NEW o \in Seq(Event), NEW c \in Event, NEW cuts, Kept(o, cuts),
           NEW t \in Nat, OpenAt(o, t, Len(o) + 1), c.kind = "complete", c.user = o[t].user,
           NEW n \in Nat, NEW S \in SUBSET (0 .. (n - 1)), ToldOf(o, t, c.user, n, S),
           c.chunks = Cardinality(S), ~c.interrupted => n = ReplyLen[c.user],
           c.interrupted =>
              /\ c.user \in DOMAIN cuts /\ Cardinality(c.assistant) <= cuts[c.user]
              /\ \A a \in c.assistant : \E s \in S : a = <<c.user, s>>
    PROVE  Kept(o \o <<c>>, cuts)
<1> DEFINE e == <<c>>
           oe == o \o e
           i == Len(o) + 1
<1>0. e \in Seq(Event) /\ Len(e) = 1 /\ e[1] = c
  OBVIOUS
<1> HIDE DEF e
<1>1. /\ Len(o) \in Nat /\ Len(oe) = Len(o) + 1
      /\ \A k \in 1 .. Len(o) : oe[k] = o[k]
      /\ oe[i] = c
  <2>1. /\ Len(o) \in Nat /\ Len(oe) = Len(o) + Len(e)
        /\ \A k \in 1 .. Len(o) : oe[k] = o[k]
        /\ \A k \in (Len(o) + 1) .. (Len(o) + Len(e)) : oe[k] = e[k - Len(o)]
    BY <1>0, ConcatFacts
  <2> HIDE DEF oe
  <2> QED
    BY <1>0, <2>1
<1>2. ASSUME NEW k \in 1 .. Len(o)
      PROVE  AudioOK(oe, k) /\ CompleteOK(oe, k) /\ CutOK(oe, k, cuts)
  BY <1>0, KeptSoFar
<1>3. OpenAt(oe, t, i)
  <2>1. i \in 1 .. (Len(o) + 1)
    BY <1>1
  <2> QED
    BY <1>0, <2>1, OpenKept
<1>4. t \in 1 .. Len(o) /\ o[t].kind = "turn"
  BY <1>1 DEF OpenAt
<1> HIDE DEF oe
<1>5. /\ \A j \in t .. (i - 1) : j \in t .. Len(o) /\ oe[j] = o[j]
      /\ t .. (i - 1) = t .. Len(o)
  BY <1>1, <1>4
<1>6. {j \in t .. (i - 1) : oe[j].kind = "audio"} = {j \in t .. Len(o) : o[j].kind = "audio"}
  BY <1>5
<1>7. {oe[j].seq : j \in {j \in t .. (i - 1) : Reported(oe[j])}}
        = {o[j].seq : j \in {j \in t .. Len(o) : Reported(o[j])}}
  <2>1. {j \in t .. (i - 1) : Reported(oe[j])} = {j \in t .. Len(o) : Reported(o[j])}
    BY <1>5
  <2> QED
    BY <1>5, <2>1
<1>8. CompleteOK(oe, i)
  <2>1. Cardinality({j \in t .. (i - 1) : oe[j].kind = "audio"}) = Cardinality(S)
    <3>1. Cardinality({j \in t .. Len(o) : o[j].kind = "audio"}) = Cardinality(S)
      BY <1>4, ToldCount, ZenonT(30)
    <3> QED
      BY <1>6, <3>1
  <2>2. {oe[j].seq : j \in {j \in t .. (i - 1) : Reported(oe[j])}} = 0 .. (n - 1)
    BY <1>4, <1>7, ToldCount
  <2>3. oe[t] = o[t]
    BY <1>1, <1>4
  <2> HIDE DEF i
  <2> QED
    BY <1>1, <1>3, <2>1, <2>2, <2>3 DEF CompleteOK
<1>9. CutOK(oe, i, cuts)
  <2> SUFFICES ASSUME c.interrupted, NEW a \in c.assistant
               PROVE  \E j \in Nat : /\ j \in t .. (i - 1)
                                     /\ oe[j].kind = "audio" /\ oe[j].chunk = a
    BY <1>1, <1>3 DEF CutOK
  <2>1. PICK s \in S : a = <<c.user, s>>
    OBVIOUS
  <2>2. PICK j \in (t + 1) .. Len(o) : Reported(o[j]) /\ o[j].seq = s /\ o[j].kind = "audio"
    BY SMTT(30) DEF ToldOf
  <2>3. o[j].chunk = <<c.user, s>>
    BY <2>2 DEF ToldOf
  <2>4. j \in Nat /\ j \in t .. (i - 1) /\ oe[j] = o[j]
    BY <1>1, <1>4, <2>2
  <2> QED
    BY <2>1, <2>2, <2>3, <2>4
<1>10. AudioOK(oe, i)
  BY <1>1 DEF AudioOK
<1>11. \A k \in 1 .. Len(oe) : k \in 1 .. Len(o) \/ k = i
  BY <1>1
<1> QED
  BY <1>2, <1>8, <1>9, <1>10, <1>11 DEF Kept, oe, e

-----------------------------------------------------------------------------
(* What was heard.                                                         *)

\* The first h clips of those played: no more than h, and all of them played.
LEMMA HeardCount ==
    ASSUME NEW n \in Nat, spoken \subseteq 0 .. (n - 1), NEW h \in Nat
    PROVE  /\ Cardinality(HeardText(h)) <= h
           /\ \A c \in HeardText(h) : \E s \in spoken : s \in DOMAIN chunkText /\ c = chunkText[s]
<1> DEFINE below(s) == {q \in spoken : q < s}
           H == HeardSeqs(h)
           X == H \cap DOMAIN chunkText
           F == [s \in H |-> Cardinality(below(s))]
           G == [s \in X |-> chunkText[s]]
<1>1. H = {s \in spoken : Cardinality(below(s)) < h}
  BY StagedAssumption DEF HeardSeqs
<1>2. \A s \in spoken : s \in Nat /\ IsFiniteSet(below(s)) /\ Cardinality(below(s)) \in Nat
  <2> SUFFICES ASSUME NEW s \in spoken
               PROVE  s \in Nat /\ IsFiniteSet(below(s)) /\ Cardinality(below(s)) \in Nat
    OBVIOUS
  <2>0. 0 \in Int /\ n - 1 \in Int
    OBVIOUS
  <2>3. IsFiniteSet(0 .. (n - 1))
    BY <2>0, FS_Interval
  <2>4. s \in Nat
    OBVIOUS
  <2>5. below(s) \subseteq spoken
    OBVIOUS
  <2>1. below(s) \in SUBSET (0 .. (n - 1)) /\ s \in Nat
    <3> HIDE DEF below
    <3> QED
      BY <2>4, <2>5
  <2> QED
    BY <2>1, <2>3, FS_Subset, FS_CardinalityType
<1>3. ASSUME NEW r \in spoken, NEW s \in spoken, r < s
      PROVE  Cardinality(below(r)) < Cardinality(below(s))
  <2>0. \A x \in spoken : x \in Nat
    OBVIOUS
  <2>1. below(r) \in SUBSET below(s) /\ r \in below(s) /\ r \notin below(r)
    <3>1. \A x \in spoken : x < r => x < s
      BY <1>3, <2>0
    <3>2. r \in below(s)
      BY <1>3
    <3>3. r \notin below(r)
      BY <2>0
    <3>4. below(r) \subseteq below(s)
      BY <3>1
    <3> HIDE DEF below
    <3> QED
      BY <3>2, <3>3, <3>4
  <2>2. below(r) # below(s)
    BY <2>1
  <2> HIDE DEF below
  <2>3. /\ Cardinality(below(r)) <= Cardinality(below(s))
        /\ Cardinality(below(s)) = Cardinality(below(r)) => below(s) = below(r)
    BY <1>2, <2>1, FS_Subset
  <2> QED
    BY <1>2, <2>2, <2>3
<1>4. F \in Injection(H, 0 .. (h - 1))
  <2>1. F \in [H -> 0 .. (h - 1)]
    <3>1. ASSUME NEW s \in H PROVE Cardinality(below(s)) \in 0 .. (h - 1)
      <4>1. s \in spoken /\ Cardinality(below(s)) < h
        BY <1>1
      <4>2. Cardinality(below(s)) \in Nat
        BY <1>2, <4>1
      <4> HIDE DEF below
      <4> QED
        BY <4>1, <4>2
    <3> HIDE DEF below, H
    <3> QED
      BY <3>1
  <2>2. \A r, s \in H : F[r] = F[s] => r = s
    <3> SUFFICES ASSUME NEW r \in H, NEW s \in H, F[r] = F[s]
                 PROVE  r = s
      OBVIOUS
    <3>1. r \in spoken /\ s \in spoken /\ Cardinality(below(r)) = Cardinality(below(s))
      BY <1>1
    <3>2. Cardinality(below(r)) \in Nat /\ r \in Nat /\ s \in Nat
      BY <1>2, <3>1
    <3> HIDE DEF below
    <3> QED
      BY <1>3, <3>1, <3>2
  <2> HIDE DEF H, F
  <2> QED
    BY <2>1, <2>2, Fun_IsInj
<1>5. IsFiniteSet(0 .. (h - 1)) /\ Cardinality(0 .. (h - 1)) = h
  BY FS_Interval
<1>6. IsFiniteSet(H) /\ Cardinality(H) <= h
  <2> HIDE DEF H, F
  <2> QED
    BY <1>4, <1>5, FS_Injection
<1>7. IsFiniteSet(X) /\ Cardinality(X) <= h
  <2>1. X \in SUBSET H
    OBVIOUS
  <2>2. Cardinality(H) \in Nat
    BY <1>6, FS_CardinalityType
  <2> HIDE DEF H, X
  <2>3. IsFiniteSet(X) /\ Cardinality(X) <= Cardinality(H)
    BY <1>6, <2>1, FS_Subset
  <2>4. Cardinality(X) \in Nat
    BY <2>3, FS_CardinalityType
  <2> QED
    BY <1>6, <2>2, <2>3, <2>4
<1>8. HeardText(h) = {chunkText[s] : s \in X}
  BY DEF HeardText
<1>9. G \in Surjection(X, HeardText(h))
  <2>1. G \in [X -> HeardText(h)]
    BY <1>8
  <2>2. \A c \in HeardText(h) : \E s \in X : G[s] = c
    BY <1>8
  <2> HIDE DEF G, X
  <2> QED
    BY <2>1, <2>2, Fun_IsSurj
<1>10. Cardinality(HeardText(h)) <= h
  <2> HIDE DEF G, X
  <2>1. IsFiniteSet(HeardText(h)) /\ Cardinality(HeardText(h)) <= Cardinality(X)
    BY <1>7, <1>9, FS_Surjection
  <2>2. Cardinality(HeardText(h)) \in Nat /\ Cardinality(X) \in Nat
    BY <1>7, <2>1, FS_CardinalityType
  <2> QED
    BY <1>7, <2>1, <2>2
<1>11. X \subseteq spoken /\ X \subseteq DOMAIN chunkText
  BY <1>1
<1> HIDE DEF X
<1> QED
  BY <1>8, <1>10, <1>11

-----------------------------------------------------------------------------
(* Steps of a turn under way.                                              *)

\* A buffer p, with the failures f and the announced count exp, is drained in a
\* turn under way ...
DrainFrom(cuts, t, v, n, p, f, exp) ==
    /\ TypeOK /\ Kept(out, cuts) /\ Busy(t, v, n)
    /\ DOMAIN p \subseteq Seqs /\ p \in [DOMAIN p -> Audio]
    /\ DOMAIN f \subseteq Seqs /\ f \in [DOMAIN f -> Nat]
    /\ exp \in Nat \cup {None} /\ (exp # None => exp = n /\ n = ReplyLen[v])
    /\ Waiting(tasks', gen, p, f, v, nextSeq, n) /\ gen' = gen /\ Drain(p, f, exp)

\* ... which then goes on, or has ended with all of it told.
DrainTo(cuts, t, v, n, exp) ==
    \E e \in Seq(Event) :
       /\ out' = out \o e /\ Kept(out', cuts)
       /\ \/ /\ exp # None /\ AtRest' /\ Len(e) # 0
             /\ e[Len(e)].kind = "complete" /\ e[Len(e)].user = v
             /\ \A k \in 1 .. (Len(e) - 1) : Reported(e[k])
          \/ /\ Busy(t, v, n)' /\ expected' = exp
             /\ UNCHANGED <<userText, chunkText>>
             /\ \A k \in 1 .. Len(e) : Reported(e[k])

LEMMA BusyDrain ==
    ASSUME NEW cuts, NEW t \in Nat, NEW v, NEW n \in Nat, NEW p, NEW f, NEW exp,
           DrainFrom(cuts, t, v, n, p, f, exp)
    PROVE  DrainTo(cuts, t, v, n, exp)
<1> SUFFICES ASSUME TypeOK, Kept(out, cuts), Busy(t, v, n),
                      DOMAIN p \subseteq Seqs, p \in [DOMAIN p -> Audio],
                      DOMAIN f \subseteq Seqs, f \in [DOMAIN f -> Nat],
                      exp \in Nat \cup {None}, exp # None => exp = n /\ n = ReplyLen[v],
                      Waiting(tasks', gen, p, f, v, nextSeq, n), gen' = gen, Drain(p, f, exp)
               PROVE  \E e \in Seq(Event) :
                         /\ out' = out \o e /\ Kept(out', cuts)
                         /\ \/ /\ exp # None /\ AtRest' /\ Len(e) # 0
                               /\ e[Len(e)].kind = "complete" /\ e[Len(e)].user = v
                               /\ \A k \in 1 .. (Len(e) - 1) : Reported(e[k])
                            \/ /\ Busy(t, v, n)' /\ expected' = exp
                               /\ UNCHANGED <<userText, chunkText>>
                               /\ \A k \in 1 .. Len(e) : Reported(e[k])
  BY DEF DrainFrom, DrainTo
<1> DEFINE gap  == FirstGap(DOMAIN p \cup DOMAIN f)
           run  == nextSeq .. (gap - 1)
           said == run \cap DOMAIN p
           p2   == Only(p, DOMAIN p \ run)
           f2   == Only(f, DOMAIN f \ (run \ DOMAIN p))
           d    == Drained(p, gap)
           o    == out \o d
           told == emitted + Cardinality(said)
           done == exp # None /\ gap >= exp /\ DOMAIN p2 = {} /\ DOMAIN f2 = {}
<1>1. /\ out \in Seq(Event) /\ nextSeq \in Nat /\ MaxSeq \in Nat
      /\ userText = v /\ v \in Utterances /\ parts \subseteq Chunks /\ nextSeq <= n
  BY StagedAssumption DEF TypeOK, Busy
<1>2. /\ gap \in nextSeq .. MaxSeq /\ gap \notin DOMAIN p \cup DOMAIN f
      /\ \A i \in nextSeq .. (gap - 1) : i \in DOMAIN p \cup DOMAIN f
  BY FirstGapFacts DEF TypeOK
<1>3. /\ DOMAIN p \subseteq nextSeq .. (n - 1) /\ DOMAIN f \subseteq nextSeq .. (n - 1)
      /\ DOMAIN p \cap DOMAIN f = {}
  BY DEF Waiting
<1>4. \/ /\ done
         /\ out' = o \o Finish(parts, FALSE, told)
         /\ ResetTurn
      \/ /\ ~done
         /\ out' = o
         /\ nextSeq' = gap
         /\ pending' = p2
         /\ failed' = f2
         /\ emitted' = told
         /\ expected' = exp
         /\ spoken' = spoken \cup said
         /\ UNCHANGED <<userText, chunkText, parts>>
  BY DEF Drain
<1>5. DOMAIN p2 = DOMAIN p \ run /\ DOMAIN f2 = DOMAIN f \ run
      /\ \A s \in DOMAIN p2 : p2[s] = p[s]
  BY <1>2, <1>3 DEF Only
<1> HIDE DEF gap
<1>6. /\ d \in Seq(Event) /\ \A i \in 1 .. Len(d) : Reported(d[i])
      /\ o \in Seq(Event) /\ Kept(o, cuts)
      /\ OpenAt(o, t, Len(o) + 1) /\ o[t].user = v
      /\ ToldOf(o, t, v, gap, spoken \cup said)
      /\ spoken \cup said \subseteq 0 .. (gap - 1)
      /\ told = Cardinality(spoken \cup said)
  <2>1. out \in Seq(Event) /\ nextSeq \in Nat /\ gap \in Nat /\ nextSeq <= gap
    BY <1>1, <1>2
  <2>2. /\ d \in Seq(Event) /\ Len(d) = gap - nextSeq
        /\ \A i \in 1 .. (gap - nextSeq) :
              /\ d[i] = Report(p, nextSeq + i - 1)
              /\ d[i].kind \in {"audio", "dropped"} /\ d[i].seq = nextSeq + i - 1
    BY <1>2, DrainedFacts DEF TypeOK
  <2>3. ASSUME NEW k \in 1 .. Len(d)
        PROVE  /\ Reported(d[k]) /\ d[k].seq = nextSeq + k - 1
               /\ d[k].kind = "audio" <=> d[k].seq \in said
               /\ d[k].kind = "audio" => d[k].chunk = <<v, d[k].seq>>
    <3>1. /\ d[k] = Report(p, nextSeq + k - 1)
          /\ d[k].kind \in {"audio", "dropped"} /\ d[k].seq = nextSeq + k - 1
      BY <2>1, <2>2
    <3>2. nextSeq + k - 1 \in nextSeq .. (gap - 1)
      BY <2>1, <2>2
    <3>3. d[k].kind = "audio" <=> nextSeq + k - 1 \in DOMAIN p
      BY <3>1 DEF Report
    <3>4. nextSeq + k - 1 \in DOMAIN p =>
              d[k].chunk = p[nextSeq + k - 1].chunk /\ p[nextSeq + k - 1].chunk = <<v, nextSeq + k - 1>>
      BY <3>1 DEF Report, Waiting
    <3> QED
      BY <3>1, <3>2, <3>3, <3>4 DEF Reported
  <2> HIDE DEF d
  <2>4. t \in 1 .. Len(out) /\ out[t].kind = "turn" /\ out[t].user = v
        /\ OpenAt(out, t, Len(out) + 1)
    BY <2>1, LenProperties DEF Busy, OpenAt
  <2>5. o \in Seq(Event) /\ Len(o) = Len(out) + Len(d) /\ o[t] = out[t]
        /\ Len(d) \in Nat /\ Len(out) \in Nat
    BY <2>1, <2>2, <2>4, ConcatFacts
  <2>6. Kept(o, cuts)
    <3>1. \A k \in 1 .. Len(d) : Reported(d[k]) /\ (d[k].kind = "audio" => d[k].chunk[1] = v)
      BY <2>3
    <3>2. d \in Seq(Event)
      BY <2>2
    <3> HIDE DEF o
    <3>3. Kept(out \o d, cuts)
      BY <2>1, <2>4, <3>1, <3>2, KeptReports
    <3> QED
      BY <3>3 DEF o
  <2>7. OpenAt(o, t, Len(o) + 1)
    <3>1. \A k \in 1 .. Len(d) : d[k].kind # "turn"
      BY <2>3 DEF Reported
    <3>2. Len(o) + 1 \in (Len(out) + 1) .. (Len(out) + Len(d) + 1)
      BY <2>5
    <3> HIDE DEF o
    <3>3. OpenAt(out \o d, t, Len(o) + 1)
      BY <2>1, <2>2, <2>4, <3>1, <3>2, OpenOn
    <3> QED
      BY <3>3 DEF o
  <2>8. spoken \in SUBSET (0 .. (nextSeq - 1)) /\ ToldOf(out, t, v, nextSeq, spoken)
        /\ emitted = Cardinality(spoken)
    BY DEF Busy
  <2>9. said \in SUBSET (nextSeq .. (gap - 1))
    OBVIOUS
  <2> HIDE DEF said
  <2>10. ToldOf(o, t, v, gap, spoken \cup said)
    <3>1. /\ d \in Seq(Event) /\ t \in 1 .. Len(out) /\ Len(d) = gap - nextSeq
          /\ ToldOf(out, t, v, nextSeq, spoken)
          /\ spoken \in SUBSET (0 .. (nextSeq - 1)) /\ said \in SUBSET (nextSeq .. (gap - 1))
      BY <2>2, <2>4, <2>8, <2>9
    <3> HIDE DEF o
    <3>2. ToldOf(out \o d, t, v, gap, spoken \cup said)
      BY <2>1, <2>3, <3>1, ToldRun
    <3> QED
      BY <3>2 DEF o
  <2>11. spoken \cup said \subseteq 0 .. (gap - 1)
    BY <2>1, <2>8, <2>9
  <2>12. emitted + Cardinality(said) = Cardinality(spoken \cup said)
    <3>0. 0 \in Int /\ nextSeq - 1 \in Int /\ nextSeq \in Int /\ gap - 1 \in Int
      BY <2>1
    <3>1. IsFiniteSet(0 .. (nextSeq - 1)) /\ IsFiniteSet(nextSeq .. (gap - 1))
      BY <3>0, FS_Interval
    <3>2. IsFiniteSet(spoken) /\ IsFiniteSet(said)
      BY <2>8, <2>9, <3>1, FS_Subset
    <3>3. spoken \cap said = {}
      BY <2>1, <2>8, <2>9
    <3>4. Cardinality(spoken \cup said)
            = Cardinality(spoken) + Cardinality(said) - Cardinality(spoken \cap said)
      BY <3>2, FS_Union
    <3>5. Cardinality(spoken \cap said) = 0 /\ Cardinality(spoken) \in Nat /\ Cardinality(said) \in Nat
      BY <3>2, <3>3, FS_EmptySet, FS_CardinalityType
    <3> QED
      BY <2>8, <3>4, <3>5
  <2>13. \A k \in 1 .. Len(d) : Reported(d[k])
    BY <2>3
  <2>14. o[t].user = v
    BY <2>4, <2>5
  <2> QED
    BY <2>2, <2>5, <2>6, <2>7, <2>10, <2>11, <2>12, <2>13, <2>14
<1> HIDE DEF p2, f2, d, said, o, told
<1>7. gap \in Nat /\ gap <= n
  <2>1. ASSUME gap > n PROVE FALSE
    <3>1. n \in nextSeq .. (gap - 1)
      BY <1>1, <1>2, <2>1
    <3>2. n \in nextSeq .. (n - 1)
      BY <1>2, <1>3, <3>1
    <3> QED
      BY <3>2
  <2> QED
    BY <1>1, <1>2, <2>1
<1>8. ASSUME NEW i \in 1 .. Len(tasks'), tasks'[i].gen = gen
      PROVE  /\ tasks'[i].seq \in gap .. (n - 1) /\ tasks'[i].seq \notin DOMAIN p \cup DOMAIN f
             /\ tasks'[i].chunk = <<v, tasks'[i].seq>>
             /\ \A j \in 1 .. Len(tasks') :
                   (tasks'[j].gen = gen /\ tasks'[j].seq = tasks'[i].seq) => j = i
  <2>1. /\ tasks'[i].seq \in (nextSeq .. (n - 1)) \ (DOMAIN p \cup DOMAIN f)
        /\ tasks'[i].chunk = <<v, tasks'[i].seq>>
        /\ \A j \in 1 .. Len(tasks') :
              (tasks'[j].gen = gen /\ tasks'[j].seq = tasks'[i].seq) => j = i
    BY <1>8 DEF Waiting
  <2>2. tasks'[i].seq \notin nextSeq .. (gap - 1)
    BY <1>2, <2>1
  <2> QED
    BY <1>1, <1>7, <2>1, <2>2
<1>9. CASE /\ done
           /\ out' = o \o Finish(parts, FALSE, told)
           /\ ResetTurn
  <2>1. gap = n /\ n = ReplyLen[v] /\ exp # None
    BY <1>7, <1>9
  <2>2. told \in Nat
    <3>1. 0 \in Int /\ gap - 1 \in Int
      BY <1>7
    <3>2. IsFiniteSet(0 .. (gap - 1))
      BY <3>1, FS_Interval
    <3> QED
      BY <1>6, <3>2, FS_Subset, FS_CardinalityType
  <2>3. PICK c \in Event : /\ c.kind = "complete" /\ c.user = v
                           /\ Finish(parts, FALSE, told) = <<c>>
                           /\ Kept(o \o Finish(parts, FALSE, told), cuts)
    <3> DEFINE S == spoken \cup said
    <3>1. S \in SUBSET (0 .. (gap - 1)) /\ ToldOf(o, t, userText, gap, S) /\ told = Cardinality(S)
          /\ o[t].user = userText /\ userText \in Utterances
      BY <1>1, <1>6
    <3> DEFINE c == [kind |-> "complete", user |-> userText, assistant |-> parts,
                     interrupted |-> FALSE, chunks |-> told]
    <3>2. /\ c \in Event /\ c.kind = "complete" /\ c.user = v
          /\ ~c.interrupted /\ c.chunks = told
      BY <1>1, <2>2 DEF Event
    <3>3. Finish(parts, FALSE, told) = <<c>>
      BY <1>1, StagedAssumption DEF Finish
    <3> HIDE DEF S, c
    <3>4. /\ c.user = o[t].user /\ ToldOf(o, t, c.user, gap, S) /\ c.chunks = Cardinality(S)
          /\ gap = ReplyLen[c.user]
      BY <1>1, <1>6, <2>1, <3>1, <3>2
    <3>5. Kept(o \o <<c>>, cuts)
      BY <1>6, <1>7, <3>1, <3>2, <3>4, KeptComplete
    <3> QED
      BY <3>2, <3>3, <3>5
  <2> DEFINE e == d \o <<c>>
  <2>4. out' = out \o e
    <3>1. (out \o d) \o <<c>> = out \o (d \o <<c>>)
      <4> DEFINE cs == <<c>>
      <4>1. cs \in Seq(Event) /\ d \in Seq(Event) /\ out \in Seq(Event)
        BY <1>1, <1>6
      <4> HIDE DEF cs
      <4>2. (out \o d) \o cs = out \o (d \o cs)
        BY <4>1, ConcatAssociative, SMTT(30)
      <4> QED
        BY <4>2 DEF cs
    <3> QED
      BY <1>9, <2>3, <3>1 DEF o
  <2>5. /\ e \in Seq(Event) /\ Len(e) = Len(d) + 1 /\ Len(d) \in Nat
        /\ e[Len(d) + 1] = c /\ \A i \in 1 .. Len(d) : e[i] = d[i]
    <3>1. <<c>> \in Seq(Event) /\ Len(<<c>>) = 1 /\ <<c>>[1] = c
      OBVIOUS
    <3>2. /\ d \o <<c>> \in Seq(Event) /\ Len(d) \in Nat
          /\ Len(d \o <<c>>) = Len(d) + Len(<<c>>)
          /\ \A i \in 1 .. Len(d) : (d \o <<c>>)[i] = d[i]
          /\ \A i \in (Len(d) + 1) .. (Len(d) + Len(<<c>>)) : (d \o <<c>>)[i] = <<c>>[i - Len(d)]
      BY <1>6, <3>1, ConcatFacts
    <3>3. Len(d) + 1 \in (Len(d) + 1) .. (Len(d) + Len(<<c>>)) /\ (Len(d) + 1) - Len(d) = 1
      BY <3>1, <3>2
    <3> QED
      BY <3>1, <3>2, <3>3
  <2>6. AtRest'
    <3>1. \A i \in 1 .. Len(tasks') : tasks'[i].gen # gen
      <4> SUFFICES ASSUME NEW i \in 1 .. Len(tasks'), tasks'[i].gen = gen PROVE FALSE
        OBVIOUS
      <4>1. tasks'[i].seq \in gap .. (n - 1)
        BY <1>8
      <4> QED
        BY <2>1, <4>1
    <3> QED
      BY <1>9, <3>1 DEF AtRest, ResetTurn
  <2>7. /\ e[Len(e)].kind = "complete" /\ e[Len(e)].user = v /\ Len(e) # 0
        /\ \A i \in 1 .. (Len(e) - 1) : Reported(e[i])
    <3> HIDE DEF e
    <3>1. e[Len(e)] = c /\ Len(e) - 1 = Len(d) /\ Len(e) # 0
      BY <2>5
    <3> QED
      BY <1>6, <2>3, <2>5, <3>1
  <2>8. Kept(out', cuts)
    BY <1>9, <2>3
  <2> HIDE DEF e
  <2> QED
    BY <2>1, <2>4, <2>5, <2>6, <2>7, <2>8
<1>10. CASE /\ ~done
            /\ out' = o
            /\ nextSeq' = gap
            /\ pending' = p2
            /\ failed' = f2
            /\ emitted' = told
            /\ expected' = exp
            /\ spoken' = spoken \cup said
            /\ UNCHANGED <<userText, chunkText, parts>>
  <2> HIDE DEF done
  <2>1. /\ v \in Utterances /\ userText = v /\ n \in 0 .. ReplyLen[v]
        /\ \A j \in (t + 1) .. Len(out) : out[j].kind \notin {"cut", "complete"}
        /\ DOMAIN chunkText = 0 .. (n - 1)
        /\ \A s \in 0 .. (n - 1) : chunkText[s] = <<v, s>>
    BY DEF Busy
  <2>2. ASSUME NEW j \in (t + 1) .. Len(o) PROVE o[j].kind \notin {"cut", "complete"}
    <3>1. /\ Len(o) = Len(out) + Len(d) /\ Len(out) \in Nat /\ Len(d) \in Nat
          /\ \A i \in 1 .. Len(out) : o[i] = out[i]
          /\ \A i \in (Len(out) + 1) .. (Len(out) + Len(d)) : o[i] = d[i - Len(out)]
      BY <1>1, <1>6, ConcatFacts DEF o
    <3>2. CASE j \in 1 .. Len(out)
      <4>1. j \in (t + 1) .. Len(out)
        BY <3>1, <3>2
      <4> QED
        BY <2>1, <3>1, <3>2, <4>1
    <3>3. CASE j \in (Len(out) + 1) .. (Len(out) + Len(d))
      <4>1. j - Len(out) \in 1 .. Len(d)
        BY <3>1, <3>3
      <4> QED
        BY <1>6, <3>1, <3>3, <4>1 DEF Reported
    <3> QED
      BY <3>1, <3>2, <3>3
  <2>3. Waiting(tasks', gen, p2, f2, v, gap, n)
    <3>1. DOMAIN p2 \subseteq gap .. (n - 1) /\ DOMAIN f2 \subseteq gap .. (n - 1)
          /\ DOMAIN p2 \cap DOMAIN f2 = {}
      BY <1>1, <1>2, <1>3, <1>5, <1>7
    <3>2. \A s \in DOMAIN p2 : p2[s].chunk = <<v, s>>
      BY <1>5 DEF Waiting
    <3>3. ASSUME NEW i \in 1 .. Len(tasks'), tasks'[i].gen = gen
          PROVE  tasks'[i].seq \in (gap .. (n - 1)) \ (DOMAIN p2 \cup DOMAIN f2)
      BY <1>5, <1>8, <3>3
    <3> QED
      BY <1>8, <3>1, <3>2, <3>3 DEF Waiting
  <2>5. Busy(t, v, n)'
    <3>1. Waiting(tasks, gen, pending, failed, v, nextSeq, n)'
      BY <1>10, <2>3 DEF Waiting
    <3>2. ToldOf(out, t, v, nextSeq, spoken)'
      BY <1>6, <1>10
    <3> QED
      BY <1>6, <1>7, <1>10, <2>1, <2>2, <3>1, <3>2 DEF Busy
  <2> QED
    BY <1>6, <1>10, <2>5 DEF o
<1> QED
  BY <1>4, <1>9, <1>10

-----------------------------------------------------------------------------
(* The wire.                                                               *)

TapsOf(w) == {k \in 1 .. Len(w) : w[k].kind = "interrupt"}

LEMMA WireAppend ==
    ASSUME NEW w \in Seq(Wire), NEW f \in Wire
    PROVE  /\ Append(w, f) \in Seq(Wire)
           /\ Len(w) \in Nat /\ Len(Append(w, f)) = Len(w) + 1
           /\ \A k \in 1 .. Len(w) : Append(w, f)[k] = w[k]
           /\ Append(w, f)[Len(w) + 1] = f
           /\ Taps(w) \in Nat
           /\ Taps(Append(w, f)) = Taps(w) + IF f.kind = "interrupt" THEN 1 ELSE 0
<1> DEFINE x == Append(w, f)
           n == Len(w)
<1>1. /\ x \in Seq(Wire) /\ n \in Nat /\ Len(x) = n + 1
      /\ \A k \in 1 .. n : x[k] = w[k]
      /\ x[n + 1] = f
  BY AppendProperties, LenProperties
<1> HIDE DEF x
<1>2. IsFiniteSet(TapsOf(w)) /\ TapsOf(w) \subseteq 1 .. n
  <2>1. 1 \in Int /\ n \in Int /\ TapsOf(w) \in SUBSET (1 .. n)
    BY <1>1 DEF TapsOf
  <2>2. IsFiniteSet(1 .. n)
    BY <2>1, FS_Interval
  <2> HIDE DEF n
  <2> QED
    BY <2>1, <2>2, FS_Subset
<1>3. Taps(w) = Cardinality(TapsOf(w)) /\ Taps(x) = Cardinality(TapsOf(x)) /\ Taps(w) \in Nat
  BY <1>2, FS_CardinalityType DEF Taps, TapsOf
<1>4. \A k \in 1 .. (n + 1) : k \in 1 .. n \/ k = n + 1
  BY <1>1
<1>5. CASE f.kind = "interrupt"
  <2>1. TapsOf(x) = TapsOf(w) \cup {n + 1} /\ n + 1 \notin TapsOf(w)
    BY <1>1, <1>4, <1>5 DEF TapsOf
  <2> HIDE DEF n
  <2>2. Cardinality(TapsOf(x)) = Cardinality(TapsOf(w)) + 1
    BY <1>2, <2>1, FS_AddElement
  <2> QED
    BY <1>1, <1>3, <1>5, <2>2 DEF x, n
<1>6. CASE f.kind # "interrupt"
  <2>1. TapsOf(x) = TapsOf(w)
    BY <1>1, <1>4, <1>6 DEF TapsOf
  <2> HIDE DEF n
  <2>2. Taps(x) = Taps(w) + 0
    BY <1>3, <2>1
  <2> QED
    BY <1>1, <1>3, <1>6, <2>2 DEF x, n
<1> QED
  BY <1>5, <1>6

LEMMA WireTail ==
    ASSUME NEW w \in Seq(Wire), w # <<>>
    PROVE  /\ Tail(w) \in Seq(Wire)
           /\ Len(w) \in Nat \ {0} /\ Len(Tail(w)) = Len(w) - 1
           /\ \A k \in 1 .. (Len(w) - 1) : Tail(w)[k] = w[k + 1]
           /\ Head(w) = w[1] /\ w[1] \in Wire
           /\ Taps(w) = Taps(Tail(w)) + IF w[1].kind = "interrupt" THEN 1 ELSE 0
           /\ Taps(Tail(w)) \in Nat
<1> DEFINE x == Tail(w)
           n == Len(w)
           F == [k \in TapsOf(x) |-> k + 1]
           M == TapsOf(w) \ {1}
<1>1. /\ x \in Seq(Wire) /\ n \in Nat \ {0} /\ Len(x) = n - 1
      /\ \A k \in 1 .. (n - 1) : x[k] = w[k + 1]
      /\ Head(w) = w[1] /\ w[1] \in Wire
  BY HeadTailProperties, EmptySeq, LenProperties, ElementOfSeq
<1> HIDE DEF x, n
<1>2. TapsOf(x) = {k \in 1 .. (n - 1) : x[k].kind = "interrupt"}
      /\ TapsOf(w) = {k \in 1 .. n : w[k].kind = "interrupt"}
  BY <1>1 DEF TapsOf, n
<1>3. IsFiniteSet(TapsOf(x)) /\ IsFiniteSet(TapsOf(w))
  <2>1. 1 \in Int /\ n \in Int /\ n - 1 \in Int
        /\ TapsOf(x) \in SUBSET (1 .. (n - 1)) /\ TapsOf(w) \in SUBSET (1 .. n)
    BY <1>1, <1>2
  <2>2. IsFiniteSet(1 .. n) /\ IsFiniteSet(1 .. (n - 1))
    BY <2>1, FS_Interval
  <2> QED
    BY <2>1, <2>2, FS_Subset
<1>4. F \in Bijection(TapsOf(x), M)
  <2>1. F \in [TapsOf(x) -> M]
    <3>1. ASSUME NEW k \in TapsOf(x) PROVE k + 1 \in M
      <4>1. k \in 1 .. (n - 1) /\ w[k + 1].kind = "interrupt"
        BY <1>1, <1>2
      <4>2. k + 1 \in 1 .. n /\ k + 1 # 1
        BY <1>1, <4>1
      <4> QED
        BY <1>2, <4>1, <4>2
    <3> HIDE DEF M
    <3> QED
      BY <3>1
  <2>2. \A j, k \in TapsOf(x) : F[j] = F[k] => j = k
    BY <1>2
  <2>3. \A m \in M : \E k \in TapsOf(x) : F[k] = m
    <3> SUFFICES ASSUME NEW m \in M PROVE \E k \in TapsOf(x) : F[k] = m
      OBVIOUS
    <3>1. m \in 1 .. n /\ m # 1 /\ w[m].kind = "interrupt"
      BY <1>2
    <3> DEFINE k == m - 1
    <3>2. k \in 1 .. (n - 1) /\ k + 1 = m
      BY <1>1, <3>1
    <3> HIDE DEF k
    <3>3. x[k] = w[m]
      BY <1>1, <3>2
    <3>4. k \in TapsOf(x)
      BY <1>2, <3>1, <3>2, <3>3
    <3> QED
      BY <3>2, <3>4
  <2> HIDE DEF F, M
  <2> QED
    BY <2>1, <2>2, <2>3, Fun_IsBij
<1>5. Cardinality(M) = Cardinality(TapsOf(x)) /\ IsFiniteSet(M)
  <2> HIDE DEF F, M
  <2> QED
    BY <1>3, <1>4, Fun_ExistsBij, FS_Bijection
<1>6. Taps(w) = Cardinality(TapsOf(w)) /\ Taps(x) = Cardinality(TapsOf(x)) /\ Taps(x) \in Nat
  BY <1>3, FS_CardinalityType DEF Taps, TapsOf
<1>7. CASE w[1].kind = "interrupt"
  <2>1. TapsOf(w) = M \cup {1} /\ 1 \notin M
    BY <1>1, <1>2, <1>7
  <2> HIDE DEF M
  <2>2. Cardinality(TapsOf(w)) = Cardinality(M) + 1
    BY <1>5, <2>1, FS_AddElement
  <2> QED
    BY <1>1, <1>5, <1>6, <1>7, <2>2 DEF x, n
<1>8. CASE w[1].kind # "interrupt"
  <2>1. TapsOf(w) = M
    BY <1>2, <1>8
  <2> HIDE DEF M
  <2>2. Taps(w) = Taps(x) + 0
    BY <1>5, <1>6, <2>1
  <2> QED
    BY <1>1, <1>6, <1>8, <2>2 DEF x, n
<1> QED
  BY <1>7, <1>8

\* One more frame: those before it are where they were.
LEMMA RepliesAppend ==
    ASSUME TalkInv, NEW f \in Wire, wire' = Append(wire, f), f.kind \notin {"speak", "end"},
           UNCHANGED <<userText, expected, chunkText>>
    PROVE  RepliesInv'
<1>1. /\ Len(wire) \in Nat /\ Len(wire') = Len(wire) + 1
      /\ \A k \in 1 .. Len(wire) : wire'[k] = wire[k]
      /\ wire'[Len(wire) + 1] = f
  BY WireAppend DEF TalkInv, TalkTypes
<1>2. ASSUME NEW k \in 1 .. Len(wire'), wire'[k].kind \in {"speak", "end"}
      PROVE  /\ k \in 1 .. Len(wire) /\ wire'[k] = wire[k]
             /\ \A j \in 1 .. (k - 1) : wire'[j] = wire[j]
             /\ \A j \in (k + 1) .. Len(wire') :
                   (j \in (k + 1) .. Len(wire) /\ wire'[j] = wire[j]) \/ wire'[j] = f
  BY <1>1, <1>2
<1>3. ASSUME NEW k \in 1 .. Len(wire'), wire'[k].kind \in {"speak", "end"}
      PROVE  /\ userText # None /\ expected = None
             /\ \A j \in 1 .. (k - 1) : wire'[j].kind \notin {"text", "interrupt"}
  BY <1>2, <1>3 DEF TalkInv, RepliesInv, ReplyFrame
<1>4. ASSUME NEW k \in 1 .. Len(wire'), wire'[k].kind = "speak"
      PROVE  /\ wire'[k].chunk = <<userText, wire'[k].seq>>
             /\ wire'[k].seq < ReplyLen[userText] /\ wire'[k].seq \notin DOMAIN chunkText
             /\ \A s \in 0 .. (wire'[k].seq - 1) :
                   \/ s \in DOMAIN chunkText
                   \/ \E j \in 1 .. (k - 1) : wire'[j].kind = "speak" /\ wire'[j].seq = s
             /\ \A j \in 1 .. (k - 1) : wire'[j].kind = "speak" => wire'[j].seq < wire'[k].seq
  <2>1. /\ k \in 1 .. Len(wire) /\ wire'[k] = wire[k]
        /\ \A j \in 1 .. (k - 1) : wire'[j] = wire[j]
    BY <1>2, <1>4
  <2> QED
    BY <1>4, <2>1 DEF TalkInv, RepliesInv, ReplyFrame
<1>5. ASSUME NEW k \in 1 .. Len(wire'), wire'[k].kind = "end"
      PROVE  /\ wire'[k].total = ReplyLen[userText]
             /\ \A j \in (k + 1) .. Len(wire') : wire'[j].kind \notin {"speak", "end"}
             /\ \A s \in 0 .. (ReplyLen[userText] - 1) :
                   \/ s \in DOMAIN chunkText
                   \/ \E j \in 1 .. (k - 1) : wire'[j].kind = "speak" /\ wire'[j].seq = s
  <2>1. /\ k \in 1 .. Len(wire) /\ wire'[k] = wire[k]
        /\ \A j \in 1 .. (k - 1) : wire'[j] = wire[j]
        /\ \A j \in (k + 1) .. Len(wire') :
              (j \in (k + 1) .. Len(wire) /\ wire'[j] = wire[j]) \/ wire'[j] = f
    BY <1>2, <1>5
  <2> QED
    BY <1>5, <2>1 DEF TalkInv, RepliesInv, ReplyFrame
<1> QED
  BY <1>3, <1>4, <1>5 DEF RepliesInv, ReplyFrame

LEMMA TextsAppend ==
    ASSUME TalkInv, NEW f \in Wire, wire' = Append(wire, f), f.kind # "text",
           UNCHANGED <<out, userText, asked>>
    PROVE  TextsInv'
<1>1. /\ Len(wire) \in Nat /\ Len(wire') = Len(wire) + 1
      /\ \A k \in 1 .. Len(wire) : wire'[k] = wire[k]
      /\ wire'[Len(wire) + 1] = f
  BY WireAppend DEF TalkInv, TalkTypes
<1>2. ASSUME NEW k \in 1 .. Len(wire') PROVE TextFrame(k)'
  <2> SUFFICES ASSUME wire'[k].kind = "text"
               PROVE  /\ wire'[k].user \in asked'
                      /\ \A i \in 1 .. Len(out') : out'[i].kind = "turn" => out'[i].user # wire'[k].user
                      /\ \A j \in 1 .. (k - 1) : wire'[j].kind = "text" =>
                            /\ wire'[j].user # wire'[k].user
                            /\ \E l \in (j + 1) .. (k - 1) : wire'[l].kind = "interrupt"
                      /\ (\A j \in 1 .. (k - 1) : wire'[j].kind # "interrupt") => userText' = None
    BY DEF TextFrame
  <2>1. k \in 1 .. Len(wire) /\ wire'[k] = wire[k] /\ \A j \in 1 .. (k - 1) : wire'[j] = wire[j]
    BY <1>1
  <2>2. /\ wire[k].user \in asked
        /\ \A i \in 1 .. Len(out) : out[i].kind = "turn" => out[i].user # wire[k].user
        /\ \A j \in 1 .. (k - 1) : wire[j].kind = "text" =>
              /\ wire[j].user # wire[k].user
              /\ \E l \in (j + 1) .. (k - 1) : wire[l].kind = "interrupt"
        /\ (\A j \in 1 .. (k - 1) : wire[j].kind # "interrupt") => userText = None
    BY <2>1 DEF TalkInv, TextsInv, TextFrame
  <2>3. ASSUME NEW j \in 1 .. (k - 1), NEW l \in (j + 1) .. (k - 1) PROVE wire'[l] = wire[l]
    BY <2>1
  <2>4. ASSUME NEW j \in 1 .. (k - 1), wire'[j].kind = "text"
        PROVE  /\ wire'[j].user # wire'[k].user
               /\ \E l \in (j + 1) .. (k - 1) : wire'[l].kind = "interrupt"
    <3>1. /\ wire[j].user # wire[k].user
          /\ \E l \in (j + 1) .. (k - 1) : wire[l].kind = "interrupt"
      BY <2>1, <2>2, <2>4
    <3> QED
      BY <2>1, <2>3, <3>1
  <2>5. (\A j \in 1 .. (k - 1) : wire'[j].kind # "interrupt") => userText' = None
    BY <2>1, <2>2
  <2>6. /\ wire'[k].user \in asked'
        /\ \A i \in 1 .. Len(out') : out'[i].kind = "turn" => out'[i].user # wire'[k].user
    BY <2>1, <2>2
  <2> QED
    BY <2>4, <2>5, <2>6
<1> QED
  BY <1>2 DEF TextsInv

LEMMA TapsAppend ==
    ASSUME TalkInv, NEW f \in Wire, wire' = Append(wire, f), f.kind # "interrupt",
           UNCHANGED <<userText, cutAt>>
    PROVE  TapsInv'
<1>1. /\ Len(wire) \in Nat /\ Len(wire') = Len(wire) + 1
      /\ \A k \in 1 .. Len(wire) : wire'[k] = wire[k]
      /\ wire'[Len(wire) + 1] = f
  BY WireAppend DEF TalkInv, TalkTypes
<1>2. ASSUME NEW k \in 1 .. Len(wire'), wire'[k].kind = "interrupt"
      PROVE  /\ \A j \in 1 .. (k - 1) : wire'[j].kind = "text" =>
                   /\ wire'[j].user \in DOMAIN cutAt
                   /\ (\A l \in (j + 1) .. (k - 1) : wire'[l].kind \notin {"text", "interrupt"})
                         => cutAt[wire'[j].user] = wire'[k].heard
             /\ userText # None =>
                   /\ userText \in DOMAIN cutAt
                   /\ (\A l \in 1 .. (k - 1) : wire'[l].kind \notin {"text", "interrupt"})
                         => cutAt[userText] = wire'[k].heard
  <2>1. k \in 1 .. Len(wire) /\ wire'[k] = wire[k] /\ \A j \in 1 .. (k - 1) : wire'[j] = wire[j]
    BY <1>1, <1>2
  <2>2. /\ \A j \in 1 .. (k - 1) : wire[j].kind = "text" =>
              /\ wire[j].user \in DOMAIN cutAt
              /\ (\A l \in (j + 1) .. (k - 1) : wire[l].kind \notin {"text", "interrupt"})
                    => cutAt[wire[j].user] = wire[k].heard
        /\ userText # None =>
              /\ userText \in DOMAIN cutAt
              /\ (\A l \in 1 .. (k - 1) : wire[l].kind \notin {"text", "interrupt"})
                    => cutAt[userText] = wire[k].heard
    BY <1>2, <2>1 DEF TalkInv, TapsInv
  <2>3. ASSUME NEW j \in 1 .. (k - 1), NEW l \in (j + 1) .. (k - 1) PROVE wire'[l] = wire[l]
    BY <2>1
  <2> QED
    BY <2>1, <2>2, <2>3
<1> QED
  BY <1>2 DEF TapsInv

-----------------------------------------------------------------------------
(* The user and the client.                                                *)

LEMMA Basics ==
    /\ MaxSeq \in Nat \ {0} /\ None \notin Utterances /\ None \notin Nat
    /\ Typed \subseteq Utterances
    /\ \A u \in Utterances : ReplyLen[u] \in 1 .. MaxSeq
  BY StagedAssumption, TalkAssumption

\* What the client does by itself leaves the session where it is.
LEMMA SessionKept ==
    ASSUME TalkInv, UNCHANGED vars, asked \subseteq asked'
    PROVE  /\ TypeOK' /\ judging' = {} /\ SessionInv' /\ TurnsInv'
           /\ \A i \in 1 .. Len(tasks') : tasks'[i].gen <= gen'
<1>1. TypeOK'
  BY DEF TalkInv, TalkTypes, TypeOK, vars, turnVars
<1>2. SessionInv'
  <2>1. CASE AtRest
    BY <2>1 DEF AtRest, SessionInv, vars, turnVars
  <2>2. ASSUME NEW t \in Nat, NEW n \in Nat, NEW v \in Utterances, Busy(t, v, n)
        PROVE  SessionInv'
    <3>1. Busy(t, v, n)'
      BY <2>2 DEF Busy, vars, turnVars
    <3> QED
      BY <3>1 DEF SessionInv
  <2> QED
    BY <2>1, <2>2 DEF TalkInv, SessionInv
<1>3. TurnsInv'
  BY DEF TalkInv, TurnsInv, vars, turnVars
<1> QED
  BY <1>1, <1>2, <1>3 DEF TalkInv, TalkTypes, vars, turnVars

LEMMA TypeStep ==
    ASSUME TalkInv, NEW u, Type(u)
    PROVE  TalkInv'
<1> DEFINE f == [kind |-> "text", user |-> u]
<1>1. /\ u \in Typed /\ u \notin asked /\ open = None /\ UNCHANGED vars
      /\ asked' = asked \cup {u} /\ open' = u /\ reply' = NoReply /\ heard' = 0
      /\ wire' = Append(wire, f)
      /\ UNCHANGED <<read, buffered, floor, reported, cutAt>>
  BY DEF Type, Send
<1>2. /\ wire \in Seq(Wire) /\ f \in Wire /\ f.kind = "text" /\ f.user = u
      /\ u \in Utterances /\ u \notin DOMAIN cutAt /\ u # None
  BY <1>1, Basics DEF TalkInv, TalkTypes, Wire
<1> HIDE DEF f
<1>3. /\ wire' \in Seq(Wire) /\ Len(wire) \in Nat /\ Len(wire') = Len(wire) + 1
      /\ \A k \in 1 .. Len(wire) : wire'[k] = wire[k]
      /\ wire'[Len(wire) + 1] = f
      /\ Taps(wire') = Taps(wire)
  <2>1. Taps(Append(wire, f)) = Taps(wire) + 0 /\ Taps(wire) \in Nat
    BY <1>2, WireAppend
  <2> QED
    BY <1>1, <1>2, <2>1, WireAppend
<1>4. Away \/ Resting
  BY <1>1, Basics DEF TalkInv, ClientInv, Away, Typing, Begun, Replying, Completed, Resting
<1>5. TypeOK' /\ judging' = {} /\ SessionInv' /\ TurnsInv'
      /\ \A i \in 1 .. Len(tasks') : tasks'[i].gen <= gen'
  <2>1. asked \subseteq asked'
    BY <1>1
  <2> QED
    BY <1>1, <2>1, SessionKept
<1>6. TalkTypes'
  BY <1>1, <1>3, <1>5 DEF TalkInv, TalkTypes, vars, turnVars
<1>7. Kept(out, cutAt)'
  BY <1>1 DEF TalkInv, vars, turnVars
<1>8. \A k \in 1 .. Len(wire') : k \in 1 .. Len(wire) \/ (k = Len(wire) + 1 /\ wire'[k] = f)
  BY <1>3
<1>9. UNCHANGED <<out, userText, expected, chunkText>>
  BY <1>1 DEF vars, turnVars
<1>10. RepliesInv'
  BY <1>1, <1>2, <1>9, RepliesAppend
<1>11. ASSUME NEW j \in 1 .. Len(wire), wire[j].kind = "text"
       PROVE  \E l \in (j + 1) .. Len(wire) : wire[l].kind = "interrupt"
  BY <1>4, <1>11 DEF Away, Resting, Still
<1>12. (\A j \in 1 .. Len(wire) : wire[j].kind # "interrupt") => userText = None
  BY <1>4 DEF Away, Resting, AtRest
<1>13. TextsInv'
  <2> SUFFICES ASSUME NEW k \in 1 .. Len(wire'), wire'[k].kind = "text"
               PROVE  /\ wire'[k].user \in asked'
                      /\ \A i \in 1 .. Len(out) : out[i].kind = "turn" => out[i].user # wire'[k].user
                      /\ \A j \in 1 .. (k - 1) : wire'[j].kind = "text" =>
                            /\ wire'[j].user # wire'[k].user
                            /\ \E l \in (j + 1) .. (k - 1) : wire'[l].kind = "interrupt"
                      /\ (\A j \in 1 .. (k - 1) : wire'[j].kind # "interrupt") => userText = None
    BY <1>9 DEF TextsInv, TextFrame
  <2>1. CASE k \in 1 .. Len(wire)
    BY <1>1, <1>3, <2>1 DEF TalkInv, TextsInv, TextFrame
  <2>2. CASE k = Len(wire) + 1 /\ wire'[k] = f
    <3>1. \A i \in 1 .. Len(out) : out[i].kind = "turn" => out[i].user # u
      BY <1>1 DEF TalkInv, TurnsInv
    <3>2. \A j \in 1 .. Len(wire) : wire[j].kind = "text" => wire[j].user # u
      BY <1>1 DEF TalkInv, TextsInv, TextFrame
    <3>3. k - 1 = Len(wire) /\ wire'[k].user = u /\ u \in asked'
      BY <1>1, <1>2, <1>3, <2>2
    <3>4. \A j \in 1 .. (k - 1) : wire'[j] = wire[j]
      BY <1>3, <3>3
    <3>5. ASSUME NEW j \in 1 .. (k - 1), wire'[j].kind = "text"
          PROVE  \E l \in (j + 1) .. (k - 1) : wire'[l].kind = "interrupt"
      <4>1. PICK l \in (j + 1) .. Len(wire) : wire[l].kind = "interrupt"
        BY <1>11, <3>3, <3>4, <3>5
      <4> QED
        BY <1>3, <3>3, <4>1
    <3> QED
      BY <1>12, <3>1, <3>2, <3>3, <3>4, <3>5
  <2> QED
    BY <1>8, <2>1, <2>2
<1>14. TapsInv'
  BY <1>1, <1>2, <1>9, TapsAppend
<1>15. Typing'
  <2>1. UnreadCut(Len(out) + 1)
    BY <1>4, LenProperties DEF Away, Resting, UnreadCut, TalkInv, TalkTypes, TypeOK
  <2>2. UnreadCut(Len(out) + 1)'
    BY <1>1, <1>9, <2>1 DEF UnreadCut
  <2>3. \E k \in 1 .. Len(wire') :
            /\ wire'[k].kind = "text" /\ wire'[k].user = u
            /\ \A l \in (k + 1) .. Len(wire') : wire'[l].kind = "speaking"
    <3>1. Len(wire) + 1 \in 1 .. Len(wire')
          /\ \A l \in (Len(wire) + 2) .. Len(wire') : FALSE
      BY <1>3
    <3> QED
      BY <1>2, <1>3, <3>1
  <2> QED
    BY <1>1, <1>2, <2>2, <2>3 DEF Typing
<1> QED
  BY <1>5, <1>6, <1>7, <1>10, <1>13, <1>14, <1>15 DEF TalkInv, ClientInv

LEMMA TapStep ==
    ASSUME TalkInv, Tap
    PROVE  TalkInv'
<1> DEFINE f == [kind |-> "interrupt", heard |-> heard]
           x == IF reply = NoReply THEN open ELSE reply.turn
<1>1. /\ UNCHANGED vars
      /\ cutAt' = Put(cutAt, x, heard) /\ open' = None /\ reply' = NoReply
      /\ buffered' = 0 /\ heard' = 0 /\ floor' = floor + 1
      /\ wire' = Append(wire, f)
      /\ UNCHANGED <<read, asked, reported>>
  BY DEF Tap, Send
<1>2. /\ wire \in Seq(Wire) /\ f \in Wire /\ f.kind = "interrupt" /\ f.heard = heard
      /\ heard \in Nat /\ out \in Seq(Event)
      /\ asked \subseteq Utterances /\ None \notin asked
  BY Basics DEF TalkInv, TalkTypes, TypeOK, Wire
<1> HIDE DEF f
<1>3. /\ wire' \in Seq(Wire) /\ Len(wire) \in Nat /\ Len(wire') = Len(wire) + 1
      /\ \A k \in 1 .. Len(wire) : wire'[k] = wire[k]
      /\ wire'[Len(wire) + 1] = f
      /\ Taps(wire') = Taps(wire) + 1
  <2>1. Taps(Append(wire, f)) = Taps(wire) + 1
    BY <1>2, WireAppend
  <2> QED
    BY <1>1, <1>2, <2>1, WireAppend
<1>4. x \in asked \cup {None} /\ (x = None \/ x \notin DOMAIN cutAt)
  <2>1. open \in asked \cup {None} /\ (reply = NoReply \/ reply \in [turn : asked, sent : 0 .. MaxSeq + 1])
    BY DEF TalkInv, TalkTypes
  <2>2. reply = NoReply => open = None \/ open \notin DOMAIN cutAt
    BY Basics DEF TalkInv, ClientInv, Away, Typing, Begun, Replying, Completed, Resting, NoReply
  <2>3. reply # NoReply => reply.turn \notin DOMAIN cutAt
    BY DEF TalkInv, ClientInv, Away, Typing, Begun, Replying, Completed, Resting
  <2> QED
    BY <2>1, <2>2, <2>3
<1>5. Away => x = None
  BY DEF Away
<1>6. Typing \/ Begun => x = open
  BY DEF Typing, Begun
<1>7. Replying \/ Completed => x = open
  BY Basics DEF Replying, Completed, NoReply
<1> HIDE DEF x
<1>8. /\ DOMAIN cutAt' = DOMAIN cutAt \cup {x} /\ cutAt'[x] = heard
      /\ \A u \in DOMAIN cutAt : u # None => cutAt'[u] = cutAt[u]
  BY <1>1, <1>4 DEF Put
<1>9. TypeOK' /\ judging' = {} /\ SessionInv' /\ TurnsInv'
      /\ \A i \in 1 .. Len(tasks') : tasks'[i].gen <= gen'
  BY <1>1, SessionKept
<1>10. TalkTypes'
  <2>1. DOMAIN cutAt' \subseteq asked' \cup {None} /\ cutAt' \in [DOMAIN cutAt' -> Nat]
    <3>1. cutAt \in [DOMAIN cutAt -> Nat] /\ DOMAIN cutAt \subseteq asked \cup {None}
      BY DEF TalkInv, TalkTypes
    <3> QED
      BY <1>1, <1>2, <1>4, <3>1 DEF Put
  <2>2. floor' = gen' + Taps(wire')
    <3>1. floor = gen + Taps(wire) /\ gen \in Nat /\ Taps(wire) \in Nat
      BY <1>2, WireAppend DEF TalkInv, TalkTypes, TypeOK
    <3> QED
      BY <1>1, <1>3, <3>1 DEF vars
  <2>3. read' \in 0 .. Len(out') /\ asked' \subseteq Typed /\ reported' \in BOOLEAN
    BY <1>1 DEF TalkInv, TalkTypes, vars, turnVars
  <2> QED
    BY <1>1, <1>3, <1>9, <2>1, <2>2, <2>3 DEF TalkTypes
<1>11. UNCHANGED <<out, userText, expected, chunkText>>
  BY <1>1 DEF vars, turnVars
<1>12. Kept(out, cutAt)'
  <2> SUFFICES ASSUME NEW i \in 1 .. Len(out)
               PROVE  AudioOK(out, i) /\ CompleteOK(out, i) /\ CutOK(out, i, cutAt')
    BY <1>11 DEF Kept
  <2>1. AudioOK(out, i) /\ CompleteOK(out, i) /\ CutOK(out, i, cutAt)
    BY DEF TalkInv, Kept
  <2>2. CutOK(out, i, cutAt')
    <3> SUFFICES ASSUME out[i].kind = "complete", out[i].interrupted
                 PROVE  CutOK(out, i, cutAt')
      BY DEF CutOK
    <3>1. PICK t \in Nat : OpenAt(out, t, i) /\ out[i].user = out[t].user
      BY <2>1 DEF CompleteOK
    <3>2. t \in 1 .. Len(out) /\ out[t].kind = "turn"
      BY <1>2, <3>1, LenProperties DEF OpenAt
    <3>3. out[i].user # None
      BY <1>2, <3>1, <3>2 DEF TalkInv, TurnsInv
    <3>4. out[i].user \in DOMAIN cutAt' /\ cutAt'[out[i].user] = cutAt[out[i].user]
      BY <1>8, <2>1, <3>3 DEF CutOK
    <3> QED
      BY <2>1, <3>4 DEF CutOK
  <2> QED
    BY <2>1, <2>2
<1>13. \A k \in 1 .. Len(wire') : k \in 1 .. Len(wire) \/ (k = Len(wire) + 1 /\ wire'[k] = f)
  BY <1>3
<1>14. RepliesInv'
  BY <1>1, <1>2, <1>11, RepliesAppend
<1>15. TextsInv'
  BY <1>1, <1>2, <1>11, TextsAppend
<1>16. ASSUME NEW j \in 1 .. Len(wire), wire[j].kind = "text"
       PROVE  /\ wire[j].user \in DOMAIN cutAt'
              /\ (\A l \in (j + 1) .. Len(wire) : wire[l].kind \notin {"text", "interrupt"})
                    => cutAt'[wire[j].user] = heard
  <2>1. ASSUME NEW l \in (j + 1) .. Len(wire), wire[l].kind = "interrupt"
        PROVE  wire[j].user \in DOMAIN cutAt
    BY <1>3, <1>16, <2>1 DEF TalkInv, TapsInv
  <2>2. CASE Away
    BY <1>8, <1>16, <2>1, <2>2 DEF Away
  <2>3. CASE Typing
    <3>1. PICK k \in 1 .. Len(wire) :
            /\ wire[k].kind = "text" /\ wire[k].user = open
            /\ \A l \in (k + 1) .. Len(wire) : wire[l].kind = "speaking"
      BY <2>3 DEF Typing
    <3>2. j <= k
      BY <1>3, <1>16, <3>1
    <3>3. CASE j = k
      BY <1>6, <1>8, <2>3, <3>1, <3>3
    <3>4. CASE j < k
      <4>1. j \in 1 .. (k - 1) /\ k \in (j + 1) .. Len(wire)
        BY <3>4
      <4>2. PICK l \in (j + 1) .. (k - 1) : wire[l].kind = "interrupt"
        BY <1>16, <3>1, <4>1 DEF TalkInv, TextsInv, TextFrame
      <4>3. l \in (j + 1) .. Len(wire)
        BY <1>3, <4>1, <4>2
      <4> QED
        BY <1>8, <2>1, <4>2, <4>3
    <3> QED
      BY <3>2, <3>3, <3>4
  <2>4. CASE Begun \/ Replying \/ Completed \/ Resting
    BY <1>16, <2>4 DEF Begun, Replying, Completed, Resting, Still
  <2> QED
    BY <2>2, <2>3, <2>4 DEF TalkInv, ClientInv
<1>17. ASSUME userText # None
       PROVE  /\ userText \in DOMAIN cutAt'
              /\ (\A l \in 1 .. Len(wire) : wire[l].kind \notin {"text", "interrupt"})
                    => cutAt'[userText] = heard
  <2>1. ASSUME NEW l \in 1 .. Len(wire), wire[l].kind = "interrupt"
        PROVE  userText \in DOMAIN cutAt
    BY <1>17, <2>1 DEF TalkInv, TapsInv
  <2>2. CASE Away
    BY <1>8, <1>17, <2>1, <2>2 DEF Away
  <2>3. CASE Typing
    <3>1. PICK k \in 1 .. Len(wire) : wire[k].kind = "text" /\ wire[k].user = open
      BY <2>3 DEF Typing
    <3>2. \E l \in 1 .. (k - 1) : wire[l].kind = "interrupt"
      BY <1>17, <3>1 DEF TalkInv, TextsInv, TextFrame
    <3>3. \E l \in 1 .. Len(wire) : wire[l].kind = "interrupt"
      BY <1>3, <3>1, <3>2
    <3> QED
      BY <1>8, <2>1, <3>3
  <2>4. CASE Begun
    BY <1>6, <1>8, <2>4 DEF Begun, Busy
  <2>5. CASE Replying
    BY <1>7, <1>8, <2>5 DEF Replying
  <2>6. CASE Completed \/ Resting
    BY <1>17, <2>6 DEF Completed, Resting, AtRest
  <2> QED
    BY <2>2, <2>3, <2>4, <2>5, <2>6 DEF TalkInv, ClientInv
<1>18. TapsInv'
  <2> SUFFICES ASSUME NEW k \in 1 .. Len(wire'), wire'[k].kind = "interrupt"
               PROVE  /\ \A j \in 1 .. (k - 1) : wire'[j].kind = "text" =>
                            /\ wire'[j].user \in DOMAIN cutAt'
                            /\ (\A l \in (j + 1) .. (k - 1) :
                                   wire'[l].kind \notin {"text", "interrupt"})
                                  => cutAt'[wire'[j].user] = wire'[k].heard
                      /\ userText # None =>
                            /\ userText \in DOMAIN cutAt'
                            /\ (\A l \in 1 .. (k - 1) : wire'[l].kind \notin {"text", "interrupt"})
                                  => cutAt'[userText] = wire'[k].heard
    BY <1>11 DEF TapsInv
  <2>1. CASE k \in 1 .. Len(wire)
    <3>1. wire'[k] = wire[k] /\ \A j \in 1 .. (k - 1) : j \in 1 .. Len(wire) /\ wire'[j] = wire[j]
      BY <1>3, <2>1
    <3>2. ASSUME NEW j \in 1 .. (k - 1), wire[j].kind = "text"
          PROVE  /\ wire[j].user \in DOMAIN cutAt /\ wire[j].user # None
                 /\ (\A l \in (j + 1) .. (k - 1) : wire[l].kind \notin {"text", "interrupt"})
                       => cutAt[wire[j].user] = wire[k].heard
      BY <1>2, <2>1, <3>1, <3>2 DEF TalkInv, TapsInv, TextsInv, TextFrame
    <3>3. userText # None =>
            /\ userText \in DOMAIN cutAt
            /\ (\A l \in 1 .. (k - 1) : wire[l].kind \notin {"text", "interrupt"})
                  => cutAt[userText] = wire[k].heard
      BY <2>1, <3>1 DEF TalkInv, TapsInv
    <3>4. ASSUME NEW j \in 1 .. (k - 1), NEW l \in (j + 1) .. (k - 1) PROVE wire'[l] = wire[l]
      BY <3>1
    <3> QED
      BY <1>8, <3>1, <3>2, <3>3, <3>4
  <2>2. CASE k = Len(wire) + 1 /\ wire'[k] = f
    <3>1. k - 1 = Len(wire) /\ wire'[k].heard = heard
      BY <1>2, <1>3, <2>2
    <3>2. ASSUME NEW j \in 1 .. Len(wire), NEW l \in (j + 1) .. Len(wire) PROVE wire'[l] = wire[l]
      BY <1>3
    <3> QED
      BY <1>3, <1>16, <1>17, <3>1, <3>2
  <2> QED
    BY <1>13, <2>1, <2>2
<1>19. UnreadCut(Len(out) + 1)'
  <2> SUFFICES ASSUME NEW j \in (read + 1) .. Len(out), out[j].kind = "turn"
               PROVE  out[j].user \in DOMAIN cutAt'
    BY <1>1, <1>2, <1>11, LenProperties DEF UnreadCut
  <2>0. Len(out) \in Nat /\ read \in Nat
    BY <1>2, LenProperties DEF TalkInv, TalkTypes
  <2>1. CASE Away \/ Typing
    <3>1. j \in (read + 1) .. (Len(out) + 1 - 1)
      BY <2>0
    <3>2. out[j].user \in DOMAIN cutAt
      BY <2>1, <3>1 DEF Away, Typing, UnreadCut
    <3> QED
      BY <1>8, <3>2
  <2>2. CASE Begun
    <3>1. CASE j = Len(out)
      BY <1>6, <1>8, <2>2, <3>1 DEF Begun, Busy
    <3>2. CASE j # Len(out)
      <4>1. j \in (read + 1) .. (Len(out) - 1)
        BY <2>0, <3>2
      <4> QED
        BY <1>8, <2>2, <4>1 DEF Begun, UnreadCut
    <3> QED
      BY <3>1, <3>2
  <2>3. CASE Replying
    BY <2>3 DEF Replying, Unread
  <2>4. CASE Completed
    <3>1. j # Len(out)
      BY <2>4 DEF Completed
    <3>2. j \in (read + 1) .. (Len(out) - 1)
      BY <2>0, <3>1
    <3> QED
      BY <2>4, <3>2 DEF Completed
  <2>5. CASE Resting
    BY <2>0, <2>5 DEF Resting
  <2> QED
    BY <2>1, <2>2, <2>3, <2>4, <2>5 DEF TalkInv, ClientInv
<1>20. Away'
  <2>1. ASSUME NEW k \in 1 .. Len(wire'), wire'[k].kind = "text"
        PROVE  \E l \in (k + 1) .. Len(wire') : wire'[l].kind = "interrupt"
    <3>1. k \in 1 .. Len(wire)
      BY <1>2, <1>13, <2>1
    <3>2. Len(wire) + 1 \in (k + 1) .. Len(wire')
      BY <1>3, <3>1
    <3> QED
      BY <1>2, <1>3, <3>2
  <2>2. \E l \in 1 .. Len(wire') : wire'[l].kind = "interrupt"
    <3>1. Len(wire) + 1 \in 1 .. Len(wire')
      BY <1>3
    <3> QED
      BY <1>2, <1>3, <3>1
  <2> QED
    BY <1>1, <1>19, <2>1, <2>2 DEF Away
<1> QED
  BY <1>9, <1>10, <1>12, <1>14, <1>15, <1>18, <1>20 DEF TalkInv, ClientInv

\* The playback state on the wire disturbs nothing.
LEMMA ClientSpeaking ==
    ASSUME TalkInv, NEW f \in Wire, wire' = Append(wire, f), f.kind = "speaking",
           UNCHANGED <<vars, read, open, reply, cutAt, asked>>
    PROVE  ClientInv'
<1>1. /\ Len(wire) \in Nat /\ Len(wire') = Len(wire) + 1
      /\ \A k \in 1 .. Len(wire) : wire'[k] = wire[k]
      /\ wire'[Len(wire) + 1] = f
  BY WireAppend DEF TalkInv, TalkTypes
<1>2. \A k \in 1 .. Len(wire') : k \in 1 .. Len(wire) \/ wire'[k].kind = "speaking"
  BY <1>1
<1>3. \A k \in 1 .. Len(wire) : k \in 1 .. Len(wire') /\ wire'[k] = wire[k]
  BY <1>1
<1>4. Still => Still'
  BY <1>2, <1>3 DEF Still
<1>5. /\ \A i : UnreadCut(i) => UnreadCut(i)'
      /\ \A kinds : Unread(kinds)' => Unread(kinds)
      /\ AtRest => AtRest'
      /\ \A t, n, v : Busy(t, v, n) => Busy(t, v, n)'
      /\ UNCHANGED <<out, userText, expected, chunkText>>
  BY DEF UnreadCut, Unread, AtRest, Busy, vars, turnVars
<1>6. CASE Away
  <2>1. ASSUME NEW k \in 1 .. Len(wire'), wire'[k].kind = "text"
        PROVE  \E l \in (k + 1) .. Len(wire') : wire'[l].kind = "interrupt"
    <3>1. k \in 1 .. Len(wire) /\ wire[k].kind = "text"
      BY <1>2, <1>3, <2>1
    <3>2. PICK l \in (k + 1) .. Len(wire) : wire[l].kind = "interrupt"
      BY <1>6, <3>1 DEF Away
    <3>3. l \in (k + 1) .. Len(wire') /\ l \in 1 .. Len(wire)
      BY <1>1, <3>1, <3>2
    <3> QED
      BY <1>1, <3>2, <3>3
  <2>2. UnreadCut(Len(out) + 1)'
    BY <1>5, <1>6 DEF Away, UnreadCut
  <2>3. userText' # None => \E l \in 1 .. Len(wire') : wire'[l].kind = "interrupt"
    BY <1>3, <1>5, <1>6 DEF Away
  <2> QED
    BY <1>6, <2>1, <2>2, <2>3 DEF Away, ClientInv
<1>7. CASE Typing
  <2>1. PICK k \in 1 .. Len(wire) :
          /\ wire[k].kind = "text" /\ wire[k].user = open
          /\ \A l \in (k + 1) .. Len(wire) : wire[l].kind = "speaking"
    BY <1>7 DEF Typing
  <2>2. ASSUME NEW l \in (k + 1) .. Len(wire') PROVE wire'[l].kind = "speaking"
    <3>1. l \in (k + 1) .. Len(wire) \/ l = Len(wire) + 1
      BY <1>1, <2>1
    <3>2. l \in (k + 1) .. Len(wire) => l \in 1 .. Len(wire)
      BY <2>1
    <3> QED
      BY <1>1, <2>1, <3>1, <3>2
  <2>3. k \in 1 .. Len(wire') /\ wire'[k] = wire[k]
    BY <1>3
  <2>4. UnreadCut(Len(out) + 1)'
    BY <1>5, <1>7 DEF Typing, UnreadCut
  <2> QED
    BY <1>7, <2>1, <2>2, <2>3, <2>4 DEF Typing, ClientInv
<1>8. CASE Begun
  <2>1. Busy(Len(out), open, 0)' /\ UnreadCut(Len(out))'
    BY <1>5, <1>8 DEF Begun, UnreadCut, Busy, vars, turnVars
  <2> QED
    BY <1>4, <1>5, <1>8, <2>1 DEF Begun, ClientInv
<1>9. CASE Replying
  <2>1. ASSUME NEW K
        PROVE  (\E k \in 1 .. Len(wire') : wire'[k].kind = "speak" /\ wire'[k].seq = K)
                 <=> \E k \in 1 .. Len(wire) : wire[k].kind = "speak" /\ wire[k].seq = K
    BY <1>2, <1>3
  <2>2. (\E k \in 1 .. Len(wire') : wire'[k].kind = "end")
          <=> \E k \in 1 .. Len(wire) : wire[k].kind = "end"
    BY <1>2, <1>3
  <2>3. \A k \in 1 .. Len(wire') : wire'[k].kind \notin {"text", "interrupt"}
    BY <1>2, <1>3, <1>9 DEF Replying
  <2>4. Replying'
    BY <1>5, <1>9, <2>1, <2>2, <2>3 DEF Replying, Unread
  <2> QED
    BY <2>4 DEF ClientInv
<1>10. CASE Completed
  BY <1>4, <1>5, <1>10 DEF Completed, ClientInv
<1>11. CASE Resting
  BY <1>4, <1>5, <1>11 DEF Resting, ClientInv
<1> QED
  BY <1>6, <1>7, <1>8, <1>9, <1>10, <1>11 DEF TalkInv, ClientInv

\* Playing and falling silent.
LEMMA PlayStep ==
    ASSUME TalkInv, Render \/ Silence
    PROVE  TalkInv'
<1>1. /\ UNCHANGED <<vars, read, asked, open, reply, floor, cutAt>>
      /\ buffered' \in Nat /\ heard' \in Nat /\ reported' \in BOOLEAN
      /\ \/ UNCHANGED wire
         \/ \E on \in BOOLEAN : wire' = Append(wire, [kind |-> "speaking", on |-> on])
  <2>1. buffered \in Nat /\ heard \in Nat
    BY DEF TalkInv, TalkTypes
  <2>2. CASE Render
    <3>1. buffered' \in Nat /\ heard' \in Nat /\ reported' = TRUE
      BY <2>1, <2>2 DEF Render
    <3>2. wire' = wire \/ wire' = Append(wire, [kind |-> "speaking", on |-> TRUE])
      BY <2>2 DEF Render, Send
    <3> QED
      BY <2>2, <3>1, <3>2 DEF Render
  <2>3. CASE Silence
    <3>1. buffered' \in Nat /\ heard' \in Nat /\ reported' = FALSE
      BY <2>1, <2>3 DEF Silence
    <3>2. wire' = Append(wire, [kind |-> "speaking", on |-> FALSE])
      BY <2>3 DEF Silence, Send
    <3> QED
      BY <2>3, <3>1, <3>2 DEF Silence
  <2> QED
    BY <2>2, <2>3
<1>2. UNCHANGED <<out, userText, expected, chunkText, gen>>
  BY <1>1 DEF vars, turnVars
<1>3. TypeOK' /\ judging' = {} /\ SessionInv' /\ TurnsInv'
      /\ \A i \in 1 .. Len(tasks') : tasks'[i].gen <= gen'
  BY <1>1, SessionKept
<1>4. Kept(out, cutAt)'
  BY <1>1, <1>2 DEF TalkInv
<1>5. CASE UNCHANGED wire
  <2>1. TalkTypes'
    BY <1>1, <1>2, <1>3, <1>5 DEF TalkInv, TalkTypes
  <2>2. RepliesInv'
    BY <1>1, <1>2, <1>5 DEF TalkInv, RepliesInv, ReplyFrame
  <2>3. TextsInv' /\ TapsInv'
    <3>0. wire' = wire /\ asked' = asked /\ out' = out /\ userText' = userText /\ TextsInv
      BY <1>1, <1>2, <1>5 DEF TalkInv
    <3>1. TextsInv'
      BY <3>0, SMTT(60) DEF TextsInv, TextFrame
    <3>2. TapsInv'
      BY <1>1, <1>2, <1>5 DEF TalkInv, TapsInv
    <3> QED
      BY <3>1, <3>2
  <2>4. ClientInv'
    <3>1. CASE Away
      BY <1>1, <1>2, <1>5, <3>1 DEF Away, UnreadCut, ClientInv
    <3>2. CASE Typing
      BY <1>1, <1>2, <1>5, <3>2 DEF Typing, UnreadCut, ClientInv
    <3>3. CASE Begun
      <4>1. Busy(Len(out), open, 0)'
        BY <1>1, <3>3 DEF Begun, Busy, vars, turnVars
      <4> QED
        BY <1>1, <1>2, <1>5, <3>3, <4>1 DEF Begun, Still, UnreadCut, ClientInv
    <3>4. CASE Replying
      BY <1>1, <1>2, <1>5, <3>4 DEF Replying, Unread, ClientInv
    <3>5. CASE Completed
      BY <1>1, <1>5, <3>5 DEF Completed, Still, AtRest, ClientInv, vars, turnVars
    <3>6. CASE Resting
      BY <1>1, <1>5, <3>6 DEF Resting, Still, AtRest, ClientInv, vars, turnVars
    <3> QED
      BY <3>1, <3>2, <3>3, <3>4, <3>5, <3>6 DEF TalkInv, ClientInv
  <2> QED
    BY <1>3, <1>4, <2>1, <2>2, <2>3, <2>4 DEF TalkInv
<1>6. ASSUME NEW on \in BOOLEAN, wire' = Append(wire, [kind |-> "speaking", on |-> on])
      PROVE  TalkInv'
  <2> DEFINE f == [kind |-> "speaking", on |-> on]
  <2>1. f \in Wire /\ f.kind = "speaking" /\ wire' = Append(wire, f) /\ wire \in Seq(Wire)
    BY <1>6 DEF Wire, TalkInv, TalkTypes
  <2> HIDE DEF f
  <2>2. wire' \in Seq(Wire) /\ Taps(wire') = Taps(wire)
    <3>1. Taps(Append(wire, f)) = Taps(wire) + 0 /\ Taps(wire) \in Nat
      BY <2>1, WireAppend
    <3> QED
      BY <2>1, <3>1, WireAppend
  <2>3. RepliesInv'
    BY <1>2, <2>1, RepliesAppend
  <2>4. TextsInv'
    BY <1>1, <1>2, <2>1, TextsAppend
  <2>5. TapsInv'
    BY <1>1, <1>2, <2>1, TapsAppend
  <2>6. ClientInv'
    BY <1>1, <2>1, ClientSpeaking
  <2>7. TalkTypes'
    BY <1>1, <1>2, <1>3, <2>2 DEF TalkInv, TalkTypes
  <2> QED
    BY <1>3, <1>4, <2>3, <2>4, <2>5, <2>6, <2>7 DEF TalkInv
<1> QED
  BY <1>1, <1>5, <1>6

\* While a reply is sent, the client is in the turn of it.
LEMMA SendingReply ==
    ASSUME TalkInv, reply # NoReply, reply.sent <= ReplyLen[reply.turn]
    PROVE  /\ Replying /\ open \in Utterances /\ open # None
           /\ reply.turn = open /\ userText = open
           /\ reply.sent \in Nat /\ reply.sent <= ReplyLen[open] /\ ReplyLen[open] \in 1 .. MaxSeq
           /\ expected = None /\ \A k \in 1 .. Len(wire) : wire[k].kind # "end"
<1>1. reply \in [turn : asked, sent : 0 .. MaxSeq + 1] /\ asked \subseteq Utterances
  BY Basics DEF TalkInv, TalkTypes
<1>2. reply.turn \in Utterances /\ reply.sent \in Nat /\ ReplyLen[reply.turn] \in 1 .. MaxSeq
  BY <1>1, Basics
<1>3. Replying
  BY <1>2, Basics DEF TalkInv, ClientInv, Away, Typing, Begun, Completed, Resting
<1>4. open \in Utterances /\ reply.turn = open /\ userText = open
  BY <1>3 DEF Replying
<1>5. reply.sent # ReplyLen[open] + 1
  BY <1>2, <1>4, Basics
<1>6. expected = None /\ \A k \in 1 .. Len(wire) : wire[k].kind # "end"
  BY <1>3, <1>5 DEF Replying
<1> QED
  BY <1>2, <1>3, <1>4, <1>6, Basics

LEMMA SendChunkStep ==
    ASSUME TalkInv, SendChunk
    PROVE  TalkInv'
<1> DEFINE n == reply.sent
           f == [kind |-> "speak", seq |-> n, chunk |-> <<open, n>>]
<1>1. /\ Replying /\ open \in Utterances /\ open # None
      /\ reply.turn = open /\ userText = open
      /\ n \in Nat /\ n < ReplyLen[open] /\ ReplyLen[open] \in 1 .. MaxSeq
      /\ expected = None /\ \A k \in 1 .. Len(wire) : wire[k].kind # "end"
  <2>1. reply # NoReply /\ reply.sent < ReplyLen[reply.turn]
    BY DEF SendChunk
  <2>2. reply.sent <= ReplyLen[reply.turn]
    <3>1. reply \in [turn : asked, sent : 0 .. MaxSeq + 1] /\ asked \subseteq Utterances
      BY <2>1, Basics DEF TalkInv, TalkTypes
    <3>2. reply.sent \in Nat /\ ReplyLen[reply.turn] \in Nat
      BY <3>1, Basics
    <3> QED
      BY <2>1, <3>2
  <2>3. /\ Replying /\ open \in Utterances /\ open # None
        /\ reply.turn = open /\ userText = open
        /\ reply.sent \in Nat /\ ReplyLen[open] \in 1 .. MaxSeq
        /\ expected = None /\ \A k \in 1 .. Len(wire) : wire[k].kind # "end"
    BY <2>1, <2>2, SendingReply
  <2> QED
    BY <2>1, <2>3
<1>2. /\ wire' = Append(wire, f)
      /\ reply' = [reply EXCEPT !.sent = n + 1]
      /\ UNCHANGED <<vars, read, asked, open, buffered, heard, floor, reported, cutAt>>
  BY <1>1 DEF SendChunk, Send
<1>3. /\ f \in Wire /\ f.kind = "speak" /\ f.seq = n /\ f.chunk = <<open, n>>
      /\ wire \in Seq(Wire)
  <2>1. n \in Seqs
    BY <1>1, Basics DEF Seqs
  <2>2. <<open, n>> \in Chunks
    BY <1>1, <2>1, TalkAssumption
  <2> QED
    BY <2>1, <2>2 DEF Wire, TalkInv, TalkTypes
<1>4. /\ reply'.turn = open /\ reply'.sent = n + 1
      /\ reply' \in [turn : asked, sent : 0 .. MaxSeq + 1]
  <2>1. reply \in [turn : asked, sent : 0 .. MaxSeq + 1]
    BY <1>1, Basics DEF TalkInv, TalkTypes, NoReply
  <2>2. n + 1 \in 0 .. MaxSeq + 1
    BY <1>1, Basics
  <2> QED
    BY <1>1, <1>2, <2>1, <2>2
<1> HIDE DEF f
<1>5. /\ wire' \in Seq(Wire) /\ Taps(wire') = Taps(wire)
      /\ Len(wire) \in Nat /\ Len(wire') = Len(wire) + 1
      /\ \A k \in 1 .. Len(wire) : wire'[k] = wire[k]
      /\ wire'[Len(wire) + 1] = f
  <2>1. Taps(Append(wire, f)) = Taps(wire) + 0 /\ Taps(wire) \in Nat
    BY <1>3, WireAppend
  <2> QED
    BY <1>2, <1>3, <2>1, WireAppend
<1>6. UNCHANGED <<out, userText, expected, chunkText, gen>>
  BY <1>2 DEF vars, turnVars
<1>7. TypeOK' /\ judging' = {} /\ SessionInv' /\ TurnsInv'
      /\ \A i \in 1 .. Len(tasks') : tasks'[i].gen <= gen'
  BY <1>2, SessionKept
<1>8. TalkTypes'
  BY <1>2, <1>4, <1>5, <1>6, <1>7 DEF TalkInv, TalkTypes
<1>9. Kept(out, cutAt)'
  BY <1>2, <1>6 DEF TalkInv
<1>10. TextsInv'
  BY <1>2, <1>3, <1>6, TextsAppend
<1>11. TapsInv'
  BY <1>2, <1>3, <1>6, TapsAppend
<1>12. \A s \in 0 .. (ReplyLen[open] - 1) :
          s < n <=> \/ s \in DOMAIN chunkText
                    \/ \E k \in 1 .. Len(wire) : wire[k].kind = "speak" /\ wire[k].seq = s
  BY <1>1 DEF Replying
<1>13. \A k \in 1 .. Len(wire) : wire[k].kind \notin {"text", "interrupt"}
  BY <1>1 DEF Replying
<1>14. ASSUME NEW k \in 1 .. Len(wire), wire[k].kind = "speak" PROVE wire[k].seq \in Nat /\ wire[k].seq < n
  <2>1. wire[k] \in Wire
    BY <1>3, ElementOfSeq
  <2>2. wire[k].seq \in Seqs
    BY <1>14, <2>1 DEF Wire
  <2>3. wire[k].seq < ReplyLen[open]
    BY <1>1, <1>14 DEF TalkInv, RepliesInv, ReplyFrame
  <2>4. wire[k].seq \in 0 .. (ReplyLen[open] - 1)
    BY <1>1, <2>2, <2>3, Basics DEF Seqs
  <2> QED
    BY <1>12, <1>14, <2>4
<1>15. RepliesInv'
  <2>1. ASSUME NEW k \in 1 .. Len(wire'), wire'[k].kind \in {"speak", "end"}
        PROVE  /\ userText # None /\ expected = None
               /\ \A j \in 1 .. (k - 1) : wire'[j].kind \notin {"text", "interrupt"}
    <3>1. \A j \in 1 .. (k - 1) : j \in 1 .. Len(wire) /\ wire'[j] = wire[j]
      BY <1>5
    <3> QED
      BY <1>1, <1>13, <3>1
  <2>2. ASSUME NEW k \in 1 .. Len(wire'), wire'[k].kind = "speak"
        PROVE  /\ wire'[k].chunk = <<userText, wire'[k].seq>>
               /\ wire'[k].seq < ReplyLen[userText] /\ wire'[k].seq \notin DOMAIN chunkText
               /\ \A s \in 0 .. (wire'[k].seq - 1) :
                     \/ s \in DOMAIN chunkText
                     \/ \E j \in 1 .. (k - 1) : wire'[j].kind = "speak" /\ wire'[j].seq = s
               /\ \A j \in 1 .. (k - 1) : wire'[j].kind = "speak" => wire'[j].seq < wire'[k].seq
    <3>1. \A j \in 1 .. (k - 1) : j \in 1 .. Len(wire) /\ wire'[j] = wire[j]
      BY <1>5
    <3>2. CASE k \in 1 .. Len(wire)
      <4>1. wire'[k] = wire[k]
        BY <1>5, <3>2
      <4>2. /\ wire[k].chunk = <<userText, wire[k].seq>>
            /\ wire[k].seq < ReplyLen[userText] /\ wire[k].seq \notin DOMAIN chunkText
            /\ \A s \in 0 .. (wire[k].seq - 1) :
                  \/ s \in DOMAIN chunkText
                  \/ \E j \in 1 .. (k - 1) : wire[j].kind = "speak" /\ wire[j].seq = s
            /\ \A j \in 1 .. (k - 1) : wire[j].kind = "speak" => wire[j].seq < wire[k].seq
        BY <2>2, <3>2, <4>1 DEF TalkInv, RepliesInv, ReplyFrame
      <4> QED
        BY <3>1, <4>1, <4>2
    <3>3. CASE k = Len(wire) + 1
      <4>1. wire'[k] = f /\ k - 1 = Len(wire)
        BY <1>5, <3>3
      <4>2. n \notin DOMAIN chunkText
        BY <1>1, <1>12
      <4>3. ASSUME NEW s \in 0 .. (n - 1)
            PROVE  \/ s \in DOMAIN chunkText
                   \/ \E j \in 1 .. (k - 1) : wire'[j].kind = "speak" /\ wire'[j].seq = s
        <5>1. s \in 0 .. (ReplyLen[open] - 1) /\ s < n
          BY <1>1
        <5> QED
          BY <1>12, <3>1, <4>1, <5>1
      <4>4. \A j \in 1 .. (k - 1) : wire'[j].kind = "speak" => wire'[j].seq < n
        BY <1>14, <3>1
      <4> QED
        BY <1>1, <1>3, <4>1, <4>2, <4>3, <4>4
    <3> QED
      BY <1>5, <3>2, <3>3
  <2>3. \A k \in 1 .. Len(wire') : wire'[k].kind # "end"
    BY <1>1, <1>3, <1>5
  <2> QED
    BY <1>6, <2>1, <2>2, <2>3 DEF RepliesInv, ReplyFrame
<1>16. Replying'
  <2>1. \A k \in 1 .. Len(wire') : wire'[k].kind \notin {"text", "interrupt", "end"}
    BY <1>1, <1>3, <1>5, <1>13
  <2>2. ASSUME NEW s \in 0 .. (ReplyLen[open] - 1)
        PROVE  s < n + 1 <=> \/ s \in DOMAIN chunkText
                             \/ \E k \in 1 .. Len(wire') : wire'[k].kind = "speak" /\ wire'[k].seq = s
    <3>1. (\E k \in 1 .. Len(wire') : wire'[k].kind = "speak" /\ wire'[k].seq = s)
            <=> \/ \E k \in 1 .. Len(wire) : wire[k].kind = "speak" /\ wire[k].seq = s
                \/ s = n
      <4>1. \A k \in 1 .. Len(wire') : k \in 1 .. Len(wire) \/ k = Len(wire) + 1
        BY <1>5
      <4>2. \A k \in 1 .. Len(wire) : k \in 1 .. Len(wire')
        BY <1>5
      <4>3. Len(wire) + 1 \in 1 .. Len(wire')
        BY <1>5
      <4> QED
        BY <1>3, <1>5, <4>1, <4>2, <4>3
    <3>2. s < n + 1 <=> s < n \/ s = n
      BY <1>1
    <3> QED
      BY <1>12, <3>1, <3>2
  <2>3. n + 1 # ReplyLen[open] + 1
    BY <1>1
  <2>4. ~Unread({"turn", "cut", "complete"})'
    BY <1>1, <1>2, <1>6 DEF Replying, Unread
  <2>5. open \in Utterances \ DOMAIN cutAt
    BY <1>1 DEF Replying
  <2>6. /\ open' = open /\ cutAt' = cutAt /\ chunkText' = chunkText /\ expected' = None
        /\ userText' = open
    BY <1>1, <1>2, <1>6
  <2> HIDE DEF n
  <2> QED
    BY <1>4, <2>1, <2>2, <2>3, <2>4, <2>5, <2>6 DEF Replying
<1> QED
  BY <1>7, <1>8, <1>9, <1>10, <1>11, <1>15, <1>16 DEF TalkInv, ClientInv

LEMMA SendEndStep ==
    ASSUME TalkInv, CountSent, SendEnd
    PROVE  TalkInv'
<1> DEFINE n == reply.sent
           f == [kind |-> "end", total |-> n]
<1>1. /\ Replying /\ open \in Utterances /\ open # None
      /\ reply.turn = open /\ userText = open
      /\ n \in Nat /\ n = ReplyLen[open] /\ n \in 1 .. MaxSeq
      /\ expected = None /\ \A k \in 1 .. Len(wire) : wire[k].kind # "end"
  <2>1. reply # NoReply /\ reply.sent = ReplyLen[reply.turn]
    BY DEF SendEnd
  <2>2. reply.sent <= ReplyLen[reply.turn]
    <3>1. reply \in [turn : asked, sent : 0 .. MaxSeq + 1]
      BY <2>1 DEF TalkInv, TalkTypes
    <3>2. reply.sent \in Nat
      BY <3>1, Basics
    <3> QED
      BY <2>1, <3>2
  <2>3. /\ Replying /\ open \in Utterances /\ open # None
        /\ reply.turn = open /\ userText = open
        /\ reply.sent \in Nat /\ ReplyLen[open] \in 1 .. MaxSeq
        /\ expected = None /\ \A k \in 1 .. Len(wire) : wire[k].kind # "end"
    BY <2>1, <2>2, SendingReply
  <2> QED
    BY <2>1, <2>3
<1>2. /\ wire' = Append(wire, f)
      /\ reply' = [reply EXCEPT !.sent = n + 1]
      /\ UNCHANGED <<vars, read, asked, open, buffered, heard, floor, reported, cutAt>>
  BY <1>1 DEF SendEnd, Send
<1>3. f \in Wire /\ f.kind = "end" /\ f.total = n /\ wire \in Seq(Wire)
  BY <1>1, Basics DEF Wire, TalkInv, TalkTypes
<1>4. /\ reply'.turn = open /\ reply'.sent = n + 1
      /\ reply' \in [turn : asked, sent : 0 .. MaxSeq + 1]
  <2>1. reply \in [turn : asked, sent : 0 .. MaxSeq + 1]
    BY <1>1, Basics DEF TalkInv, TalkTypes, NoReply
  <2>2. n + 1 \in 0 .. MaxSeq + 1
    BY <1>1, Basics
  <2> QED
    BY <1>1, <1>2, <2>1, <2>2
<1> HIDE DEF f
<1>5. /\ wire' \in Seq(Wire) /\ Taps(wire') = Taps(wire)
      /\ Len(wire) \in Nat /\ Len(wire') = Len(wire) + 1
      /\ \A k \in 1 .. Len(wire) : wire'[k] = wire[k]
      /\ wire'[Len(wire) + 1] = f
  <2>1. Taps(Append(wire, f)) = Taps(wire) + 0 /\ Taps(wire) \in Nat
    BY <1>3, WireAppend
  <2> QED
    BY <1>2, <1>3, <2>1, WireAppend
<1>6. UNCHANGED <<out, userText, expected, chunkText, gen>>
  BY <1>2 DEF vars, turnVars
<1>7. TypeOK' /\ judging' = {} /\ SessionInv' /\ TurnsInv'
      /\ \A i \in 1 .. Len(tasks') : tasks'[i].gen <= gen'
  BY <1>2, SessionKept
<1>8. TalkTypes'
  BY <1>2, <1>4, <1>5, <1>6, <1>7 DEF TalkInv, TalkTypes
<1>9. Kept(out, cutAt)'
  BY <1>2, <1>6 DEF TalkInv
<1>10. TextsInv'
  BY <1>2, <1>3, <1>6, TextsAppend
<1>11. TapsInv'
  BY <1>2, <1>3, <1>6, TapsAppend
<1>12. \A s \in 0 .. (n - 1) :
          \/ s \in DOMAIN chunkText
          \/ \E k \in 1 .. Len(wire) : wire[k].kind = "speak" /\ wire[k].seq = s
  BY <1>1 DEF Replying
<1>13. \A k \in 1 .. Len(wire) : wire[k].kind \notin {"text", "interrupt"}
  BY <1>1 DEF Replying
<1>14. RepliesInv'
  <2>1. ASSUME NEW k \in 1 .. Len(wire'), wire'[k].kind \in {"speak", "end"}
        PROVE  /\ userText # None /\ expected = None
               /\ \A j \in 1 .. (k - 1) : wire'[j].kind \notin {"text", "interrupt"}
    <3>1. \A j \in 1 .. (k - 1) : j \in 1 .. Len(wire) /\ wire'[j] = wire[j]
      BY <1>5
    <3> QED
      BY <1>1, <1>13, <3>1
  <2>2. ASSUME NEW k \in 1 .. Len(wire'), wire'[k].kind = "speak"
        PROVE  /\ wire'[k].chunk = <<userText, wire'[k].seq>>
               /\ wire'[k].seq < ReplyLen[userText] /\ wire'[k].seq \notin DOMAIN chunkText
               /\ \A s \in 0 .. (wire'[k].seq - 1) :
                     \/ s \in DOMAIN chunkText
                     \/ \E j \in 1 .. (k - 1) : wire'[j].kind = "speak" /\ wire'[j].seq = s
               /\ \A j \in 1 .. (k - 1) : wire'[j].kind = "speak" => wire'[j].seq < wire'[k].seq
    <3>1. k \in 1 .. Len(wire) /\ wire'[k] = wire[k] /\ \A j \in 1 .. (k - 1) : wire'[j] = wire[j]
      BY <1>3, <1>5, <2>2
    <3>2. /\ wire[k].chunk = <<userText, wire[k].seq>>
          /\ wire[k].seq < ReplyLen[userText] /\ wire[k].seq \notin DOMAIN chunkText
          /\ \A s \in 0 .. (wire[k].seq - 1) :
                \/ s \in DOMAIN chunkText
                \/ \E j \in 1 .. (k - 1) : wire[j].kind = "speak" /\ wire[j].seq = s
          /\ \A j \in 1 .. (k - 1) : wire[j].kind = "speak" => wire[j].seq < wire[k].seq
      BY <2>2, <3>1 DEF TalkInv, RepliesInv, ReplyFrame
    <3> QED
      BY <3>1, <3>2
  <2>3. ASSUME NEW k \in 1 .. Len(wire'), wire'[k].kind = "end"
        PROVE  /\ wire'[k].total = ReplyLen[userText]
               /\ \A j \in (k + 1) .. Len(wire') : wire'[j].kind \notin {"speak", "end"}
               /\ \A s \in 0 .. (ReplyLen[userText] - 1) :
                     \/ s \in DOMAIN chunkText
                     \/ \E j \in 1 .. (k - 1) : wire'[j].kind = "speak" /\ wire'[j].seq = s
    <3>1. k = Len(wire) + 1 /\ wire'[k] = f
      BY <1>1, <1>5, <2>3
    <3>2. k - 1 = Len(wire) /\ \A j \in (k + 1) .. Len(wire') : FALSE
      BY <1>5, <3>1
    <3> QED
      BY <1>1, <1>3, <1>5, <1>12, <3>1, <3>2
  <2> QED
    BY <1>6, <2>1, <2>2, <2>3 DEF RepliesInv, ReplyFrame
<1>15. Replying'
  <2>1. \A k \in 1 .. Len(wire') : wire'[k].kind \notin {"text", "interrupt"}
    BY <1>1, <1>3, <1>5, <1>13
  <2>2. ASSUME NEW s \in 0 .. (n - 1)
        PROVE  s < n + 1 <=> \/ s \in DOMAIN chunkText
                             \/ \E k \in 1 .. Len(wire') : wire'[k].kind = "speak" /\ wire'[k].seq = s
    <3>1. s < n + 1
      BY <1>1
    <3>2. \A k \in 1 .. Len(wire) : k \in 1 .. Len(wire') /\ wire'[k] = wire[k]
      BY <1>5
    <3> QED
      BY <1>12, <3>1, <3>2
  <2>3. \E k \in 1 .. Len(wire') : wire'[k].kind = "end"
    <3>1. Len(wire) + 1 \in 1 .. Len(wire')
      BY <1>5
    <3> QED
      BY <1>3, <1>5, <3>1
  <2>4. ~Unread({"turn", "cut", "complete"})'
    BY <1>1, <1>2, <1>6 DEF Replying, Unread
  <2>5. open \in Utterances \ DOMAIN cutAt
    BY <1>1 DEF Replying
  <2>6. /\ open' = open /\ cutAt' = cutAt /\ chunkText' = chunkText /\ expected' = None
        /\ userText' = open /\ ReplyLen[open] = n
    BY <1>1, <1>2, <1>6
  <2> HIDE DEF n
  <2> QED
    BY <1>4, <2>1, <2>2, <2>3, <2>4, <2>5, <2>6 DEF Replying
<1> QED
  BY <1>7, <1>8, <1>9, <1>10, <1>11, <1>14, <1>15 DEF TalkInv, ClientInv

\* Reading an event changes what the client believes only when a turn begins or
\* completes.
LEMMA ReadCases ==
    ASSUME TalkInv, Read
    PROVE  /\ read < Len(out) /\ read' = read + 1 /\ read \in Nat /\ Len(out) \in Nat
           /\ out[read + 1] \in Event /\ floor' = floor
           /\ buffered' \in Nat /\ heard' \in Nat
           /\ UNCHANGED <<vars, wire, asked, reported, cutAt>>
           /\ LET e == out[read + 1] IN
              \/ /\ e.kind = "turn" /\ e.user \notin DOMAIN cutAt
                 /\ open' = e.user /\ reply' = [turn |-> e.user, sent |-> 0]
              \/ /\ e.kind = "cut" /\ open' = open /\ reply' = NoReply
              \/ /\ e.kind = "complete" /\ e.user = open /\ open' = None /\ reply' = reply
              \/ /\ e.kind = "complete" => e.user # open
                 /\ e.kind = "turn" => e.user \in DOMAIN cutAt
                 /\ e.kind # "cut" /\ open' = open /\ reply' = reply
<1> DEFINE e == out[read + 1]
<1>1. /\ read < Len(out) /\ read' = read + 1
      /\ UNCHANGED <<vars, wire, asked, reported, cutAt>>
      /\ CASE e.kind = "turn" /\ e.user \notin DOMAIN cutAt ->
                /\ open' = e.user
                /\ reply' = [turn |-> e.user, sent |-> 0]
                /\ buffered' = 0
                /\ heard' = 0
                /\ UNCHANGED floor
           [] e.kind = "audio" ->
                /\ buffered' = IF e.gen >= floor THEN buffered + 1 ELSE buffered
                /\ UNCHANGED <<open, reply, heard, floor>>
           [] e.kind = "cut" ->
                /\ open' = IF e.gen > floor THEN None ELSE open
                /\ reply' = NoReply
                /\ buffered' = 0
                /\ heard' = 0
                /\ floor' = IF e.gen > floor THEN e.gen ELSE floor
           [] e.kind = "complete" ->
                /\ open' = IF e.user = open THEN None ELSE open
                /\ UNCHANGED <<reply, buffered, heard, floor>>
           [] OTHER -> UNCHANGED <<open, reply, buffered, heard, floor>>
  BY DEF Read
<1>2. /\ out \in Seq(Event) /\ Len(out) \in Nat /\ read \in Nat
      /\ buffered \in Nat /\ heard \in Nat
      /\ wire \in Seq(Wire) /\ gen \in Nat /\ floor = gen + Taps(wire)
  BY LenProperties DEF TalkInv, TalkTypes, TypeOK
<1>3. read + 1 \in 1 .. Len(out) /\ e \in Event
  <2>1. read + 1 \in 1 .. Len(out)
    BY <1>1, <1>2
  <2> QED
    BY <1>2, <2>1, ElementOfSeq
<1>4. ASSUME e.kind = "cut" PROVE ~(e.gen > floor)
  <2>1. e.gen <= gen /\ e.gen \in Nat
    BY <1>3, <1>4 DEF TalkInv, TurnsInv, Event
  <2>2. Taps(wire) \in Nat
    <3>1. [kind |-> "speaking", on |-> TRUE] \in Wire
      BY DEF Wire
    <3> QED
      BY <1>2, <3>1, WireAppend
  <2> QED
    BY <1>2, <2>1, <2>2
<1> HIDE DEF e
<1>5. CASE e.kind = "turn" /\ e.user \notin DOMAIN cutAt
  BY <1>1, <1>2, <1>3, <1>5 DEF e
<1>6. CASE e.kind = "audio"
  BY <1>1, <1>2, <1>3, <1>6 DEF e
<1>7. CASE e.kind = "cut"
  BY <1>1, <1>2, <1>3, <1>4, <1>7 DEF e
<1>8. CASE e.kind = "complete"
  BY <1>1, <1>2, <1>3, <1>8 DEF e
<1>9. CASE e.kind \notin {"audio", "cut", "complete"} /\ ~(e.kind = "turn" /\ e.user \notin DOMAIN cutAt)
  <2>1. UNCHANGED <<open, reply, buffered, heard, floor>>
    BY <1>1, <1>9
  <2> QED
    BY <1>1, <1>2, <1>3, <1>9, <2>1 DEF e
<1> QED
  BY <1>5, <1>6, <1>7, <1>8, <1>9

LEMMA ReadStep ==
    ASSUME TalkInv, Read
    PROVE  TalkInv'
<1> DEFINE r == read + 1
           e == out[r]
<1>1. /\ read < Len(out) /\ read' = r /\ read \in Nat /\ Len(out) \in Nat
      /\ e \in Event /\ floor' = floor /\ buffered' \in Nat /\ heard' \in Nat
      /\ UNCHANGED <<vars, wire, asked, reported, cutAt>>
  BY ReadCases
<1>2. \/ /\ e.kind = "turn" /\ e.user \notin DOMAIN cutAt
         /\ open' = e.user /\ reply' = [turn |-> e.user, sent |-> 0]
      \/ /\ e.kind = "cut" /\ open' = open /\ reply' = NoReply
      \/ /\ e.kind = "complete" /\ e.user = open /\ open' = None /\ reply' = reply
      \/ /\ e.kind = "complete" => e.user # open
         /\ e.kind = "turn" => e.user \in DOMAIN cutAt
         /\ e.kind # "cut" /\ open' = open /\ reply' = reply
  BY ReadCases
<1> HIDE DEF e
<1>3. r \in 1 .. Len(out) /\ r \in (read + 1) .. Len(out) /\ r \in Nat
  BY <1>1
<1>4. UNCHANGED <<out, userText, expected, chunkText, gen>>
  BY <1>1 DEF vars, turnVars
<1>5. TypeOK' /\ judging' = {} /\ SessionInv' /\ TurnsInv'
      /\ \A i \in 1 .. Len(tasks') : tasks'[i].gen <= gen'
  BY <1>1, SessionKept
<1>6. ASSUME e.kind = "complete"
      PROVE  \E t \in 1 .. (r - 1) : out[t].kind = "turn" /\ out[t].user = e.user
  <2>1. CompleteOK(out, r)
    BY <1>3 DEF TalkInv, Kept
  <2> QED
    BY <1>6, <2>1 DEF CompleteOK, OpenAt, e
<1>7. /\ \A i \in 1 .. Len(out) : out[i].kind = "turn" => out[i].user \in asked
      /\ \A i, j \in 1 .. Len(out) :
            (out[i].kind = "turn" /\ out[j].kind = "turn" /\ out[i].user = out[j].user) => i = j
      /\ asked \subseteq Utterances
  BY Basics DEF TalkInv, TurnsInv, TalkTypes
<1>8. open' \in asked' \cup {None} /\ (reply' = NoReply \/ reply' \in [turn : asked', sent : 0 .. MaxSeq + 1])
  <2>1. open \in asked \cup {None} /\ (reply = NoReply \/ reply \in [turn : asked, sent : 0 .. MaxSeq + 1])
    BY DEF TalkInv, TalkTypes
  <2>2. e.kind = "turn" => e.user \in asked
    BY <1>3, <1>7 DEF e
  <2>3. 0 \in 0 .. MaxSeq + 1
    BY Basics
  <2> QED
    BY <1>1, <1>2, <2>1, <2>2, <2>3
<1>9. TalkTypes'
  <2>1. read' \in 0 .. Len(out')
    BY <1>1, <1>4
  <2> QED
    BY <1>1, <1>4, <1>5, <1>8, <2>1 DEF TalkInv, TalkTypes
<1>10. Kept(out, cutAt)'
  BY <1>1, <1>4 DEF TalkInv
<1>11. RepliesInv'
  BY <1>1, <1>4, SMTT(30) DEF TalkInv, RepliesInv, ReplyFrame
<1>12. TextsInv'
  <2>1. wire' = wire /\ asked' = asked /\ out' = out /\ userText' = userText /\ TextsInv
    BY <1>1, <1>4 DEF TalkInv
  <2> QED
    BY <2>1, SMTT(60) DEF TextsInv, TextFrame
<1>13. TapsInv'
  BY <1>1, <1>4 DEF TalkInv, TapsInv
<1>14. \A i : UnreadCut(i) => UnreadCut(i)'
  BY <1>1, <1>4 DEF UnreadCut
<1>15. \A K : Unread(K)' => Unread(K)
  BY <1>1, <1>4 DEF Unread
<1>16. \A K : e.kind \in K => Unread(K)
  BY <1>3 DEF Unread, e
<1>17. ASSUME Away PROVE ClientInv'
  <2>1. ~(e.kind = "turn" /\ e.user \notin DOMAIN cutAt)
    <3>1. r \in (read + 1) .. (Len(out) + 1 - 1)
      BY <1>1
    <3> QED
      BY <1>17, <3>1 DEF Away, UnreadCut, e
  <2>2. open' = None /\ reply' = NoReply
    BY <1>2, <1>17, <2>1 DEF Away
  <2>3. UnreadCut(Len(out) + 1)'
    BY <1>4, <1>14, <1>17 DEF Away, UnreadCut
  <2>4. Away'
    BY <1>1, <1>4, <1>17, <2>2, <2>3 DEF Away
  <2> QED
    BY <2>4 DEF ClientInv
<1>18. ASSUME Typing PROVE ClientInv'
  <2>1. ~(e.kind = "turn" /\ e.user \notin DOMAIN cutAt)
    <3>1. r \in (read + 1) .. (Len(out) + 1 - 1)
      BY <1>1
    <3> QED
      BY <1>18, <3>1 DEF Typing, UnreadCut, e
  <2>2. ~(e.kind = "complete" /\ e.user = open)
    <3> SUFFICES ASSUME e.kind = "complete", e.user = open PROVE FALSE
      OBVIOUS
    <3>1. PICK t \in 1 .. (r - 1) : out[t].kind = "turn" /\ out[t].user = open
      BY <1>6
    <3>2. t \in 1 .. Len(out)
      BY <1>1
    <3> QED
      BY <1>18, <3>1, <3>2 DEF Typing, TalkInv, TextsInv, TextFrame
  <2>3. open' = open /\ reply' = NoReply
    BY <1>2, <1>18, <2>1, <2>2 DEF Typing
  <2>4. UnreadCut(Len(out) + 1)'
    BY <1>4, <1>14, <1>18 DEF Typing, UnreadCut
  <2>5. Typing'
    BY <1>1, <1>4, <1>18, <2>3, <2>4 DEF Typing
  <2> QED
    BY <2>5 DEF ClientInv
<1>19. ASSUME Begun PROVE ClientInv'
  <2>0. /\ open \in Utterances \ DOMAIN cutAt /\ open # None /\ reply = NoReply /\ Still
        /\ out[Len(out)].kind = "turn" /\ out[Len(out)].user = open
        /\ userText = open /\ expected = None /\ DOMAIN chunkText = {}
    <3>1. Busy(Len(out), open, 0)
      BY <1>19 DEF Begun
    <3>2. DOMAIN chunkText = 0 .. (0 - 1)
      BY <3>1 DEF Busy
    <3>3. DOMAIN chunkText = {}
      BY <3>2
    <3> QED
      BY <1>19, <3>1, <3>3, Basics DEF Begun, Busy, OpenAt
  <2>1. CASE r = Len(out)
    <3>1. open' = open /\ reply' = [turn |-> open, sent |-> 0]
      BY <1>2, <2>0, <2>1 DEF e
    <3>2. ~Unread({"turn", "cut", "complete"})'
      BY <1>1, <1>4, <2>1 DEF Unread
    <3>3. \A k \in 1 .. Len(wire) : wire[k].kind = "speaking"
      BY <2>0 DEF Still
    <3>4. ReplyLen[open] \in Nat /\ 0 # ReplyLen[open] + 1 /\ \A s \in 0 .. (ReplyLen[open] - 1) : ~(s < 0)
      BY <2>0, Basics
    <3>5. reply'.turn = open /\ reply'.sent = 0
      BY <3>1
    <3>6. /\ wire' = wire /\ cutAt' = cutAt /\ userText' = open /\ expected' = None
          /\ DOMAIN chunkText' = {}
      BY <1>1, <1>4, <2>0
    <3>7. Replying'
      BY <2>0, <3>1, <3>2, <3>3, <3>4, <3>5, <3>6 DEF Replying
    <3> QED
      BY <3>7 DEF ClientInv
  <2>2. CASE r # Len(out)
    <3>1. r \in (read + 1) .. (Len(out) - 1) /\ r < Len(out)
      BY <1>1, <2>2
    <3>2. ~(e.kind = "turn" /\ e.user \notin DOMAIN cutAt)
      BY <1>19, <3>1 DEF Begun, UnreadCut, e
    <3>3. ~(e.kind = "complete" /\ e.user = open)
      <4> SUFFICES ASSUME e.kind = "complete", e.user = open PROVE FALSE
        OBVIOUS
      <4>1. PICK t \in 1 .. (r - 1) : out[t].kind = "turn" /\ out[t].user = open
        BY <1>6
      <4>2. t \in 1 .. Len(out) /\ t # Len(out) /\ Len(out) \in 1 .. Len(out)
        BY <1>1, <3>1
      <4> QED
        BY <1>7, <2>0, <4>1, <4>2
    <3>4. open' = open /\ reply' = NoReply
      BY <1>2, <2>0, <3>2, <3>3
    <3>5. Busy(Len(out), open, 0)' /\ UnreadCut(Len(out))'
      <4>1. UnreadCut(Len(out))'
        BY <1>4, <1>14, <1>19 DEF Begun, UnreadCut
      <4>2. Busy(Len(out), open, 0)'
        BY <1>1, <1>19, <3>4 DEF Begun, Busy, vars, turnVars
      <4> QED
        BY <4>1, <4>2
    <3>6. Begun'
      BY <1>1, <1>4, <2>0, <3>1, <3>4, <3>5 DEF Begun, Still
    <3> QED
      BY <3>6 DEF ClientInv
  <2> QED
    BY <2>1, <2>2
<1>20. ASSUME Replying PROVE ClientInv'
  <2>1. e.kind \notin {"turn", "cut", "complete"}
    BY <1>16, <1>20 DEF Replying
  <2>2. open' = open /\ reply' = reply
    BY <1>2, <2>1
  <2>3. ~Unread({"turn", "cut", "complete"})'
    BY <1>15, <1>20 DEF Replying, Unread
  <2>4. Replying'
    BY <1>1, <1>4, <1>20, <2>2, <2>3 DEF Replying
  <2> QED
    BY <2>4 DEF ClientInv
<1>21. ASSUME Completed PROVE ClientInv'
  <2>1. UNCHANGED wire /\ (Still => Still') /\ (AtRest => AtRest')
    BY <1>1 DEF Still, AtRest, vars, turnVars
  <2>2. CASE r = Len(out)
    <3>1. open' = None /\ reply' = reply
      BY <1>2, <1>21, <2>2 DEF Completed, e
    <3>2. reply'.turn \in Utterances \ DOMAIN cutAt' /\ reply'.sent = ReplyLen[reply'.turn] + 1
      BY <1>1, <1>21, <3>1 DEF Completed
    <3>3. Resting'
      BY <1>1, <1>4, <1>21, <2>1, <2>2, <3>1, <3>2 DEF Completed, Resting
    <3> QED
      BY <3>3 DEF ClientInv
  <2>3. CASE r # Len(out)
    <3>1. r \in (read + 1) .. (Len(out) - 1) /\ r < Len(out)
      BY <1>1, <2>3
    <3>2. e.kind \notin {"turn", "cut", "complete"}
      BY <1>21, <3>1 DEF Completed, e
    <3>3. open' = open /\ reply' = reply
      BY <1>2, <3>2
    <3>4. \A j \in (read' + 1) .. (Len(out) - 1) : out[j].kind \notin {"turn", "cut", "complete"}
      BY <1>1, <1>21 DEF Completed
    <3>5. Completed'
      BY <1>1, <1>4, <1>21, <2>1, <3>1, <3>3, <3>4 DEF Completed
    <3> QED
      BY <3>5 DEF ClientInv
  <2> QED
    BY <2>2, <2>3
<1>22. ~Resting
  BY <1>1 DEF Resting
<1>23. ClientInv'
  BY <1>17, <1>18, <1>19, <1>20, <1>21, <1>22 DEF TalkInv, ClientInv
<1> QED
  BY <1>5, <1>9, <1>10, <1>11, <1>12, <1>13, <1>23 DEF TalkInv

-----------------------------------------------------------------------------
(* The session reads a frame.                                              *)

\* The rest of the wire is one place further on.
LEMMA WireRead ==
    ASSUME TalkInv, wire # <<>>, wire' = Tail(wire)
    PROVE  /\ wire' \in Seq(Wire) /\ wire[1] \in Wire /\ Head(wire) = wire[1]
           /\ Len(wire) \in Nat \ {0} /\ 1 \in 1 .. Len(wire) /\ Len(wire') = Len(wire) - 1
           /\ \A k \in 1 .. Len(wire') : k + 1 \in 2 .. Len(wire) /\ wire'[k] = wire[k + 1]
           /\ \A k \in 2 .. Len(wire) : k - 1 \in 1 .. Len(wire') /\ wire'[k - 1] = wire[k]
<1>1. /\ wire' \in Seq(Wire) /\ wire[1] \in Wire /\ Head(wire) = wire[1]
      /\ Len(wire) \in Nat \ {0} /\ Len(wire') = Len(wire) - 1
      /\ \A k \in 1 .. (Len(wire) - 1) : wire'[k] = wire[k + 1]
  BY WireTail DEF TalkInv, TalkTypes
<1>2. ASSUME NEW k \in 2 .. Len(wire) PROVE k - 1 \in 1 .. Len(wire') /\ wire'[k - 1] = wire[k]
  <2>1. k - 1 \in 1 .. (Len(wire) - 1) /\ (k - 1) + 1 = k
    BY <1>1
  <2>2. wire'[k - 1] = wire[(k - 1) + 1]
    BY <1>1, <2>1
  <2> QED
    BY <1>1, <2>1, <2>2
<1> QED
  BY <1>1, <1>2

LEMMA TextsTail ==
    ASSUME TalkInv, wire # <<>>, wire' = Tail(wire), asked' = asked,
           \A i \in 1 .. Len(out') : out'[i].kind = "turn" =>
              \/ \E k \in 1 .. Len(out) : out[k].kind = "turn" /\ out[k].user = out'[i].user
              \/ wire[1].kind = "text" /\ out'[i].user = wire[1].user,
           \/ userText' = None
           \/ wire[1].kind = "text"
           \/ wire[1].kind # "interrupt" /\ userText' = userText
    PROVE  TextsInv'
<1>1. /\ Len(wire) \in Nat \ {0} /\ 1 \in 1 .. Len(wire) /\ Len(wire') = Len(wire) - 1
      /\ \A k \in 1 .. Len(wire') : k + 1 \in 2 .. Len(wire) /\ wire'[k] = wire[k + 1]
      /\ \A k \in 2 .. Len(wire) : k - 1 \in 1 .. Len(wire') /\ wire'[k - 1] = wire[k]
  BY WireRead
<1>2. ASSUME NEW k \in 1 .. Len(wire') PROVE TextFrame(k)'
  <2> SUFFICES ASSUME wire'[k].kind = "text"
               PROVE  /\ wire'[k].user \in asked'
                      /\ \A i \in 1 .. Len(out') : out'[i].kind = "turn" => out'[i].user # wire'[k].user
                      /\ \A j \in 1 .. (k - 1) : wire'[j].kind = "text" =>
                            /\ wire'[j].user # wire'[k].user
                            /\ \E l \in (j + 1) .. (k - 1) : wire'[l].kind = "interrupt"
                      /\ (\A j \in 1 .. (k - 1) : wire'[j].kind # "interrupt") => userText' = None
    BY DEF TextFrame
  <2> DEFINE m == k + 1
  <2>1. m \in 2 .. Len(wire) /\ m \in 1 .. Len(wire) /\ wire'[k] = wire[m] /\ m - 1 = k
        /\ 1 \in 1 .. (m - 1)
    BY <1>1
  <2> HIDE DEF m
  <2>2. /\ wire[m].user \in asked
        /\ \A i \in 1 .. Len(out) : out[i].kind = "turn" => out[i].user # wire[m].user
        /\ \A j \in 1 .. (m - 1) : wire[j].kind = "text" =>
              /\ wire[j].user # wire[m].user
              /\ \E l \in (j + 1) .. (m - 1) : wire[l].kind = "interrupt"
        /\ (\A j \in 1 .. (m - 1) : wire[j].kind # "interrupt") => userText = None
    BY <2>1 DEF TalkInv, TextsInv, TextFrame
  <2>3. \A i \in 1 .. Len(out') : out'[i].kind = "turn" => out'[i].user # wire'[k].user
    BY <2>1, <2>2
  <2>4. ASSUME NEW j \in 1 .. (k - 1), wire'[j].kind = "text"
        PROVE  /\ wire'[j].user # wire'[k].user
               /\ \E l \in (j + 1) .. (k - 1) : wire'[l].kind = "interrupt"
    <3>1. j \in 1 .. Len(wire') /\ j + 1 \in 1 .. (m - 1) /\ wire'[j] = wire[j + 1]
      BY <1>1, <2>1
    <3>2. PICK l \in ((j + 1) + 1) .. (m - 1) : wire[l].kind = "interrupt"
      BY <2>2, <2>4, <3>1
    <3>3. l - 1 \in (j + 1) .. (k - 1) /\ l \in 2 .. Len(wire)
      BY <1>1, <2>1, <3>1
    <3>4. wire'[l - 1].kind = "interrupt"
      BY <1>1, <3>2, <3>3
    <3>5. wire[j + 1].user # wire[m].user
      BY <2>2, <2>4, <3>1
    <3> QED
      BY <2>1, <3>1, <3>3, <3>4, <3>5
  <2>5. ASSUME \A j \in 1 .. (k - 1) : wire'[j].kind # "interrupt" PROVE userText' = None
    <3>1. ASSUME NEW l \in 2 .. (m - 1) PROVE wire[l].kind # "interrupt"
      <4>1. l - 1 \in 1 .. (k - 1) /\ l \in 2 .. Len(wire)
        BY <1>1, <2>1
      <4> QED
        BY <1>1, <2>5, <4>1
    <3>2. CASE wire[1].kind = "text"
      <4>1. \E l \in (1 + 1) .. (m - 1) : wire[l].kind = "interrupt"
        BY <2>1, <2>2, <3>2
      <4> QED
        BY <3>1, <4>1
    <3>3. CASE wire[1].kind # "interrupt" /\ userText' = userText
      <4>1. \A j \in 1 .. (m - 1) : j = 1 \/ j \in 2 .. (m - 1)
        BY <2>1
      <4> QED
        BY <2>2, <3>1, <3>3, <4>1
    <3> QED
      BY <3>2, <3>3
  <2> QED
    BY <2>1, <2>2, <2>3, <2>4, <2>5
<1> QED
  BY <1>2 DEF TextsInv

LEMMA TapsTail ==
    ASSUME TalkInv, wire # <<>>, wire' = Tail(wire), cutAt' = cutAt,
           \/ userText' = None
           \/ wire[1].kind = "text" /\ userText' = wire[1].user
           \/ wire[1].kind \notin {"text", "interrupt"} /\ userText' = userText
    PROVE  TapsInv'
<1>1. /\ Len(wire) \in Nat \ {0} /\ 1 \in 1 .. Len(wire) /\ Len(wire') = Len(wire) - 1
      /\ \A k \in 1 .. Len(wire') : k + 1 \in 2 .. Len(wire) /\ wire'[k] = wire[k + 1]
      /\ \A k \in 2 .. Len(wire) : k - 1 \in 1 .. Len(wire') /\ wire'[k - 1] = wire[k]
  BY WireRead
<1>2. ASSUME NEW k \in 1 .. Len(wire'), wire'[k].kind = "interrupt"
      PROVE  /\ \A j \in 1 .. (k - 1) : wire'[j].kind = "text" =>
                   /\ wire'[j].user \in DOMAIN cutAt
                   /\ (\A l \in (j + 1) .. (k - 1) : wire'[l].kind \notin {"text", "interrupt"})
                         => cutAt[wire'[j].user] = wire'[k].heard
             /\ userText' # None =>
                   /\ userText' \in DOMAIN cutAt
                   /\ (\A l \in 1 .. (k - 1) : wire'[l].kind \notin {"text", "interrupt"})
                         => cutAt[userText'] = wire'[k].heard
  <2> DEFINE m == k + 1
             Clear(j) == \A l \in (j + 1) .. (m - 1) : wire[l].kind \notin {"text", "interrupt"}
  <2>1. m \in 2 .. Len(wire) /\ m \in 1 .. Len(wire) /\ wire'[k] = wire[m] /\ m - 1 = k
        /\ 1 \in 1 .. (m - 1)
    BY <1>1
  <2> HIDE DEF m
  <2>2. /\ \A j \in 1 .. (m - 1) : wire[j].kind = "text" =>
              /\ wire[j].user \in DOMAIN cutAt
              /\ Clear(j) => cutAt[wire[j].user] = wire[m].heard
        /\ userText # None =>
              /\ userText \in DOMAIN cutAt
              /\ (\A l \in 1 .. (m - 1) : wire[l].kind \notin {"text", "interrupt"})
                    => cutAt[userText] = wire[m].heard
    BY <1>2, <2>1 DEF TalkInv, TapsInv
  <2>3. ASSUME NEW j \in 0 .. (k - 1),
               \A l \in (j + 1) .. (k - 1) : wire'[l].kind \notin {"text", "interrupt"}
        PROVE  Clear(j + 1)
    <3> SUFFICES ASSUME NEW l \in ((j + 1) + 1) .. (m - 1)
                 PROVE  wire[l].kind \notin {"text", "interrupt"}
      OBVIOUS
    <3>1. l - 1 \in (j + 1) .. (k - 1) /\ l \in 2 .. Len(wire)
      BY <1>1, <2>1
    <3> QED
      BY <1>1, <2>3, <3>1
  <2> HIDE DEF Clear
  <2>4. ASSUME NEW j \in 1 .. (k - 1), wire'[j].kind = "text"
        PROVE  /\ wire'[j].user \in DOMAIN cutAt
               /\ (\A l \in (j + 1) .. (k - 1) : wire'[l].kind \notin {"text", "interrupt"})
                     => cutAt[wire'[j].user] = wire'[k].heard
    <3>1. j \in 1 .. Len(wire') /\ j + 1 \in 1 .. (m - 1) /\ wire'[j] = wire[j + 1] /\ j \in 0 .. (k - 1)
      BY <1>1, <2>1
    <3> QED
      BY <2>1, <2>2, <2>3, <2>4, <3>1
  <2>5. ASSUME userText' # None
        PROVE  /\ userText' \in DOMAIN cutAt
               /\ (\A l \in 1 .. (k - 1) : wire'[l].kind \notin {"text", "interrupt"})
                     => cutAt[userText'] = wire'[k].heard
    <3>1. (\A l \in 1 .. (k - 1) : wire'[l].kind \notin {"text", "interrupt"}) => Clear(1)
      <4>1. 0 \in 0 .. (k - 1) /\ 0 + 1 = 1
        BY <1>1
      <4> QED
        BY <2>3, <4>1
    <3>2. CASE wire[1].kind = "text" /\ userText' = wire[1].user
      BY <2>1, <2>2, <3>1, <3>2
    <3>3. CASE wire[1].kind \notin {"text", "interrupt"} /\ userText' = userText
      <4>1. Clear(1) => \A l \in 1 .. (m - 1) : wire[l].kind \notin {"text", "interrupt"}
        <5>1. \A l \in 1 .. (m - 1) : l = 1 \/ l \in (1 + 1) .. (m - 1)
          BY <2>1
        <5> QED
          BY <3>3, <5>1 DEF Clear
      <4> QED
        BY <2>1, <2>2, <2>5, <3>1, <3>3, <4>1
    <3> QED
      BY <2>5, <3>2, <3>3
  <2> QED
    BY <2>4, <2>5
<1> QED
  BY <1>2 DEF TapsInv

\* No frame of a reply is left behind a text, a tap or the reply's end.
LEMMA RepliesGone ==
    ASSUME TalkInv, wire # <<>>, wire' = Tail(wire), wire[1].kind \in {"text", "interrupt", "end"}
    PROVE  RepliesInv' /\ \A k \in 1 .. Len(wire') : wire'[k].kind \notin {"speak", "end"}
<1>1. /\ Len(wire) \in Nat \ {0} /\ 1 \in 1 .. Len(wire)
      /\ \A k \in 1 .. Len(wire') : k + 1 \in 2 .. Len(wire) /\ wire'[k] = wire[k + 1]
  BY WireRead
<1>2. ASSUME NEW k \in 1 .. Len(wire') PROVE wire'[k].kind \notin {"speak", "end"}
  <2> DEFINE m == k + 1
  <2>1. m \in 1 .. Len(wire) /\ wire'[k] = wire[m] /\ 1 \in 1 .. (m - 1)
        /\ m \in (1 + 1) .. Len(wire)
    BY <1>1
  <2> HIDE DEF m
  <2>2. CASE wire[1].kind = "end"
    BY <1>1, <2>1, <2>2 DEF TalkInv, RepliesInv, ReplyFrame
  <2>3. CASE wire[1].kind \in {"text", "interrupt"}
    BY <2>1, <2>3 DEF TalkInv, RepliesInv, ReplyFrame
  <2> QED
    BY <2>2, <2>3
<1> QED
  BY <1>2 DEF RepliesInv, ReplyFrame

-----------------------------------------------------------------------------
(* What the session puts out does to a client who is away or typing.       *)

LEMMA UnreadNext ==
    ASSUME \A j \in (read' + 1) .. (Len(out') + 1 - 1) :
              out'[j].kind = "turn" => out'[j].user \in DOMAIN cutAt'
    PROVE  UnreadCut(Len(out) + 1)'
  BY DEF UnreadCut

LEMMA UnreadMore ==
    ASSUME TalkInv, UnreadCut(Len(out) + 1), UNCHANGED <<read, cutAt>>,
           NEW e \in Seq(Event), out' = out \o e,
           \A k \in 1 .. Len(e) : e[k].kind = "turn" => e[k].user \in DOMAIN cutAt
    PROVE  UnreadCut(Len(out) + 1)'
<1>1. out \in Seq(Event) /\ read \in Nat
  BY LenProperties DEF TalkInv, TalkTypes, TypeOK
<1>2. /\ Len(out) \in Nat /\ Len(e) \in Nat /\ Len(out') = Len(out) + Len(e)
      /\ \A i \in 1 .. Len(out) : out'[i] = out[i]
      /\ \A i \in (Len(out) + 1) .. (Len(out) + Len(e)) : out'[i] = e[i - Len(out)]
  BY <1>1, ConcatFacts
<1>3. ASSUME NEW j \in (read + 1) .. Len(out'), out'[j].kind = "turn"
      PROVE  out'[j].user \in DOMAIN cutAt
  <2>1. CASE j <= Len(out)
    <3>1. j \in 1 .. Len(out) /\ j \in (read + 1) .. (Len(out) + 1 - 1)
      BY <1>1, <1>2, <2>1
    <3> QED
      BY <1>2, <1>3, <3>1 DEF UnreadCut
  <2>2. CASE j > Len(out)
    <3>1. j \in (Len(out) + 1) .. (Len(out) + Len(e)) /\ j - Len(out) \in 1 .. Len(e)
      BY <1>1, <1>2, <2>2
    <3> QED
      BY <1>2, <1>3, <3>1
  <2> QED
    BY <1>1, <1>2, <2>1, <2>2
<1>4. \A j \in (read + 1) .. (Len(out') + 1 - 1) : j \in (read + 1) .. Len(out')
  BY <1>1, <1>2
<1>5. read' = read /\ cutAt' = cutAt
  OBVIOUS
<1>6. \A j \in (read' + 1) .. (Len(out') + 1 - 1) :
          out'[j].kind = "turn" => out'[j].user \in DOMAIN cutAt'
  BY <1>3, <1>4, <1>5
<1> QED
  BY <1>6, UnreadNext

\* The last report, cut or end of the turn does not begin one.
LEMMA TurnsMore ==
    ASSUME TalkInv, asked' = asked, gen' \in Nat, gen <= gen',
           NEW e \in Seq(Event), out' = out \o e,
           \A k \in 1 .. Len(e) : e[k].kind # "turn" /\ (e[k].kind = "cut" => e[k].gen <= gen')
    PROVE  /\ TurnsInv'
           /\ \A i \in 1 .. Len(out') : out'[i].kind = "turn" =>
                 i \in 1 .. Len(out) /\ out[i] = out'[i]
<1>1. out \in Seq(Event) /\ gen \in Nat
  BY DEF TalkInv, TalkTypes, TypeOK
<1>2. /\ Len(out) \in Nat /\ Len(e) \in Nat /\ Len(out') = Len(out) + Len(e)
      /\ \A i \in 1 .. Len(out) : out'[i] = out[i]
      /\ \A i \in (Len(out) + 1) .. (Len(out) + Len(e)) : out'[i] = e[i - Len(out)]
  BY <1>1, ConcatFacts
<1>3. ASSUME NEW i \in 1 .. Len(out')
      PROVE  \/ i \in 1 .. Len(out) /\ out'[i] = out[i]
             \/ out'[i].kind # "turn" /\ (out'[i].kind = "cut" => out'[i].gen <= gen')
  <2>1. CASE i > Len(out)
    <3>1. i \in (Len(out) + 1) .. (Len(out) + Len(e)) /\ i - Len(out) \in 1 .. Len(e)
      BY <1>2, <2>1
    <3> QED
      BY <1>2, <3>1
  <2> QED
    BY <1>2, <2>1
<1>4. ASSUME NEW i \in 1 .. Len(out), out[i].kind = "cut" PROVE out[i].gen <= gen'
  <2>1. out[i] \in Event
    BY <1>1, ElementOfSeq
  <2>2. out[i].gen \in Nat /\ out[i].gen <= gen
    BY <1>4, <2>1 DEF Event, TalkInv, TurnsInv
  <2> QED
    BY <1>1, <2>2
<1>5. \A i \in 1 .. Len(out') : out'[i].kind = "cut" => out'[i].gen <= gen'
  BY <1>3, <1>4
<1>6. \A i \in 1 .. Len(out') : out'[i].kind = "turn" => i \in 1 .. Len(out) /\ out[i] = out'[i]
  BY <1>3
<1>7. /\ \A i \in 1 .. Len(out) : out[i].kind = "turn" => out[i].user \in asked
      /\ \A i, j \in 1 .. Len(out) :
            (out[i].kind = "turn" /\ out[j].kind = "turn" /\ out[i].user = out[j].user) => i = j
  BY DEF TalkInv, TurnsInv
<1>8. \A i, j \in 1 .. Len(out') :
          (out'[i].kind = "turn" /\ out'[j].kind = "turn" /\ out'[i].user = out'[j].user) => i = j
  BY <1>6, <1>7
<1>9. \A i \in 1 .. Len(out') : out'[i].kind = "turn" => out'[i].user \in asked'
  BY <1>6, <1>7
<1> QED
  BY <1>5, <1>6, <1>8, <1>9 DEF TurnsInv

LEMMA AwayTail ==
    ASSUME TalkInv, Away, wire # <<>>, wire' = Tail(wire), UNCHANGED <<open, reply>>,
           UnreadCut(Len(out) + 1)',
           \/ userText' = None
           \/ wire[1].kind = "text"
           \/ wire[1].kind # "interrupt" /\ userText' = userText
    PROVE  Away'
<1>1. /\ Len(wire) \in Nat \ {0} /\ 1 \in 1 .. Len(wire) /\ Len(wire') = Len(wire) - 1
      /\ \A k \in 1 .. Len(wire') : k + 1 \in 2 .. Len(wire) /\ wire'[k] = wire[k + 1]
      /\ \A k \in 2 .. Len(wire) : k - 1 \in 1 .. Len(wire') /\ wire'[k - 1] = wire[k]
  BY WireRead
<1>2. ASSUME NEW k \in 1 .. Len(wire'), wire'[k].kind = "text"
      PROVE  \E l \in (k + 1) .. Len(wire') : wire'[l].kind = "interrupt"
  <2>1. k + 1 \in 1 .. Len(wire) /\ wire[k + 1].kind = "text"
    BY <1>1, <1>2
  <2>2. PICK l \in ((k + 1) + 1) .. Len(wire) : wire[l].kind = "interrupt"
    BY <2>1 DEF Away
  <2>3. l \in 2 .. Len(wire) /\ l - 1 \in (k + 1) .. Len(wire')
    BY <1>1
  <2> QED
    BY <1>1, <2>2, <2>3
<1>3. ASSUME userText' # None PROVE \E l \in 1 .. Len(wire') : wire'[l].kind = "interrupt"
  <2>1. \E l \in 2 .. Len(wire) : wire[l].kind = "interrupt"
    <3>1. CASE wire[1].kind = "text"
      <4>1. \E l \in (1 + 1) .. Len(wire) : wire[l].kind = "interrupt"
        BY <1>1, <3>1 DEF Away
      <4> QED
        BY <4>1
    <3>2. CASE wire[1].kind # "interrupt" /\ userText' = userText
      <4>1. PICK l \in 1 .. Len(wire) : wire[l].kind = "interrupt"
        BY <1>3, <3>2 DEF Away
      <4>2. l \in 2 .. Len(wire)
        BY <1>1, <3>2, <4>1
      <4> QED
        BY <4>1, <4>2
    <3> QED
      BY <1>3, <3>1, <3>2
  <2> QED
    BY <1>1, <2>1
<1>4. open' = None /\ reply' = NoReply
  BY DEF Away
<1> QED
  BY <1>2, <1>3, <1>4 DEF Away

LEMMA TypingTail ==
    ASSUME TalkInv, Typing, wire # <<>>, wire' = Tail(wire), UNCHANGED <<open, reply, cutAt>>,
           UnreadCut(Len(out) + 1)', wire[1].kind = "text" => wire[1].user # open
    PROVE  Typing'
<1>1. /\ Len(wire) \in Nat \ {0} /\ Len(wire') = Len(wire) - 1
      /\ \A k \in 1 .. Len(wire') : k + 1 \in 2 .. Len(wire) /\ wire'[k] = wire[k + 1]
      /\ \A k \in 2 .. Len(wire) : k - 1 \in 1 .. Len(wire') /\ wire'[k - 1] = wire[k]
  BY WireRead
<1>2. PICK k \in 1 .. Len(wire) :
        /\ wire[k].kind = "text" /\ wire[k].user = open
        /\ \A l \in (k + 1) .. Len(wire) : wire[l].kind = "speaking"
  BY DEF Typing
<1>3. k \in 2 .. Len(wire) /\ k - 1 \in 1 .. Len(wire') /\ wire'[k - 1] = wire[k]
  BY <1>1, <1>2
<1>4. ASSUME NEW l \in ((k - 1) + 1) .. Len(wire') PROVE wire'[l].kind = "speaking"
  <2>1. l \in 1 .. Len(wire') /\ l + 1 \in (k + 1) .. Len(wire)
    BY <1>1, <1>3
  <2> QED
    BY <1>1, <1>2, <2>1
<1> QED
  BY <1>2, <1>3, <1>4 DEF Typing

\* The client's own types when a frame has been read.
LEMMA TypesTail ==
    ASSUME TalkInv, wire # <<>>, wire' = Tail(wire), UNCHANGED <<read, clientVars>>,
           TypeOK', judging' = {}, \A i \in 1 .. Len(tasks') : tasks'[i].gen <= gen',
           Len(out) <= Len(out'),
           gen' = IF wire[1].kind = "interrupt" THEN gen + 1 ELSE gen
    PROVE  TalkTypes'
<1>1. wire \in Seq(Wire) /\ floor = gen + Taps(wire) /\ gen \in Nat /\ read \in 0 .. Len(out)
      /\ out \in Seq(Event) /\ out' \in Seq(Event)
  BY DEF TalkInv, TalkTypes, TypeOK
<1>2. /\ wire' \in Seq(Wire) /\ Taps(wire') \in Nat
      /\ Taps(wire) = Taps(wire') + IF wire[1].kind = "interrupt" THEN 1 ELSE 0
  BY <1>1, WireTail
<1>3. floor' = gen' + Taps(wire')
  <2>1. CASE wire[1].kind = "interrupt"
    BY <1>1, <1>2, <2>1 DEF clientVars
  <2>2. CASE wire[1].kind # "interrupt"
    BY <1>1, <1>2, <2>2 DEF clientVars
  <2> QED
    BY <2>1, <2>2
<1>4. read' \in 0 .. Len(out')
  <2>1. Len(out) \in Nat /\ Len(out') \in Nat
    BY <1>1, LenProperties
  <2> QED
    BY <1>1, <2>1
<1> QED
  BY <1>2, <1>3, <1>4 DEF TalkInv, TalkTypes, clientVars

\* A chunk of the reply goes from the wire to the session's book of the turn.
Moved(s) == wire[1].kind = "speak" /\ wire[1].seq = s

LEMMA WireSeq ==
    ASSUME TalkInv, NEW k \in 1 .. Len(wire), wire[k].kind = "speak"
    PROVE  wire[k].seq \in Nat /\ wire[k].chunk \in Chunks /\ wire[k].seq \in Seqs
<1>1. wire[k] \in Wire
  BY ElementOfSeq DEF TalkInv, TalkTypes
<1> QED
  BY <1>1, Basics DEF Wire, Seqs

LEMMA RepliesTail ==
    ASSUME TalkInv, wire # <<>>, wire' = Tail(wire), wire[1].kind \in {"speaking", "speak"},
           UNCHANGED <<userText, expected>>,
           \A s : s \in DOMAIN chunkText' <=> s \in DOMAIN chunkText \/ Moved(s)
    PROVE  RepliesInv'
<1>1. /\ Len(wire) \in Nat \ {0} /\ 1 \in 1 .. Len(wire) /\ Len(wire') = Len(wire) - 1
      /\ \A k \in 1 .. Len(wire') : k + 1 \in 2 .. Len(wire) /\ wire'[k] = wire[k + 1]
      /\ \A k \in 2 .. Len(wire) : k - 1 \in 1 .. Len(wire') /\ wire'[k - 1] = wire[k]
  BY WireRead
<1>2. userText' = userText /\ expected' = expected
  OBVIOUS
<1>3. ASSUME NEW k \in 1 .. Len(wire')
      PROVE  ReplyFrame(k)'
  <2> DEFINE m == k + 1
  <2>1. m \in 2 .. Len(wire) /\ m \in 1 .. Len(wire) /\ wire'[k] = wire[m] /\ m - 1 = k
        /\ 1 \in 1 .. (m - 1)
    BY <1>1
  <2> HIDE DEF m
  <2>2. ASSUME NEW j \in 1 .. (k - 1) PROVE j + 1 \in 1 .. (m - 1) /\ wire'[j] = wire[j + 1]
    <3>1. j \in 1 .. Len(wire') /\ j + 1 \in 1 .. (m - 1)
      BY <1>1, <2>1
    <3> QED
      BY <1>1, <3>1
  <2>3. ASSUME NEW j \in (k + 1) .. Len(wire')
        PROVE  j + 1 \in (m + 1) .. Len(wire) /\ wire'[j] = wire[j + 1]
    <3>1. j \in 1 .. Len(wire') /\ j + 1 \in (m + 1) .. Len(wire)
      BY <1>1, <2>1
    <3> QED
      BY <1>1, <3>1
  <2>4. ASSUME NEW s, NEW j \in 1 .. (m - 1), wire[j].kind = "speak", wire[j].seq = s
        PROVE  \/ s \in DOMAIN chunkText'
               \/ \E i \in 1 .. (k - 1) : wire'[i].kind = "speak" /\ wire'[i].seq = s
    <3>1. CASE j = 1
      BY <2>4, <3>1 DEF Moved
    <3>2. CASE j # 1
      <4>1. j \in 2 .. Len(wire) /\ j - 1 \in 1 .. (k - 1)
        BY <1>1, <2>1, <3>2
      <4> QED
        BY <1>1, <2>4, <4>1
    <3> QED
      BY <3>1, <3>2
  <2>5. ASSUME NEW s,
               \/ s \in DOMAIN chunkText
               \/ \E j \in 1 .. (m - 1) : wire[j].kind = "speak" /\ wire[j].seq = s
        PROVE  \/ s \in DOMAIN chunkText'
               \/ \E i \in 1 .. (k - 1) : wire'[i].kind = "speak" /\ wire'[i].seq = s
    <3>1. CASE s \in DOMAIN chunkText
      BY <3>1
    <3>2. ASSUME NEW j \in 1 .. (m - 1), wire[j].kind = "speak", wire[j].seq = s
          PROVE  \/ s \in DOMAIN chunkText'
                 \/ \E i \in 1 .. (k - 1) : wire'[i].kind = "speak" /\ wire'[i].seq = s
      BY <2>4, <3>2
    <3> QED
      BY <2>5, <3>1, <3>2
  <2>6. ASSUME wire[m].kind \in {"speak", "end"}
        PROVE  /\ userText # None /\ expected = None
               /\ \A j \in 1 .. (k - 1) : wire'[j].kind \notin {"text", "interrupt"}
    <3>1. /\ userText # None /\ expected = None
          /\ \A j \in 1 .. (m - 1) : wire[j].kind \notin {"text", "interrupt"}
      BY <2>1, <2>6 DEF TalkInv, RepliesInv, ReplyFrame
    <3> QED
      BY <2>2, <3>1
  <2>7. ASSUME wire[m].kind = "speak"
        PROVE  /\ wire[m].chunk = <<userText, wire[m].seq>>
               /\ wire[m].seq < ReplyLen[userText] /\ wire[m].seq \notin DOMAIN chunkText'
               /\ \A s \in 0 .. (wire[m].seq - 1) :
                     \/ s \in DOMAIN chunkText'
                     \/ \E j \in 1 .. (k - 1) : wire'[j].kind = "speak" /\ wire'[j].seq = s
               /\ \A j \in 1 .. (k - 1) : wire'[j].kind = "speak" => wire'[j].seq < wire[m].seq
    <3>1. /\ wire[m].chunk = <<userText, wire[m].seq>>
          /\ wire[m].seq < ReplyLen[userText] /\ wire[m].seq \notin DOMAIN chunkText
          /\ \A s \in 0 .. (wire[m].seq - 1) :
                \/ s \in DOMAIN chunkText
                \/ \E j \in 1 .. (m - 1) : wire[j].kind = "speak" /\ wire[j].seq = s
          /\ \A j \in 1 .. (m - 1) : wire[j].kind = "speak" => wire[j].seq < wire[m].seq
      BY <2>1, <2>7 DEF TalkInv, RepliesInv, ReplyFrame
    <3>2. ~Moved(wire[m].seq)
      <4>1. wire[1].kind = "speak" => wire[1].seq \in Nat /\ wire[1].seq < wire[m].seq
        BY <1>1, <2>1, <3>1, WireSeq
      <4>2. wire[m].seq \in Nat
        BY <2>1, <2>7, WireSeq
      <4> QED
        BY <4>1, <4>2 DEF Moved
    <3> QED
      BY <2>2, <2>5, <3>1, <3>2, SMTT(30)
  <2>8. ASSUME wire[m].kind = "end"
        PROVE  /\ wire[m].total = ReplyLen[userText]
               /\ \A j \in (k + 1) .. Len(wire') : wire'[j].kind \notin {"speak", "end"}
               /\ \A s \in 0 .. (ReplyLen[userText] - 1) :
                     \/ s \in DOMAIN chunkText'
                     \/ \E j \in 1 .. (k - 1) : wire'[j].kind = "speak" /\ wire'[j].seq = s
    <3>1. /\ wire[m].total = ReplyLen[userText]
          /\ \A j \in (m + 1) .. Len(wire) : wire[j].kind \notin {"speak", "end"}
          /\ \A s \in 0 .. (ReplyLen[userText] - 1) :
                \/ s \in DOMAIN chunkText
                \/ \E j \in 1 .. (m - 1) : wire[j].kind = "speak" /\ wire[j].seq = s
      BY <2>1, <2>8 DEF TalkInv, RepliesInv, ReplyFrame
    <3> QED
      BY <2>3, <2>5, <3>1
  <2> QED
    BY <1>2, <2>1, <2>6, <2>7, <2>8 DEF ReplyFrame
<1> QED
  BY <1>3 DEF RepliesInv

LEMMA ReplyingTail ==
    ASSUME TalkInv, Replying, wire # <<>>, wire' = Tail(wire),
           wire[1].kind \in {"speaking", "speak"},
           UNCHANGED <<userText, expected, open, reply, cutAt>>,
           \A s : s \in DOMAIN chunkText' <=> s \in DOMAIN chunkText \/ Moved(s),
           ~Unread({"turn", "cut", "complete"})'
    PROVE  Replying'
<1>1. /\ Len(wire) \in Nat \ {0} /\ 1 \in 1 .. Len(wire) /\ Len(wire') = Len(wire) - 1
      /\ \A k \in 1 .. Len(wire') : k + 1 \in 2 .. Len(wire) /\ wire'[k] = wire[k + 1]
      /\ \A k \in 2 .. Len(wire) : k - 1 \in 1 .. Len(wire') /\ wire'[k - 1] = wire[k]
  BY WireRead
<1>2. /\ userText' = userText /\ expected' = expected /\ open' = open /\ reply' = reply
      /\ cutAt' = cutAt
  OBVIOUS
<1>3. /\ open \in Utterances \ DOMAIN cutAt /\ reply.turn = open /\ userText = open
      /\ \A k \in 1 .. Len(wire) : wire[k].kind \notin {"text", "interrupt"}
      /\ \A s \in 0 .. (ReplyLen[open] - 1) :
            s < reply.sent <=> \/ s \in DOMAIN chunkText
                               \/ \E k \in 1 .. Len(wire) :
                                     wire[k].kind = "speak" /\ wire[k].seq = s
      /\ reply.sent = ReplyLen[open] + 1 <=>
            expected # None \/ \E k \in 1 .. Len(wire) : wire[k].kind = "end"
  BY DEF Replying
<1>4. \A k \in 1 .. Len(wire) : k = 1 \/ k \in 2 .. Len(wire)
  BY <1>1
<1>5. \A k \in 1 .. Len(wire') : k + 1 \in 1 .. Len(wire) /\ wire'[k] = wire[k + 1]
  BY <1>1
<1>6. ASSUME NEW s
      PROVE  (\/ s \in DOMAIN chunkText'
              \/ \E k \in 1 .. Len(wire') : wire'[k].kind = "speak" /\ wire'[k].seq = s)
             <=> \/ s \in DOMAIN chunkText
                 \/ \E k \in 1 .. Len(wire) : wire[k].kind = "speak" /\ wire[k].seq = s
  <2>1. ASSUME NEW k \in 1 .. Len(wire), wire[k].kind = "speak", wire[k].seq = s
        PROVE  \/ Moved(s)
               \/ \E i \in 1 .. Len(wire') : wire'[i].kind = "speak" /\ wire'[i].seq = s
    <3>1. CASE k = 1
      BY <2>1, <3>1 DEF Moved
    <3>2. CASE k \in 2 .. Len(wire)
      BY <1>1, <2>1, <3>2
    <3> QED
      BY <1>4, <3>1, <3>2
  <2>2. Moved(s) => \E k \in 1 .. Len(wire) : wire[k].kind = "speak" /\ wire[k].seq = s
    BY <1>1 DEF Moved
  <2>3. ASSUME NEW k \in 1 .. Len(wire'), wire'[k].kind = "speak", wire'[k].seq = s
        PROVE  \E i \in 1 .. Len(wire) : wire[i].kind = "speak" /\ wire[i].seq = s
    BY <1>5, <2>3
  <2> QED
    BY <2>1, <2>2, <2>3
<1>7. (\E k \in 1 .. Len(wire') : wire'[k].kind = "end")
        <=> \E k \in 1 .. Len(wire) : wire[k].kind = "end"
  <2>1. ASSUME NEW k \in 1 .. Len(wire), wire[k].kind = "end"
        PROVE  \E i \in 1 .. Len(wire') : wire'[i].kind = "end"
    <3>1. k \in 2 .. Len(wire)
      BY <1>4, <2>1
    <3> QED
      BY <1>1, <2>1, <3>1
  <2> QED
    BY <1>5, <2>1
<1>8. \A k \in 1 .. Len(wire') : wire'[k].kind \notin {"text", "interrupt"}
  BY <1>3, <1>5
<1>9. \A s \in 0 .. (ReplyLen[open] - 1) :
          s < reply.sent <=> \/ s \in DOMAIN chunkText'
                             \/ \E k \in 1 .. Len(wire') :
                                   wire'[k].kind = "speak" /\ wire'[k].seq = s
  BY <1>3, <1>6
<1>10. reply.sent = ReplyLen[open] + 1 <=>
          expected # None \/ \E k \in 1 .. Len(wire') : wire'[k].kind = "end"
  BY <1>3, <1>7
<1>11. ~Unread({"turn", "cut", "complete"})'
  OBVIOUS
<1> QED
  BY <1>2, <1>3, <1>8, <1>9, <1>10, <1>11 DEF Replying

LEMMA ReceiveCases ==
    ASSUME TalkInv, Receive
    PROVE  /\ wire # <<>> /\ wire' = Tail(wire) /\ UNCHANGED <<read, clientVars>>
           /\ \/ wire[1].kind = "text" /\ wire[1].user \in Typed /\ SendText(wire[1].user)
              \/ /\ wire[1].kind = "speak" /\ wire[1].seq \in Seqs /\ wire[1].chunk \in Chunks
                 /\ Speak(wire[1].seq, wire[1].chunk)
              \/ wire[1].kind = "end" /\ wire[1].total \in 0 .. MaxSeq /\ ReplyEnd(wire[1].total)
              \/ wire[1].kind = "speaking" /\ wire[1].on \in BOOLEAN /\ SetSpeaking(wire[1].on)
              \/ wire[1].kind = "interrupt" /\ wire[1].heard \in Nat /\ Interrupt(wire[1].heard)
<1>1. wire # <<>> /\ wire' = Tail(wire) /\ UNCHANGED <<read, clientVars>>
  BY DEF Receive
<1>2. wire[1] \in Wire /\ Head(wire) = wire[1]
  BY <1>1, WireRead
<1>3. CASE wire[1].kind = "text"
  <2>1. wire[1].user \in Typed
    BY <1>2, <1>3 DEF Wire
  <2> QED
    BY <1>1, <1>2, <1>3, <2>1 DEF Receive
<1>4. CASE wire[1].kind = "speak"
  <2>1. wire[1].seq \in Seqs /\ wire[1].chunk \in Chunks
    BY <1>2, <1>4 DEF Wire
  <2> QED
    BY <1>1, <1>2, <1>4, <2>1 DEF Receive
<1>5. CASE wire[1].kind = "end"
  <2>1. wire[1].total \in 0 .. MaxSeq
    BY <1>2, <1>5 DEF Wire
  <2> QED
    BY <1>1, <1>2, <1>5, <2>1 DEF Receive
<1>6. CASE wire[1].kind = "speaking"
  <2>1. wire[1].on \in BOOLEAN
    BY <1>2, <1>6 DEF Wire
  <2> QED
    BY <1>1, <1>2, <1>6, <2>1 DEF Receive
<1>7. CASE wire[1].kind = "interrupt"
  <2>1. wire[1].heard \in Nat
    BY <1>2, <1>7 DEF Wire
  <2> QED
    BY <1>1, <1>2, <1>7, <2>1 DEF Receive
<1>8. wire[1].kind \in {"text", "speak", "end", "speaking", "interrupt"}
  BY <1>2 DEF Wire
<1> QED
  BY <1>3, <1>4, <1>5, <1>6, <1>7, <1>8

LEMMA StillTail ==
    ASSUME TalkInv, wire # <<>>, wire' = Tail(wire), Still
    PROVE  Still' /\ wire[1].kind = "speaking"
<1>1. 1 \in 1 .. Len(wire) /\ \A k \in 1 .. Len(wire') : k + 1 \in 1 .. Len(wire) /\ wire'[k] = wire[k + 1]
  BY WireRead
<1> QED
  BY <1>1 DEF Still

LEMMA SpeakingStep ==
    ASSUME TalkInv, wire # <<>>, wire' = Tail(wire), UNCHANGED <<read, clientVars>>,
           wire[1].kind = "speaking", wire[1].on \in BOOLEAN, SetSpeaking(wire[1].on)
    PROVE  TalkInv'
<1>1. UNCHANGED <<gen, turnVars, tasks, judging, out, closed>>
  BY DEF SetSpeaking
<1>2. TypeOK'
  <2>1. Frame
    BY DEF Frame
  <2> QED
    BY <2>1, FrameType DEF TalkInv, TalkTypes
<1>3. UNCHANGED <<out, userText, expected, chunkText, gen, tasks, judging>>
  BY <1>1 DEF turnVars
<1>4. UNCHANGED <<read, open, reply, cutAt, asked>>
  BY DEF clientVars
<1>5. (AtRest => AtRest') /\ \A t, n, v : Busy(t, v, n) => Busy(t, v, n)'
  BY <1>1 DEF AtRest, Busy, turnVars
<1>6. SessionInv'
  BY <1>5 DEF TalkInv, SessionInv
<1>7. TurnsInv' /\ Kept(out, cutAt)'
  BY <1>3, <1>4 DEF TalkInv, TurnsInv
<1>8. TalkTypes'
  <2>1. Len(out) <= Len(out')
    BY <1>3, LenProperties DEF TalkInv, TalkTypes, TypeOK
  <2>2. judging' = {} /\ \A i \in 1 .. Len(tasks') : tasks'[i].gen <= gen'
    BY <1>3 DEF TalkInv, TalkTypes
  <2>3. gen' = IF wire[1].kind = "interrupt" THEN gen + 1 ELSE gen
    BY <1>3
  <2> QED
    BY <1>2, <2>1, <2>2, <2>3, TypesTail
<1>9. \A s : s \in DOMAIN chunkText' <=> s \in DOMAIN chunkText \/ Moved(s)
  BY <1>3 DEF Moved
<1>10. RepliesInv'
  BY <1>3, <1>9, RepliesTail
<1>11. TextsInv'
  BY <1>3, <1>4, TextsTail
<1>12. TapsInv'
  BY <1>3, <1>4, TapsTail
<1>13. ASSUME UnreadCut(Len(out) + 1) PROVE UnreadCut(Len(out) + 1)'
  BY <1>3, <1>4, <1>13 DEF UnreadCut
<1>14. ASSUME Away PROVE ClientInv'
  <2>1. UnreadCut(Len(out) + 1)'
    BY <1>13, <1>14 DEF Away
  <2>2. Away'
    BY <1>3, <1>4, <1>14, <2>1, AwayTail
  <2> QED
    BY <2>2 DEF ClientInv
<1>15. ASSUME Typing PROVE ClientInv'
  <2>1. UnreadCut(Len(out) + 1)'
    BY <1>13, <1>15 DEF Typing
  <2>2. Typing'
    BY <1>4, <1>15, <2>1, TypingTail
  <2> QED
    BY <2>2 DEF ClientInv
<1>16. ASSUME Begun PROVE ClientInv'
  <2>1. Busy(Len(out), open, 0)' /\ UnreadCut(Len(out))'
    BY <1>1, <1>3, <1>4, <1>5, <1>16 DEF Begun, UnreadCut, Busy, turnVars
  <2>2. Still'
    BY <1>16, StillTail DEF Begun
  <2> QED
    BY <1>3, <1>4, <1>16, <2>1, <2>2 DEF Begun, ClientInv
<1>17. ASSUME Replying PROVE ClientInv'
  <2>1. ~Unread({"turn", "cut", "complete"})'
    BY <1>3, <1>4, <1>17 DEF Replying, Unread
  <2>2. Replying'
    BY <1>3, <1>4, <1>9, <1>17, <2>1, ReplyingTail
  <2> QED
    BY <2>2 DEF ClientInv
<1>18. ASSUME Completed PROVE ClientInv'
  <2>1. Still'
    BY <1>18, StillTail DEF Completed
  <2> QED
    BY <1>3, <1>4, <1>5, <1>18, <2>1 DEF Completed, ClientInv
<1>19. ASSUME Resting PROVE ClientInv'
  <2>1. Still'
    BY <1>19, StillTail DEF Resting
  <2> QED
    BY <1>3, <1>4, <1>5, <1>19, <2>1 DEF Resting, ClientInv
<1> QED
  BY <1>6, <1>7, <1>8, <1>10, <1>11, <1>12, <1>14, <1>15, <1>16, <1>17, <1>18, <1>19
  DEF TalkInv, ClientInv

\* A typed utterance begins a turn: the session was at rest.
LEMMA TextStep ==
    ASSUME TalkInv, wire # <<>>, wire' = Tail(wire), UNCHANGED <<read, clientVars>>,
           wire[1].kind = "text", wire[1].user \in Typed, SendText(wire[1].user)
    PROVE  TalkInv'
<1>0. PICK u, t, e : /\ u = wire[1].user /\ t = Len(out) + 1
                     /\ e = <<[kind |-> "turn", user |-> u]>>
  OBVIOUS
<1>1. /\ userText' = u /\ out' = Append(out, [kind |-> "turn", user |-> u])
      /\ UNCHANGED <<gen, nextSeq, pending, failed, emitted, expected, chunkText,
                     spoken, parts, speaking, tasks, judging, closed>>
  BY <1>0 DEF SendText
<1>2. UNCHANGED <<read, open, reply, cutAt, asked>>
  BY DEF clientVars
<1>3. u \in Utterances /\ u # None /\ 0 \in 0 .. ReplyLen[u]
  <2>1. u \in Utterances /\ u # None
    BY <1>0, Basics
  <2>2. ReplyLen[u] \in 1 .. MaxSeq
    BY <2>1, Basics
  <2> QED
    BY <2>1, <2>2, Basics
<1>4. TypeOK'
  <2>1. Frame
    BY <1>0, <1>3 DEF Frame
  <2> QED
    BY <2>1, FrameType DEF TalkInv, TalkTypes
<1>5. /\ Len(wire) \in Nat \ {0} /\ 1 \in 1 .. Len(wire)
      /\ \A k \in 1 .. Len(wire') : k + 1 \in 2 .. Len(wire) /\ wire'[k] = wire[k + 1]
      /\ \A k \in 2 .. Len(wire) : k - 1 \in 1 .. Len(wire') /\ wire'[k - 1] = wire[k]
  BY WireRead
<1>6. /\ u \in asked /\ userText = None
      /\ \A i \in 1 .. Len(out) : out[i].kind = "turn" => out[i].user # u
  <2>1. /\ u \in asked
        /\ \A i \in 1 .. Len(out) : out[i].kind = "turn" => out[i].user # u
        /\ (\A j \in 1 .. (1 - 1) : wire[j].kind # "interrupt") => userText = None
    BY <1>0, <1>5 DEF TalkInv, TextsInv, TextFrame
  <2> QED
    BY <2>1
<1>7. out \in Seq(Event) /\ e \in Seq(Event) /\ out' = out \o e /\ Len(e) = 1 /\ e[1].kind = "turn" /\ e[1].user = u
  <2>1. [kind |-> "turn", user |-> u] \in Event
    BY <1>3 DEF Event
  <2>2. out \in Seq(Event)
    BY DEF TalkInv, TalkTypes, TypeOK
  <2> QED
    BY <1>0, <1>1, <2>1, <2>2, AppendIsConcat
<1>8. /\ Len(out) \in Nat /\ Len(out') = t
      /\ \A i \in 1 .. Len(out) : out'[i] = out[i]
      /\ out'[t].kind = "turn" /\ out'[t].user = u
  <2>1. /\ Len(out) \in Nat /\ Len(out \o e) = Len(out) + Len(e)
        /\ \A i \in 1 .. Len(out) : (out \o e)[i] = out[i]
        /\ \A i \in (Len(out) + 1) .. (Len(out) + Len(e)) : (out \o e)[i] = e[i - Len(out)]
    BY <1>7, ConcatFacts
  <2>2. t \in (Len(out) + 1) .. (Len(out) + Len(e)) /\ t - Len(out) = 1
    BY <1>0, <1>7, <2>1
  <2> QED
    BY <1>0, <1>7, <2>1, <2>2
<1>9. \A i \in 1 .. Len(out') : i \in 1 .. Len(out) \/ i = t
  BY <1>0, <1>8
<1>10. AtRest
  BY <1>3, <1>6, Basics DEF TalkInv, SessionInv, Busy
<1>11. t \in Nat /\ t \in 1 .. Len(out')
  BY <1>0, <1>8
<1>12. Busy(t, u, 0)' /\ expected' = None
  <2>1. OpenAt(out', t, Len(out') + 1)
    <3>1. t \in 1 .. (Len(out') + 1 - 1) /\ \A k \in (t + 1) .. (Len(out') + 1 - 1) : FALSE
      BY <1>8, <1>11
    <3> QED
      BY <1>8, <3>1 DEF OpenAt
  <2>2. /\ chunkText' = EmptyMap /\ pending' = EmptyMap /\ failed' = EmptyMap /\ spoken' = {}
        /\ nextSeq' = 0 /\ emitted' = 0 /\ expected' = None
        /\ \A i \in 1 .. Len(tasks') : tasks'[i].gen # gen'
    BY <1>1, <1>10 DEF AtRest
  <2>3. DOMAIN EmptyMap = {} /\ 0 .. (0 - 1) = {} /\ Cardinality({}) = 0
    BY FS_EmptySet DEF EmptyMap
  <2>4. \A j \in (t + 1) .. Len(out') : FALSE
    BY <1>8, <1>11
  <2>5. ToldOf(out', t, u, 0, {})
    BY <2>3, <2>4 DEF ToldOf
  <2>6. Waiting(tasks', gen', EmptyMap, EmptyMap, u, 0, 0)
    BY <2>2, <2>3 DEF Waiting
  <2>7. DOMAIN chunkText' = 0 .. (0 - 1) /\ \A s \in 0 .. (0 - 1) : chunkText'[s] = <<u, s>>
    BY <2>2, <2>3
  <2>8. emitted' = Cardinality(spoken') /\ nextSeq' <= 0 /\ spoken' \subseteq 0 .. (nextSeq' - 1)
    BY <2>2, <2>3
  <2>9. Waiting(tasks', gen', pending', failed', u, nextSeq', 0) /\ ToldOf(out', t, u, nextSeq', spoken')
    BY <2>2, <2>5, <2>6
  <2> QED
    BY <1>1, <1>3, <1>8, <2>1, <2>2, <2>4, <2>7, <2>8, <2>9 DEF Busy
<1>13. SessionInv'
  <2>1. 0 \in Nat
    OBVIOUS
  <2> QED
    BY <1>3, <1>11, <1>12, <2>1 DEF SessionInv
<1>14. Kept(out, cutAt)'
  <2>1. Kept(out \o e, cutAt)
    BY <1>7, KeptSilent DEF TalkInv
  <2> QED
    BY <1>2, <1>7, <2>1
<1>15. TurnsInv'
  <2>1. \A i \in 1 .. Len(out') : out'[i].kind = "turn" => out'[i].user \in asked'
    BY <1>2, <1>6, <1>8, <1>9 DEF TalkInv, TurnsInv
  <2>2. \A i, j \in 1 .. Len(out') :
           (out'[i].kind = "turn" /\ out'[j].kind = "turn" /\ out'[i].user = out'[j].user) => i = j
    BY <1>6, <1>8, <1>9 DEF TalkInv, TurnsInv
  <2>3. \A i \in 1 .. Len(out') : out'[i].kind = "cut" => out'[i].gen <= gen'
    BY <1>1, <1>8, <1>9 DEF TalkInv, TurnsInv
  <2> QED
    BY <2>1, <2>2, <2>3 DEF TurnsInv
<1>16. RepliesInv'
  BY RepliesGone
<1>17. TextsInv'
  <2>1. \A i \in 1 .. Len(out') : out'[i].kind = "turn" =>
           \/ \E k \in 1 .. Len(out) : out[k].kind = "turn" /\ out[k].user = out'[i].user
           \/ wire[1].kind = "text" /\ out'[i].user = wire[1].user
    BY <1>0, <1>8, <1>9
  <2> QED
    BY <1>2, <2>1, TextsTail
<1>18. TapsInv'
  BY <1>0, <1>1, <1>2, TapsTail
<1>19. TalkTypes'
  <2>1. Len(out) <= Len(out')
    BY <1>0, <1>8
  <2>2. judging' = {} /\ \A i \in 1 .. Len(tasks') : tasks'[i].gen <= gen'
    BY <1>1 DEF TalkInv, TalkTypes
  <2>3. gen' = IF wire[1].kind = "interrupt" THEN gen + 1 ELSE gen
    BY <1>1
  <2> QED
    BY <1>4, <2>1, <2>2, <2>3, TypesTail
<1>20. ASSUME NEW l \in 2 .. Len(wire), wire[l].kind = "interrupt", UnreadCut(Len(out) + 1)
       PROVE  UnreadCut(Len(out) + 1)'
  <2>1. l \in 1 .. Len(wire) /\ 1 \in 1 .. (l - 1)
    BY <1>5
  <2>2. u \in DOMAIN cutAt
    BY <1>0, <1>20, <2>1 DEF TalkInv, TapsInv
  <2>3. \A k \in 1 .. Len(e) : e[k].kind = "turn" => e[k].user \in DOMAIN cutAt
    BY <1>7, <2>2
  <2> QED
    BY <1>2, <1>7, <1>20, <2>3, UnreadMore
<1>21. ASSUME Away PROVE ClientInv'
  <2>1. PICK l \in (1 + 1) .. Len(wire) : wire[l].kind = "interrupt"
    BY <1>5, <1>21 DEF Away
  <2>2. UnreadCut(Len(out) + 1)'
    BY <1>20, <1>21, <2>1 DEF Away
  <2>3. Away'
    BY <1>2, <1>21, <2>2, AwayTail
  <2> QED
    BY <2>3 DEF ClientInv
<1>22. ASSUME Typing PROVE ClientInv'
  <2>1. PICK k \in 1 .. Len(wire) :
          /\ wire[k].kind = "text" /\ wire[k].user = open
          /\ \A l \in (k + 1) .. Len(wire) : wire[l].kind = "speaking"
    BY <1>22 DEF Typing
  <2>2. CASE k = 1
    <3>1. u = open
      BY <1>0, <2>1, <2>2
    <3>2. Still'
      <4>1. \A l \in 1 .. Len(wire') : l + 1 \in (1 + 1) .. Len(wire) /\ wire'[l] = wire[l + 1]
        BY <1>5
      <4> QED
        BY <2>1, <2>2, <4>1 DEF Still
    <3>3. read' < Len(out') /\ read \in Nat
      BY <1>0, <1>2, <1>8 DEF TalkInv, TalkTypes
    <3>4. UnreadCut(Len(out))'
      <4>1. ASSUME NEW j \in (read' + 1) .. (Len(out') - 1)
            PROVE  out'[j].kind = "turn" => out'[j].user \in DOMAIN cutAt'
        <5>1. j \in (read + 1) .. (Len(out) + 1 - 1) /\ j \in 1 .. Len(out)
          BY <1>0, <1>2, <1>8, <3>3
        <5> QED
          BY <1>2, <1>8, <1>22, <5>1 DEF Typing, UnreadCut
      <4> QED
        BY <4>1 DEF UnreadCut
    <3>5. Busy(Len(out), open, 0)'
      BY <1>2, <1>8, <1>12, <3>1 DEF Busy
    <3>6. open' \in Utterances \ DOMAIN cutAt' /\ reply' = NoReply
      BY <1>2, <1>22 DEF Typing
    <3>7. Begun'
      BY <1>12, <3>2, <3>3, <3>4, <3>5, <3>6 DEF Begun
    <3> QED
      BY <3>7 DEF ClientInv
  <2>3. CASE k # 1
    <3>1. 1 \in 1 .. (k - 1)
      BY <1>5, <2>3
    <3>2. /\ wire[1].user # wire[k].user
          /\ \E l \in (1 + 1) .. (k - 1) : wire[l].kind = "interrupt"
      BY <1>0, <2>1, <3>1 DEF TalkInv, TextsInv, TextFrame
    <3>3. PICK l \in (1 + 1) .. (k - 1) : wire[l].kind = "interrupt"
      BY <3>2
    <3>4. l \in 2 .. Len(wire)
      BY <1>5
    <3>5. UnreadCut(Len(out) + 1)'
      BY <1>20, <1>22, <3>3, <3>4 DEF Typing
    <3>6. Typing'
      BY <1>2, <1>22, <2>1, <3>2, <3>5, TypingTail
    <3> QED
      BY <3>6 DEF ClientInv
  <2> QED
    BY <2>2, <2>3
<1>23. ~Begun /\ ~Replying /\ ~Completed /\ ~Resting
  BY <1>5 DEF Begun, Replying, Completed, Resting, Still
<1> QED
  BY <1>13, <1>14, <1>15, <1>16, <1>17, <1>18, <1>19, <1>21, <1>22, <1>23 DEF TalkInv, ClientInv

\* A chunk of the reply arrives: it is the next one.
LEMMA SpeakStep ==
    ASSUME TalkInv, wire # <<>>, wire' = Tail(wire), UNCHANGED <<read, clientVars>>,
           wire[1].kind = "speak", wire[1].seq \in Seqs, wire[1].chunk \in Chunks,
           Speak(wire[1].seq, wire[1].chunk)
    PROVE  TalkInv'
<1>1. /\ Len(wire) \in Nat \ {0} /\ 1 \in 1 .. Len(wire) /\ Len(wire') = Len(wire) - 1
      /\ \A k \in 1 .. Len(wire') : k + 1 \in 2 .. Len(wire) /\ wire'[k] = wire[k + 1]
      /\ \A k \in 2 .. Len(wire) : k - 1 \in 1 .. Len(wire') /\ wire'[k - 1] = wire[k]
  BY WireRead
<1>2. /\ userText # None /\ expected = None
      /\ wire[1].chunk = <<userText, wire[1].seq>>
      /\ wire[1].seq < ReplyLen[userText] /\ wire[1].seq \notin DOMAIN chunkText
      /\ \A s \in 0 .. (wire[1].seq - 1) : s \in DOMAIN chunkText
      /\ wire[1].seq \in Nat
  <2>1. \A s \in 0 .. (wire[1].seq - 1) :
           \/ s \in DOMAIN chunkText
           \/ \E j \in 1 .. (1 - 1) : wire[j].kind = "speak" /\ wire[j].seq = s
    BY <1>1 DEF TalkInv, RepliesInv, ReplyFrame
  <2> QED
    BY <1>1, <2>1, WireSeq DEF TalkInv, RepliesInv, ReplyFrame
<1>3. PICK t \in Nat, n \in Nat, v \in Utterances : Busy(t, v, n)
  BY <1>2 DEF TalkInv, SessionInv, AtRest
<1>4. /\ userText = v /\ n \in 0 .. ReplyLen[v] /\ DOMAIN chunkText = 0 .. (n - 1)
      /\ OpenAt(out, t, Len(out) + 1) /\ out[t].user = v
      /\ \A j \in (t + 1) .. Len(out) : out[j].kind \notin {"cut", "complete"}
      /\ \A s \in 0 .. (n - 1) : chunkText[s] = <<v, s>>
      /\ nextSeq <= n /\ spoken \subseteq 0 .. (nextSeq - 1) /\ emitted = Cardinality(spoken)
      /\ ToldOf(out, t, v, nextSeq, spoken)
      /\ Waiting(tasks, gen, pending, failed, v, nextSeq, n)
  BY <1>3 DEF Busy
<1>5. /\ out \in Seq(Event) /\ gen \in Nat /\ tasks \in Seq(Task) /\ nextSeq \in Nat
      /\ ReplyLen[v] \in Nat /\ v # None /\ Len(out) \in Nat
  BY Basics, LenProperties, SMTT(30) DEF TalkInv, TalkTypes, TypeOK
<1>6. wire[1].seq = n /\ n < ReplyLen[v]
  <2>1. wire[1].seq >= n
    BY <1>2, <1>4
  <2>2. ~(n \in 0 .. (wire[1].seq - 1))
    BY <1>2, <1>4
  <2> QED
    BY <1>2, <1>4, <2>1, <2>2
<1>7. PICK e, k : /\ e = <<[kind |-> "chunk", chunk |-> <<v, n>>]>>
                  /\ k = [seq |-> n, chunk |-> <<v, n>>, gen |-> gen, stage |-> "queued"]
  OBVIOUS
<1>8. /\ chunkText' = Put(chunkText, n, <<v, n>>)
      /\ out' = Append(out, [kind |-> "chunk", chunk |-> <<v, n>>])
      /\ tasks' = Append(tasks, k)
      /\ UNCHANGED <<gen, nextSeq, pending, failed, emitted, expected, userText,
                     spoken, speaking, judging, closed>>
  BY <1>2, <1>4, <1>6, <1>7 DEF Speak
<1>9. UNCHANGED <<read, open, reply, cutAt, asked>>
  BY DEF clientVars
<1>10. TypeOK'
  <2>1. Frame
    BY DEF Frame
  <2> QED
    BY <2>1, FrameType DEF TalkInv, TalkTypes
<1>11. /\ e \in Seq(Event) /\ out' = out \o e /\ Len(e) = 1
       /\ e[1].kind = "chunk" /\ \A i \in 1 .. Len(e) : i = 1
  <2>1. [kind |-> "chunk", chunk |-> <<v, n>>] \in Event
    BY <1>2, <1>4, <1>6 DEF Event
  <2>2. e \in Seq(Event) /\ Len(e) = 1 /\ e[1].kind = "chunk"
    BY <1>7, <2>1
  <2>3. out' = out \o e
    BY <1>5, <1>7, <1>8, <2>1, AppendIsConcat
  <2> QED
    BY <2>2, <2>3
<1>12. /\ Len(out') = Len(out) + 1
       /\ \A i \in 1 .. Len(out) : out'[i] = out[i]
       /\ out'[Len(out) + 1].kind = "chunk"
  <2>1. /\ Len(out \o e) = Len(out) + Len(e)
        /\ \A i \in 1 .. Len(out) : (out \o e)[i] = out[i]
        /\ \A i \in (Len(out) + 1) .. (Len(out) + Len(e)) : (out \o e)[i] = e[i - Len(out)]
    BY <1>5, <1>11, ConcatFacts
  <2>2. Len(out) + 1 \in (Len(out) + 1) .. (Len(out) + Len(e)) /\ (Len(out) + 1) - Len(out) = 1
    BY <1>5, <1>11
  <2> QED
    BY <1>11, <2>1, <2>2
<1>13. \A i \in 1 .. Len(out') : i \in 1 .. Len(out) \/ i = Len(out) + 1
  BY <1>5, <1>12
<1>14. DOMAIN chunkText' = 0 .. n /\ \A s \in 0 .. n : chunkText'[s] = <<v, s>>
  <2>1. DOMAIN chunkText' = DOMAIN chunkText \cup {n}
        /\ \A s \in DOMAIN chunkText' : chunkText'[s] = IF s = n THEN <<v, n>> ELSE chunkText[s]
    BY <1>8 DEF Put
  <2>2. 0 .. n = (0 .. (n - 1)) \cup {n}
    BY <1>4
  <2> QED
    BY <1>4, <2>1, <2>2
<1>15. /\ Len(tasks) \in Nat /\ Len(tasks') = Len(tasks) + 1
       /\ \A i \in 1 .. Len(tasks) : tasks'[i] = tasks[i]
       /\ tasks'[Len(tasks) + 1] = k
  <2>1. k \in Task
    BY <1>2, <1>4, <1>5, <1>6, <1>7 DEF Task
  <2> QED
    BY <1>5, <1>8, <2>1, AppendProperties, LenProperties
<1>16. k.seq = n /\ k.chunk = <<v, n>> /\ k.gen = gen
  BY <1>7
<1>17. \A i \in 1 .. Len(tasks') : i \in 1 .. Len(tasks) \/ (i = Len(tasks) + 1 /\ tasks'[i] = k)
  BY <1>15
<1>18. Waiting(tasks', gen, pending, failed, v, nextSeq, n + 1)
  <2>1. /\ DOMAIN pending \subseteq nextSeq .. (n - 1) /\ DOMAIN failed \subseteq nextSeq .. (n - 1)
        /\ DOMAIN pending \cap DOMAIN failed = {}
        /\ \A s \in DOMAIN pending : pending[s].chunk = <<v, s>>
        /\ \A i \in 1 .. Len(tasks) : tasks[i].gen = gen =>
              /\ tasks[i].seq \in (nextSeq .. (n - 1)) \ (DOMAIN pending \cup DOMAIN failed)
              /\ tasks[i].chunk = <<v, tasks[i].seq>>
              /\ \A j \in 1 .. Len(tasks) : (tasks[j].gen = gen /\ tasks[j].seq = tasks[i].seq) => j = i
    BY <1>4 DEF Waiting
  <2>2. /\ nextSeq .. (n - 1) \subseteq nextSeq .. (n + 1 - 1) /\ n \notin nextSeq .. (n - 1)
        /\ n \in nextSeq .. (n + 1 - 1)
    BY <1>4, <1>5
  <2>3. ASSUME NEW i \in 1 .. Len(tasks'), tasks'[i].gen = gen
        PROVE  /\ tasks'[i].seq \in (nextSeq .. (n + 1 - 1)) \ (DOMAIN pending \cup DOMAIN failed)
               /\ tasks'[i].chunk = <<v, tasks'[i].seq>>
               /\ \A j \in 1 .. Len(tasks') :
                     (tasks'[j].gen = gen /\ tasks'[j].seq = tasks'[i].seq) => j = i
    <3>1. CASE i \in 1 .. Len(tasks)
      <4>1. tasks'[i] = tasks[i] /\ tasks[i].seq # n
        BY <1>15, <2>1, <2>2, <2>3, <3>1
      <4> QED
        BY <1>15, <1>16, <1>17, <2>1, <2>2, <2>3, <3>1, <4>1, SMTT(30)
    <3>2. CASE i = Len(tasks) + 1 /\ tasks'[i] = k
      <4>1. \A j \in 1 .. Len(tasks) : tasks[j].gen = gen => tasks[j].seq # n
        BY <2>1, <2>2
      <4> QED
        BY <1>15, <1>16, <1>17, <2>1, <2>2, <3>2, <4>1
    <3> QED
      BY <1>17, <3>1, <3>2
  <2> QED
    BY <2>1, <2>2, <2>3 DEF Waiting
<1>19. t \in 1 .. Len(out) /\ spoken \in SUBSET (0 .. (nextSeq - 1))
  BY <1>4, <1>5 DEF OpenAt
<1>20. Busy(t, v, n + 1)'
  <2>1. OpenAt(out', t, Len(out') + 1)
    <3>1. Len(out') + 1 \in (Len(out) + 1) .. (Len(out) + Len(e) + 1)
      BY <1>5, <1>11, <1>12
    <3>2. \A i \in 1 .. Len(e) : e[i].kind # "turn"
      BY <1>11
    <3> QED
      BY <1>4, <1>5, <1>11, <3>1, <3>2, OpenOn
  <2>2. ToldOf(out', t, v, nextSeq, spoken)
    <3>1. \A i \in 1 .. Len(e) : ~Reported(e[i])
      BY <1>11 DEF Reported
    <3> QED
      BY <1>4, <1>5, <1>11, <1>19, <3>1, ToldSilent
  <2>3. \A j \in (t + 1) .. Len(out') : out'[j].kind \notin {"cut", "complete"}
    <3> SUFFICES ASSUME NEW j \in (t + 1) .. Len(out') PROVE out'[j].kind \notin {"cut", "complete"}
      OBVIOUS
    <3>1. j \in (t + 1) .. Len(out) \/ j = Len(out) + 1
      BY <1>5, <1>12, <1>19
    <3>2. j \in (t + 1) .. Len(out) => j \in 1 .. Len(out)
      BY <1>5, <1>19
    <3> QED
      BY <1>4, <1>12, <3>1, <3>2
  <2>4. n + 1 \in 0 .. ReplyLen[v] /\ nextSeq <= n + 1 /\ n + 1 - 1 = n
    BY <1>4, <1>5, <1>6
  <2>5. out'[t].user = v
    BY <1>4, <1>12, <1>19
  <2>6. Waiting(tasks', gen', pending', failed', v, nextSeq', n + 1) /\ ToldOf(out', t, v, nextSeq', spoken')
    BY <1>8, <1>18, <2>2
  <2>7. /\ userText' = v /\ nextSeq' = nextSeq /\ spoken' = spoken /\ emitted' = emitted
        /\ expected' = None
    BY <1>2, <1>4, <1>8
  <2>8. /\ v \in Utterances /\ spoken \subseteq 0 .. (nextSeq - 1)
        /\ emitted = Cardinality(spoken)
    BY <1>4
  <2>9. DOMAIN chunkText' = 0 .. (n + 1 - 1) /\ \A s \in 0 .. (n + 1 - 1) : chunkText'[s] = <<v, s>>
    BY <1>14, <2>4
  <2>10. PICK r \in Nat : r = n + 1
    BY <1>4
  <2>11. r \in 0 .. ReplyLen[v] /\ nextSeq' <= r
    BY <2>4, <2>7, <2>10
  <2>12. DOMAIN chunkText' = 0 .. (r - 1) /\ \A s \in 0 .. (r - 1) : chunkText'[s] = <<v, s>>
    BY <2>9, <2>10
  <2>13. Waiting(tasks', gen', pending', failed', v, nextSeq', r)
    BY <2>6, <2>10
  <2>14. Busy(t, v, r)'
    BY <2>1, <2>3, <2>5, <2>6, <2>7, <2>8, <2>11, <2>12, <2>13 DEF Busy
  <2> QED
    BY <2>10, <2>14
<1>21. SessionInv'
  <2>1. n + 1 \in Nat
    OBVIOUS
  <2> QED
    BY <1>20, <2>1 DEF SessionInv
<1>22. Kept(out, cutAt)'
  <2>1. Kept(out \o e, cutAt)
    BY <1>5, <1>11, KeptSilent DEF TalkInv
  <2> QED
    BY <1>9, <1>11, <2>1
<1>23. TurnsInv' /\ \A i \in 1 .. Len(out') : out'[i].kind = "turn" => i \in 1 .. Len(out) /\ out[i] = out'[i]
  <2>1. \A i \in 1 .. Len(e) : e[i].kind # "turn" /\ (e[i].kind = "cut" => e[i].gen <= gen')
    BY <1>11
  <2>2. gen' \in Nat /\ gen <= gen' /\ asked' = asked
    BY <1>5, <1>8, <1>9
  <2> QED
    BY <1>11, <2>1, <2>2, TurnsMore
<1>24. \A s : s \in DOMAIN chunkText' <=> s \in DOMAIN chunkText \/ Moved(s)
  <2>1. 0 .. n = (0 .. (n - 1)) \cup {n}
    BY <1>4
  <2> QED
    BY <1>4, <1>6, <1>14, <2>1 DEF Moved
<1>25. userText' = userText /\ expected' = expected
  BY <1>8
<1>26. RepliesInv'
  BY <1>24, <1>25, RepliesTail
<1>27. TextsInv'
  BY <1>9, <1>23, <1>25, TextsTail
<1>28. TapsInv'
  BY <1>9, <1>25, TapsTail
<1>29. TalkTypes'
  <2>1. Len(out) <= Len(out')
    BY <1>5, <1>12
  <2>2. judging' = {} /\ \A i \in 1 .. Len(tasks') : tasks'[i].gen <= gen'
    BY <1>5, <1>8, <1>15, <1>16, <1>17, SMTT(30) DEF TalkInv, TalkTypes
  <2>3. gen' = IF wire[1].kind = "interrupt" THEN gen + 1 ELSE gen
    BY <1>8
  <2> QED
    BY <1>10, <2>1, <2>2, <2>3, TypesTail
<1>30. ASSUME UnreadCut(Len(out) + 1) PROVE UnreadCut(Len(out) + 1)'
  <2>1. \A i \in 1 .. Len(e) : e[i].kind = "turn" => e[i].user \in DOMAIN cutAt
    BY <1>11
  <2> QED
    BY <1>9, <1>11, <1>30, <2>1, UnreadMore
<1>31. ASSUME Away PROVE ClientInv'
  <2>1. UnreadCut(Len(out) + 1)'
    BY <1>30, <1>31 DEF Away
  <2>2. Away'
    BY <1>9, <1>25, <1>31, <2>1, AwayTail
  <2> QED
    BY <2>2 DEF ClientInv
<1>32. ASSUME Typing PROVE ClientInv'
  <2>1. UnreadCut(Len(out) + 1)'
    BY <1>30, <1>32 DEF Typing
  <2>2. Typing'
    BY <1>9, <1>32, <2>1, TypingTail
  <2> QED
    BY <2>2 DEF ClientInv
<1>33. ASSUME Replying PROVE ClientInv'
  <2>1. ~Unread({"turn", "cut", "complete"})'
    <3>1. ASSUME NEW j \in (read' + 1) .. Len(out') PROVE out'[j].kind \notin {"turn", "cut", "complete"}
      <4>1. read' = read /\ read \in Nat
        BY <1>9 DEF TalkInv, TalkTypes
      <4>2. j \in (read + 1) .. Len(out) \/ j = Len(out) + 1
        BY <1>5, <1>12, <4>1
      <4>3. j \in (read + 1) .. Len(out) => j \in 1 .. Len(out)
        BY <1>5, <4>1
      <4> QED
        BY <1>12, <1>33, <4>2, <4>3 DEF Replying, Unread
    <3> QED
      BY <3>1 DEF Unread
  <2>2. Replying'
    BY <1>9, <1>24, <1>25, <1>33, <2>1, ReplyingTail
  <2> QED
    BY <2>2 DEF ClientInv
<1>34. ~Begun /\ ~Completed /\ ~Resting
  BY <1>1 DEF Begun, Completed, Resting, Still
<1> QED
  BY <1>21, <1>22, <1>23, <1>26, <1>27, <1>28, <1>29, <1>31, <1>32, <1>33, <1>34 DEF TalkInv, ClientInv

-----------------------------------------------------------------------------
(* What the reorder buffer puts out.                                       *)

\* The events of a step that drained the buffer in the turn of v: reports, and
\* the end of the turn when that is reached.
Drains(e, v) ==
    \/ /\ AtRest' /\ Len(e) # 0
       /\ e[Len(e)].kind = "complete" /\ e[Len(e)].user = v
       /\ \A k \in 1 .. (Len(e) - 1) : Reported(e[k])
    \/ /\ UNCHANGED <<userText, chunkText>>
       /\ \E t, n \in Nat : Busy(t, v, n)'
       /\ \A k \in 1 .. Len(e) : Reported(e[k])

LEMMA DrainKeeps ==
    ASSUME TalkInv, NEW v \in Utterances, NEW e \in Seq(Event), out' = out \o e, Drains(e, v),
           UNCHANGED <<asked, gen, read, cutAt>>
    PROVE  /\ SessionInv' /\ TurnsInv' /\ Len(out) <= Len(out')
           /\ \A i \in 1 .. Len(out') : out'[i].kind = "turn" =>
                 i \in 1 .. Len(out) /\ out[i] = out'[i]
           /\ userText' = None \/ userText' = userText
           /\ UnreadCut(Len(out) + 1) => UnreadCut(Len(out) + 1)'
<1>1. ASSUME NEW k \in 1 .. Len(e) PROVE e[k].kind \in {"audio", "dropped", "complete"}
  <2>1. CASE \A i \in 1 .. Len(e) : Reported(e[i])
    BY <2>1 DEF Reported
  <2>2. CASE e[Len(e)].kind = "complete" /\ \A i \in 1 .. (Len(e) - 1) : Reported(e[i])
    <3>1. Len(e) \in Nat
      BY LenProperties
    <3>2. k = Len(e) \/ k \in 1 .. (Len(e) - 1)
      BY <3>1
    <3> QED
      BY <2>2, <3>2 DEF Reported
  <2> QED
    BY <2>1, <2>2 DEF Drains
<1>2. SessionInv'
  <2>1. ASSUME NEW t \in Nat, NEW n \in Nat, Busy(t, v, n)' PROVE SessionInv'
    BY <2>1 DEF SessionInv
  <2> QED
    BY <2>1 DEF Drains, SessionInv
<1>3. TurnsInv' /\ \A i \in 1 .. Len(out') : out'[i].kind = "turn" => i \in 1 .. Len(out) /\ out[i] = out'[i]
  <2>1. gen' \in Nat /\ gen <= gen' /\ asked' = asked
    BY DEF TalkInv, TalkTypes, TypeOK
  <2>2. \A k \in 1 .. Len(e) : e[k].kind # "turn" /\ (e[k].kind = "cut" => e[k].gen <= gen')
    BY <1>1
  <2> QED
    BY <2>1, <2>2, TurnsMore
<1>4. Len(out) <= Len(out')
  <2>1. out \in Seq(Event)
    BY DEF TalkInv, TalkTypes, TypeOK
  <2> QED
    BY <2>1, ConcatFacts
<1>5. userText' = None \/ userText' = userText
  BY DEF Drains, AtRest
<1>6. ASSUME UnreadCut(Len(out) + 1) PROVE UnreadCut(Len(out) + 1)'
  <2>1. \A k \in 1 .. Len(e) : e[k].kind = "turn" => e[k].user \in DOMAIN cutAt
    BY <1>1
  <2> QED
    BY <1>6, <2>1, UnreadMore
<1> QED
  BY <1>2, <1>3, <1>4, <1>5, <1>6

LEMMA ReportsUnread ==
    ASSUME TalkInv, NEW e \in Seq(Event), out' = out \o e, read' = read,
           ~Unread({"turn", "cut", "complete"}),
           NEW m \in 0 .. Len(e), \A k \in 1 .. m : Reported(e[k])
    PROVE  \A j \in (read + 1) .. (Len(out) + m) : out'[j].kind \notin {"turn", "cut", "complete"}
<1>1. out \in Seq(Event) /\ read \in Nat
  BY LenProperties DEF TalkInv, TalkTypes, TypeOK
<1>2. /\ Len(out) \in Nat /\ Len(e) \in Nat
      /\ \A i \in 1 .. Len(out) : (out \o e)[i] = out[i]
      /\ \A i \in (Len(out) + 1) .. (Len(out) + Len(e)) : (out \o e)[i] = e[i - Len(out)]
  BY <1>1, ConcatFacts
<1>3. ASSUME NEW j \in (read + 1) .. (Len(out) + m)
      PROVE  (out \o e)[j].kind \notin {"turn", "cut", "complete"}
  <2>1. CASE j <= Len(out)
    <3>1. j \in 1 .. Len(out) /\ j \in (read + 1) .. Len(out)
      BY <1>1, <1>2, <2>1
    <3> QED
      BY <1>2, <3>1 DEF Unread
  <2>2. CASE j > Len(out)
    <3>1. j \in (Len(out) + 1) .. (Len(out) + Len(e)) /\ j - Len(out) \in 1 .. m
      BY <1>1, <1>2, <2>2
    <3> QED
      BY <1>2, <3>1 DEF Reported
  <2> QED
    BY <1>1, <1>2, <2>1, <2>2
<1> QED
  BY <1>3

\* With no reply, text or tap on the wire only the playback state is.
LEMMA StillWhen ==
    ASSUME NEW w \in Seq(Wire),
           \A k \in 1 .. Len(w) : w[k].kind \notin {"text", "interrupt", "speak", "end"}
    PROVE  \A k \in 1 .. Len(w) : w[k].kind = "speaking"
<1>1. ASSUME NEW k \in 1 .. Len(w) PROVE w[k].kind = "speaking"
  <2>1. w[k] \in Wire
    BY ElementOfSeq
  <2> QED
    BY <2>1 DEF Wire
<1> QED
  BY <1>1

\* The client, in the turn of its reply, when the buffer has been drained.
LEMMA ReplyingDrained ==
    ASSUME TalkInv, Replying, NEW e \in Seq(Event), out' = out \o e, Drains(e, open),
           UNCHANGED <<read, open, reply, cutAt>>,
           AtRest' => Still' /\ reply.sent = ReplyLen[open] + 1,
           \A k \in 1 .. Len(wire') : wire'[k].kind \notin {"text", "interrupt"},
           \A s \in 0 .. (ReplyLen[open] - 1) :
              (\/ s \in DOMAIN chunkText
               \/ \E k \in 1 .. Len(wire) : wire[k].kind = "speak" /\ wire[k].seq = s)
              <=> \/ s \in DOMAIN chunkText
                  \/ \E k \in 1 .. Len(wire') : wire'[k].kind = "speak" /\ wire'[k].seq = s,
           userText' # None =>
              ((expected # None \/ \E k \in 1 .. Len(wire) : wire[k].kind = "end")
               <=> expected' # None \/ \E k \in 1 .. Len(wire') : wire'[k].kind = "end")
    PROVE  ClientInv'
<1>1. /\ open \in Utterances \ DOMAIN cutAt /\ reply.turn = open /\ userText = open
      /\ ~Unread({"turn", "cut", "complete"})
      /\ \A s \in 0 .. (ReplyLen[open] - 1) :
            s < reply.sent <=> \/ s \in DOMAIN chunkText
                               \/ \E k \in 1 .. Len(wire) :
                                     wire[k].kind = "speak" /\ wire[k].seq = s
      /\ reply.sent = ReplyLen[open] + 1 <=>
            expected # None \/ \E k \in 1 .. Len(wire) : wire[k].kind = "end"
  BY DEF Replying
<1>2. read' = read /\ open' = open /\ reply' = reply /\ cutAt' = cutAt
  OBVIOUS
<1>3. read \in Nat /\ read <= Len(out) /\ out \in Seq(Event) /\ open # None
  BY <1>1, Basics, LenProperties DEF TalkInv, TalkTypes, TypeOK
<1>4. /\ Len(out) \in Nat /\ Len(e) \in Nat /\ Len(out') = Len(out) + Len(e)
      /\ \A i \in (Len(out) + 1) .. (Len(out) + Len(e)) : out'[i] = e[i - Len(out)]
  BY <1>3, ConcatFacts
<1>5. CASE /\ AtRest' /\ Len(e) # 0
           /\ e[Len(e)].kind = "complete" /\ e[Len(e)].user = open
           /\ \A k \in 1 .. (Len(e) - 1) : Reported(e[k])
  <2>1. Len(e) - 1 \in 0 .. Len(e) /\ Len(out) + (Len(e) - 1) = Len(out') - 1
    BY <1>4, <1>5
  <2>2. \A j \in (read + 1) .. (Len(out') - 1) : out'[j].kind \notin {"turn", "cut", "complete"}
    <3>1. \A j \in (read + 1) .. (Len(out) + (Len(e) - 1)) : out'[j].kind \notin {"turn", "cut", "complete"}
      BY <1>1, <1>2, <1>5, <2>1, ReportsUnread
    <3> QED
      BY <2>1, <3>1
  <2>3. out'[Len(out')] = e[Len(e)]
    <3>1. Len(out') \in (Len(out) + 1) .. (Len(out) + Len(e)) /\ Len(out') - Len(out) = Len(e)
      BY <1>4, <1>5
    <3> QED
      BY <1>4, <3>1
  <2>4. read' < Len(out')
    BY <1>2, <1>3, <1>4, <1>5
  <2>5. Completed'
    BY <1>1, <1>2, <1>5, <2>2, <2>3, <2>4 DEF Completed
  <2> QED
    BY <2>5 DEF ClientInv
<1>6. CASE /\ UNCHANGED <<userText, chunkText>>
           /\ \A k \in 1 .. Len(e) : Reported(e[k])
  <2>1. userText' = open /\ chunkText' = chunkText
    BY <1>1, <1>6
  <2>2. Len(e) \in 0 .. Len(e)
    BY <1>4
  <2>3. \A j \in (read + 1) .. Len(out') : out'[j].kind \notin {"turn", "cut", "complete"}
    <3>1. \A j \in (read + 1) .. (Len(out) + Len(e)) : out'[j].kind \notin {"turn", "cut", "complete"}
      BY <1>1, <1>2, <1>6, <2>2, ReportsUnread
    <3> QED
      BY <1>4, <3>1
  <2>4. ~Unread({"turn", "cut", "complete"})'
    BY <1>2, <2>3 DEF Unread
  <2>5. \A s \in 0 .. (ReplyLen[open] - 1) :
           s < reply.sent <=> \/ s \in DOMAIN chunkText'
                              \/ \E k \in 1 .. Len(wire') :
                                    wire'[k].kind = "speak" /\ wire'[k].seq = s
    BY <1>1, <2>1
  <2>6. reply.sent = ReplyLen[open] + 1 <=>
           expected' # None \/ \E k \in 1 .. Len(wire') : wire'[k].kind = "end"
    BY <1>1, <1>3, <2>1
  <2>7. \A k \in 1 .. Len(wire') : wire'[k].kind \notin {"text", "interrupt"}
    OBVIOUS
  <2>8. Replying'
    BY <1>1, <1>2, <2>1, <2>4, <2>5, <2>6, <2>7 DEF Replying
  <2> QED
    BY <2>8 DEF ClientInv
<1> QED
  BY <1>5, <1>6 DEF Drains

\* The reply ends: every chunk of it has arrived.
LEMMA EndStep ==
    ASSUME TalkInv, wire # <<>>, wire' = Tail(wire), UNCHANGED <<read, clientVars>>,
           wire[1].kind = "end", wire[1].total \in 0 .. MaxSeq, ReplyEnd(wire[1].total)
    PROVE  TalkInv'
<1>1. /\ Len(wire) \in Nat \ {0} /\ 1 \in 1 .. Len(wire) /\ wire' \in Seq(Wire)
      /\ \A k \in 1 .. Len(wire') : k + 1 \in 2 .. Len(wire) /\ wire'[k] = wire[k + 1]
      /\ \A k \in 2 .. Len(wire) : k - 1 \in 1 .. Len(wire') /\ wire'[k - 1] = wire[k]
  BY WireRead
<1>2. /\ userText # None /\ expected = None /\ wire[1].total = ReplyLen[userText]
      /\ \A s \in 0 .. (ReplyLen[userText] - 1) : s \in DOMAIN chunkText
  <2>1. \A s \in 0 .. (ReplyLen[userText] - 1) :
           \/ s \in DOMAIN chunkText
           \/ \E j \in 1 .. (1 - 1) : wire[j].kind = "speak" /\ wire[j].seq = s
    BY <1>1 DEF TalkInv, RepliesInv, ReplyFrame
  <2> QED
    BY <1>1, <2>1 DEF TalkInv, RepliesInv, ReplyFrame
<1>3. PICK t \in Nat, n \in Nat, v \in Utterances : Busy(t, v, n)
  BY <1>2 DEF TalkInv, SessionInv, AtRest
<1>4. /\ userText = v /\ n \in 0 .. ReplyLen[v] /\ DOMAIN chunkText = 0 .. (n - 1)
      /\ Waiting(tasks, gen, pending, failed, v, nextSeq, n)
      /\ ReplyLen[v] \in 1 .. MaxSeq
  BY <1>3, Basics DEF Busy
<1>5. n = ReplyLen[v]
  <2>1. ReplyLen[v] \in Nat \ {0}
    BY <1>4, Basics
  <2>2. ReplyLen[v] - 1 \in 0 .. (n - 1)
    BY <1>2, <1>4, <2>1
  <2> QED
    BY <1>4, <2>1, <2>2
<1>6. /\ Drain(pending, failed, n) /\ n # None
      /\ UNCHANGED <<gen, speaking, tasks, judging, closed>>
  <2>1. wire[1].total = n
    BY <1>2, <1>4, <1>5
  <2>2. n # None
    BY Basics
  <2> QED
    BY <2>1, <2>2 DEF ReplyEnd
<1>7. UNCHANGED <<read, open, reply, cutAt, asked>>
  BY DEF clientVars
<1>8. TypeOK'
  <2>1. Frame
    BY DEF Frame
  <2> QED
    BY <2>1, FrameType DEF TalkInv, TalkTypes
<1>9. TypeOK /\ Kept(out, cutAt)
  BY DEF TalkInv, TalkTypes
<1>10. /\ DOMAIN pending \subseteq Seqs /\ pending \in [DOMAIN pending -> Audio]
       /\ DOMAIN failed \subseteq Seqs /\ failed \in [DOMAIN failed -> Nat]
  BY <1>9 DEF TypeOK
<1>11. PICK e \in Seq(Event) :
          /\ out' = out \o e /\ Kept(out', cutAt)
          /\ \/ /\ AtRest' /\ Len(e) # 0
                /\ e[Len(e)].kind = "complete" /\ e[Len(e)].user = v
                /\ \A k \in 1 .. (Len(e) - 1) : Reported(e[k])
             \/ /\ Busy(t, v, n)' /\ expected' = n
                /\ UNCHANGED <<userText, chunkText>>
                /\ \A k \in 1 .. Len(e) : Reported(e[k])
  <2>1. Waiting(tasks', gen, pending, failed, v, nextSeq, n) /\ gen' = gen
    BY <1>4, <1>6
  <2>2. DrainFrom(cutAt, t, v, n, pending, failed, n)
    BY <1>3, <1>5, <1>6, <1>9, <1>10, <2>1 DEF DrainFrom
  <2>3. DrainTo(cutAt, t, v, n, n)
    BY <2>2, BusyDrain
  <2> QED
    BY <2>3 DEF DrainTo
<1>12. Drains(e, v)
  <2>1. CASE Busy(t, v, n)'
    BY <1>11, <2>1 DEF Drains
  <2> QED
    BY <1>11, <2>1 DEF Drains
<1>13. /\ SessionInv' /\ TurnsInv' /\ Len(out) <= Len(out')
       /\ \A i \in 1 .. Len(out') : out'[i].kind = "turn" =>
             i \in 1 .. Len(out) /\ out[i] = out'[i]
       /\ userText' = None \/ userText' = userText
       /\ UnreadCut(Len(out) + 1) => UnreadCut(Len(out) + 1)'
  BY <1>6, <1>7, <1>11, <1>12, DrainKeeps
<1>14. RepliesInv' /\ \A k \in 1 .. Len(wire') : wire'[k].kind \notin {"speak", "end"}
  BY RepliesGone
<1>15. TextsInv'
  BY <1>7, <1>13, TextsTail
<1>16. TapsInv'
  BY <1>7, <1>13, TapsTail
<1>17. TalkTypes'
  <2>1. judging' = {} /\ \A i \in 1 .. Len(tasks') : tasks'[i].gen <= gen'
    BY <1>6 DEF TalkInv, TalkTypes
  <2>2. gen' = IF wire[1].kind = "interrupt" THEN gen + 1 ELSE gen
    BY <1>6
  <2> QED
    BY <1>8, <1>13, <2>1, <2>2, TypesTail
<1>18. ASSUME Away PROVE ClientInv'
  <2>1. UnreadCut(Len(out) + 1)'
    BY <1>13, <1>18 DEF Away
  <2>2. Away'
    BY <1>7, <1>13, <1>18, <2>1, AwayTail
  <2> QED
    BY <2>2 DEF ClientInv
<1>19. ASSUME Typing PROVE ClientInv'
  <2>1. UnreadCut(Len(out) + 1)'
    BY <1>13, <1>19 DEF Typing
  <2>2. Typing'
    BY <1>7, <1>19, <2>1, TypingTail
  <2> QED
    BY <2>2 DEF ClientInv
<1>20. ASSUME Replying PROVE ClientInv'
  <2>1. open = v /\ \A k \in 1 .. Len(wire) : wire[k].kind \notin {"text", "interrupt"}
    BY <1>4, <1>20 DEF Replying
  <2>2. \A k \in 1 .. Len(wire') : wire'[k].kind \notin {"text", "interrupt"}
    BY <1>1, <2>1
  <2>3. Still'
    <3>1. \A k \in 1 .. Len(wire') : wire'[k].kind = "speaking"
      BY <1>1, <1>14, <2>2, StillWhen
    <3> QED
      BY <3>1 DEF Still
  <2>4. reply.sent = ReplyLen[open] + 1
    BY <1>1, <1>20 DEF Replying
  <2>5. \A s \in 0 .. (ReplyLen[open] - 1) : s \in DOMAIN chunkText
    BY <1>2, <1>4, <2>1
  <2>6. userText' # None => expected' # None
    BY <1>6, <1>11 DEF AtRest
  <2> QED
    BY <1>1, <1>7, <1>11, <1>12, <1>20, <2>1, <2>2, <2>3, <2>4, <2>5, <2>6, ReplyingDrained
<1>21. ~Begun /\ ~Completed /\ ~Resting
  BY <1>1 DEF Begun, Completed, Resting, Still
<1>22. Kept(out, cutAt)'
  BY <1>7, <1>11
<1> QED
  BY <1>13, <1>14, <1>15, <1>16, <1>17, <1>18, <1>19, <1>20, <1>21, <1>22 DEF TalkInv, ClientInv

\* What an interruption puts out, and that the record in it is what was heard.
LEMMA CutKept ==
    ASSUME TalkInv, wire # <<>>, wire[1].kind = "interrupt", wire[1].heard \in Nat,
           out' = out \o CutEvents(wire[1].heard)
    PROVE  \E e \in Seq(Event) :
              /\ out' = out \o e /\ Kept(out \o e, cutAt)
              /\ \A k \in 1 .. Len(e) :
                    /\ e[k].kind \in {"cut", "complete"}
                    /\ e[k].kind = "cut" => e[k].gen = gen + 1
<1>0. PICK h \in Nat : h = wire[1].heard
  OBVIOUS
<1>1. out \in Seq(Event) /\ TurnOK /\ gen \in Nat /\ Kept(out, cutAt) /\ 1 \in 1 .. Len(wire)
      /\ nextSeq \in Nat /\ emitted \in Nat
  <2>1. Len(wire) \in Nat \ {0}
    BY WireTail DEF TalkInv, TalkTypes
  <2> QED
    BY <2>1, TypeSplit DEF TalkInv, TalkTypes, TypeOK
<1>2. PICK c \in Event : /\ c.kind = "cut" /\ c.gen = gen + 1
                         /\ CutEvents(h) = <<c>> \o Finish(HeardText(h), TRUE, emitted)
  BY <1>1, CutEventsFacts
<1>3. /\ <<c>> \in Seq(Event) /\ Len(<<c>>) = 1 /\ <<c>>[1] = c
      /\ \A k \in 1 .. 1 : k = 1
  BY <1>2
<1>4. out \o <<c>> \in Seq(Event) /\ Kept(out \o <<c>>, cutAt)
  <2>1. \A k \in 1 .. Len(<<c>>) : <<c>>[k].kind \notin {"audio", "complete"}
    BY <1>2, <1>3
  <2>2. out \o <<c>> \in Seq(Event)
    BY <1>1, <1>3, ConcatFacts
  <2>3. PICK x \in Seq(Event) : x = <<c>>
    BY <1>3
  <2>4. Kept(out \o x, cutAt)
    BY <1>1, <2>1, <2>3, KeptSilent
  <2> QED
    BY <2>2, <2>3, <2>4
<1>5. CASE AtRest
  <2>1. HeardText(h) = {} /\ userText = None
    <3>1. DOMAIN chunkText = {}
      BY <1>5 DEF AtRest, EmptyMap
    <3> QED
      BY <1>5, <3>1 DEF AtRest, HeardText
  <2>2. CutEvents(h) = <<c>> \o <<>>
    BY <1>2, <2>1 DEF Finish
  <2>3. CutEvents(h) = <<c>>
    BY <1>3, <2>2, ConcatEmptySeq
  <2>4. out' = out \o <<c>>
    BY <1>0, <2>3
  <2>5. \A k \in 1 .. Len(<<c>>) :
           <<c>>[k].kind \in {"cut", "complete"} /\ (<<c>>[k].kind = "cut" => <<c>>[k].gen = gen + 1)
    BY <1>2, <1>3
  <2> QED
    BY <1>3, <1>4, <2>4, <2>5
<1>6. ASSUME NEW t \in Nat, NEW n \in Nat, NEW v \in Utterances, Busy(t, v, n)
      PROVE  \E e \in Seq(Event) :
                /\ out' = out \o e /\ Kept(out \o e, cutAt)
                /\ \A k \in 1 .. Len(e) :
                      /\ e[k].kind \in {"cut", "complete"}
                      /\ e[k].kind = "cut" => e[k].gen = gen + 1
  <2>1. /\ userText = v /\ v # None /\ OpenAt(out, t, Len(out) + 1) /\ out[t].user = v
        /\ DOMAIN chunkText = 0 .. (n - 1) /\ \A s \in 0 .. (n - 1) : chunkText[s] = <<v, s>>
        /\ spoken \subseteq 0 .. (nextSeq - 1) /\ emitted = Cardinality(spoken)
        /\ ToldOf(out, t, v, nextSeq, spoken)
    BY <1>6, Basics DEF Busy
  <2>2. PICK a, f : /\ a = HeardText(h)
                    /\ f = [kind |-> "complete", user |-> v, assistant |-> a,
                            interrupted |-> TRUE, chunks |-> emitted]
    OBVIOUS
  <2>3. a \in SUBSET Chunks
    BY <1>1, <2>2, CutEventsFacts
  <2>4. f \in Event
    BY <1>1, <2>2, <2>3 DEF Event
  <2>5. CutEvents(h) = <<c>> \o <<f>>
    BY <1>2, <2>1, <2>2 DEF Finish
  <2>6. /\ f.kind = "complete" /\ f.user = v /\ f.interrupted /\ f.assistant = a
        /\ f.chunks = Cardinality(spoken)
    BY <2>1, <2>2
  <2>7. /\ Len(out \o <<c>>) = Len(out) + 1 /\ Len(out) \in Nat
        /\ \A i \in 1 .. Len(out) : (out \o <<c>>)[i] = out[i]
    BY <1>1, <1>3, ConcatFacts
  <2>8. t \in 1 .. Len(out) /\ spoken \in SUBSET (0 .. (nextSeq - 1))
    BY <2>1, <2>7 DEF OpenAt
  <2>9. OpenAt(out \o <<c>>, t, Len(out \o <<c>>) + 1)
    <3>1. Len(out \o <<c>>) + 1 \in (Len(out) + 1) .. (Len(out) + Len(<<c>>) + 1)
      BY <1>3, <2>7
    <3>2. \A k \in 1 .. Len(<<c>>) : <<c>>[k].kind # "turn"
      BY <1>2, <1>3
    <3> QED
      BY <1>1, <1>3, <2>1, <3>1, <3>2, OpenOn
  <2>10. (out \o <<c>>)[t].user = v
    BY <2>1, <2>7, <2>8
  <2>11. ToldOf(out \o <<c>>, t, v, nextSeq, spoken)
    <3>1. \A k \in 1 .. Len(<<c>>) : ~Reported(<<c>>[k])
      BY <1>2, <1>3 DEF Reported
    <3> QED
      BY <1>1, <1>3, <2>1, <2>8, <3>1, ToldSilent
  <2>12. v \in DOMAIN cutAt /\ cutAt[v] = h
    <3>1. /\ userText # None =>
             /\ userText \in DOMAIN cutAt
             /\ (\A l \in 1 .. (1 - 1) : wire[l].kind \notin {"text", "interrupt"})
                   => cutAt[userText] = wire[1].heard
      BY <1>1 DEF TalkInv, TapsInv
    <3> QED
      BY <1>0, <2>1, <3>1
  <2>13. /\ Cardinality(a) <= cutAt[v]
         /\ \A b \in a : \E s \in spoken : b = <<v, s>>
    <3>1. /\ Cardinality(a) <= h
          /\ \A b \in a : \E s \in spoken : s \in DOMAIN chunkText /\ b = chunkText[s]
      BY <1>1, <2>1, <2>2, HeardCount
    <3> QED
      BY <2>1, <2>12, <3>1
  <2>14. Kept((out \o <<c>>) \o <<f>>, cutAt)
    <3>1. PICK o \in Seq(Event) : o = out \o <<c>>
      BY <1>4
    <3>2. /\ Kept(o, cutAt) /\ OpenAt(o, t, Len(o) + 1) /\ f.user = o[t].user
          /\ ToldOf(o, t, f.user, nextSeq, spoken)
      BY <1>4, <2>6, <2>9, <2>10, <2>11, <3>1
    <3>3. f.interrupted =>
             /\ f.user \in DOMAIN cutAt /\ Cardinality(f.assistant) <= cutAt[f.user]
             /\ \A b \in f.assistant : \E s \in spoken : b = <<f.user, s>>
      BY <2>6, <2>12, <2>13
    <3>4. f.kind = "complete" /\ f.chunks = Cardinality(spoken) /\ ~f.interrupted => nextSeq = ReplyLen[f.user]
      BY <2>6
    <3>5. Kept(o \o <<f>>, cutAt)
      BY <1>1, <2>4, <2>6, <2>8, <3>2, <3>3, <3>4, KeptComplete
    <3> QED
      BY <3>1, <3>5
  <2>15. PICK e : e = <<c, f>>
    OBVIOUS
  <2>16. e \in Seq(Event) /\ Len(e) = 2 /\ e[1] = c /\ e[2] = f /\ e = <<c>> \o <<f>>
    BY <1>2, <2>4, <2>15
  <2>17. (out \o <<c>>) \o <<f>> = out \o e
    <3>1. <<f>> \in Seq(Event)
      BY <2>4
    <3> QED
      BY <1>1, <1>3, <2>16, <3>1, ConcatAssociative
  <2>18. out' = out \o e
    BY <1>0, <2>5, <2>16
  <2>19. \A k \in 1 .. Len(e) :
            /\ e[k].kind \in {"cut", "complete"}
            /\ e[k].kind = "cut" => e[k].gen = gen + 1
    <3>1. \A k \in 1 .. 2 : k = 1 \/ k = 2
      OBVIOUS
    <3> QED
      BY <1>2, <2>6, <2>16, <3>1
  <2> QED
    BY <2>14, <2>16, <2>17, <2>18, <2>19
<1> QED
  BY <1>5, <1>6 DEF TalkInv, SessionInv

LEMMA InterruptStep ==
    ASSUME TalkInv, wire # <<>>, wire' = Tail(wire), UNCHANGED <<read, clientVars>>,
           wire[1].kind = "interrupt", wire[1].heard \in Nat, Interrupt(wire[1].heard)
    PROVE  TalkInv'
<1>1. /\ gen' = gen + 1 /\ out' = out \o CutEvents(wire[1].heard) /\ ResetTurn
      /\ UNCHANGED <<speaking, tasks, judging, closed>>
  BY DEF Interrupt
<1>2. PICK e \in Seq(Event) :
         /\ out' = out \o e /\ Kept(out \o e, cutAt)
         /\ \A k \in 1 .. Len(e) :
               /\ e[k].kind \in {"cut", "complete"}
               /\ e[k].kind = "cut" => e[k].gen = gen + 1
  BY <1>1, CutKept
<1>3. UNCHANGED <<read, open, reply, cutAt, asked>>
  BY DEF clientVars
<1>4. 1 \in 1 .. Len(wire)
  BY WireRead
<1>5. out \in Seq(Event) /\ gen \in Nat /\ tasks \in Seq(Task)
      /\ \A i \in 1 .. Len(tasks) : tasks[i].gen <= gen
  BY DEF TalkInv, TalkTypes, TypeOK
<1>6. TypeOK'
  <2>1. TurnOK'
    BY <1>1, ResetTurnType
  <2>2. out' \in Seq(Event) /\ gen' \in Nat
    BY <1>1, <1>2, <1>5, ConcatFacts
  <2>3. /\ speaking' \in BOOLEAN /\ tasks' \in Seq(Task) /\ judging' \subseteq Utterances
        /\ closed' \in BOOLEAN
    BY <1>1 DEF TalkInv, TalkTypes, TypeOK
  <2> QED
    BY <2>1, <2>2, <2>3 DEF TypeOK, TurnOK
<1>7. \A i \in 1 .. Len(tasks) : tasks[i].gen <= gen + 1 /\ tasks[i].gen # gen + 1
  <2>1. ASSUME NEW i \in 1 .. Len(tasks) PROVE tasks[i].gen <= gen + 1 /\ tasks[i].gen # gen + 1
    <3>1. tasks[i] \in Task
      BY <1>5, ElementOfSeq
    <3>2. tasks[i].gen \in Nat /\ tasks[i].gen <= gen
      BY <1>5, <3>1 DEF Task
    <3> QED
      BY <1>5, <3>2
  <2> QED
    BY <2>1
<1>8. AtRest'
  BY <1>1, <1>7 DEF AtRest, ResetTurn
<1>9. SessionInv'
  BY <1>8 DEF SessionInv
<1>10. TurnsInv' /\ \A i \in 1 .. Len(out') : out'[i].kind = "turn" => i \in 1 .. Len(out) /\ out[i] = out'[i]
  <2>1. gen' \in Nat /\ gen <= gen' /\ asked' = asked /\ gen' = gen + 1
    BY <1>1, <1>3, <1>5
  <2>2. \A k \in 1 .. Len(e) : e[k].kind # "turn" /\ (e[k].kind = "cut" => e[k].gen <= gen')
    BY <1>2, <2>1
  <2> QED
    BY <1>2, <2>1, <2>2, TurnsMore
<1>11. userText' = None
  BY <1>1 DEF ResetTurn
<1>12. RepliesInv'
  BY RepliesGone
<1>13. TextsInv'
  BY <1>3, <1>10, <1>11, TextsTail
<1>14. TapsInv'
  BY <1>3, <1>11, TapsTail
<1>15. TalkTypes'
  <2>1. Len(out) <= Len(out')
    BY <1>2, <1>5, ConcatFacts
  <2>2. judging' = {} /\ \A i \in 1 .. Len(tasks') : tasks'[i].gen <= gen'
    BY <1>1, <1>7 DEF TalkInv, TalkTypes
  <2>3. gen' = IF wire[1].kind = "interrupt" THEN gen + 1 ELSE gen
    BY <1>1
  <2> QED
    BY <1>6, <2>1, <2>2, <2>3, TypesTail
<1>16. ASSUME UnreadCut(Len(out) + 1) PROVE UnreadCut(Len(out) + 1)'
  <2>1. \A k \in 1 .. Len(e) : e[k].kind = "turn" => e[k].user \in DOMAIN cutAt
    BY <1>2
  <2> QED
    BY <1>2, <1>3, <1>16, <2>1, UnreadMore
<1>17. ASSUME Away PROVE ClientInv'
  <2>1. UnreadCut(Len(out) + 1)'
    BY <1>16, <1>17 DEF Away
  <2>2. Away'
    BY <1>3, <1>11, <1>17, <2>1, AwayTail
  <2> QED
    BY <2>2 DEF ClientInv
<1>18. ASSUME Typing PROVE ClientInv'
  <2>1. UnreadCut(Len(out) + 1)'
    BY <1>16, <1>18 DEF Typing
  <2>2. Typing'
    BY <1>3, <1>18, <2>1, TypingTail
  <2> QED
    BY <2>2 DEF ClientInv
<1>19. ~Begun /\ ~Replying /\ ~Completed /\ ~Resting
  BY <1>4 DEF Begun, Replying, Completed, Resting, Still
<1>20. Kept(out, cutAt)'
  BY <1>2, <1>3
<1> QED
  BY <1>9, <1>10, <1>12, <1>13, <1>14, <1>15, <1>17, <1>18, <1>19, <1>20 DEF TalkInv, ClientInv

-----------------------------------------------------------------------------
(* Synthesis.                                                              *)

\* The tasks u are some of the tasks ts, those but the ones in Gone.
Thinned(u, ts, Gone) ==
    \E m \in [1 .. Len(u) -> (1 .. Len(ts)) \ Gone] :
        /\ \A j, k \in 1 .. Len(u) : m[j] = m[k] => j = k
        /\ \A k \in 1 .. Len(u) :
              u[k].seq = ts[m[k]].seq /\ u[k].chunk = ts[m[k]].chunk /\ u[k].gen = ts[m[k]].gen

LEMMA RemovedTask ==
    ASSUME NEW ts \in Seq(Task), NEW i \in 1 .. Len(ts)
    PROVE  Thinned(RemoveAt(ts, i), ts, {i})
<1> DEFINE a == SubSeq(ts, 1, i - 1)
           b == SubSeq(ts, i + 1, Len(ts))
           u == RemoveAt(ts, i)
<1>1. Len(ts) \in Nat /\ i \in Nat /\ i - 1 \in Int /\ i + 1 \in Int /\ 1 \in Int
  BY LenProperties
<1>2. \A k \in 1 .. Len(ts) : ts[k] \in Task
  BY ElementOfSeq
<1>3. /\ a \in Seq(Task) /\ Len(a) = i - 1
      /\ \A k \in 1 .. (i - 1) : a[k] = ts[k]
  <2>1. \A k \in 1 .. (i - 1) : ts[k] \in Task
    BY <1>1, <1>2
  <2>2. /\ a \in Seq(Task) /\ Len(a) = IF 1 <= i - 1 THEN (i - 1) - 1 + 1 ELSE 0
        /\ \A k \in 1 .. (i - 1) - 1 + 1 : a[k] = ts[1 + k - 1]
    BY <1>1, <2>1, SubSeqProperties
  <2> HIDE DEF a
  <2>3. \A k \in 1 .. (i - 1) : k \in 1 .. (i - 1) - 1 + 1 /\ 1 + k - 1 = k
    BY <1>1
  <2> QED
    BY <1>1, <2>2, <2>3
<1>4. /\ b \in Seq(Task) /\ Len(b) = Len(ts) - i
      /\ \A k \in 1 .. (Len(ts) - i) : b[k] = ts[i + k]
  <2>1. \A k \in (i + 1) .. Len(ts) : ts[k] \in Task
    BY <1>1, <1>2
  <2>2. /\ b \in Seq(Task) /\ Len(b) = IF i + 1 <= Len(ts) THEN Len(ts) - (i + 1) + 1 ELSE 0
        /\ \A k \in 1 .. Len(ts) - (i + 1) + 1 : b[k] = ts[i + 1 + k - 1]
    BY <1>1, <2>1, SubSeqProperties
  <2> HIDE DEF b
  <2>3. Len(b) = Len(ts) - i
    BY <1>1, <2>2
  <2>4. ASSUME NEW k \in 1 .. (Len(ts) - i) PROVE b[k] = ts[i + k]
    <3>1. k \in 1 .. Len(ts) - (i + 1) + 1 /\ i + 1 + k - 1 = i + k
      BY <1>1
    <3>2. b[k] = ts[i + 1 + k - 1]
      BY <2>2, <3>1
    <3> QED
      BY <3>1, <3>2
  <2> QED
    BY <2>2, <2>3, <2>4
<1>5. /\ Len(u) = Len(ts) - 1
      /\ \A k \in 1 .. (i - 1) : u[k] = ts[k]
      /\ \A k \in i .. (Len(ts) - 1) : u[k] = ts[k + 1]
  <2>1. u = a \o b
    BY DEF RemoveAt
  <2> HIDE DEF a, b, u
  <2>2. Len(u) = Len(a) + Len(b) /\ \A k \in 1 .. Len(a) + Len(b) : u[k] = IF k <= Len(a) THEN a[k] ELSE b[k - Len(a)]
    BY <1>3, <1>4, <2>1, ConcatProperties
  <2>3. ASSUME NEW k \in i .. (Len(ts) - 1) PROVE u[k] = ts[k + 1]
    <3>1. /\ k \in 1 .. Len(a) + Len(b) /\ ~(k <= Len(a)) /\ k - Len(a) \in 1 .. (Len(ts) - i)
          /\ i + (k - Len(a)) = k + 1
      BY <1>1, <1>3, <1>4
    <3> QED
      BY <1>4, <2>2, <3>1
  <2>4. ASSUME NEW k \in 1 .. (i - 1) PROVE u[k] = ts[k]
    <3>1. k \in 1 .. Len(a) + Len(b) /\ k <= Len(a)
      BY <1>1, <1>3, <1>4
    <3> QED
      BY <1>3, <2>2, <3>1
  <2> QED
    BY <1>1, <1>3, <1>4, <2>2, <2>3, <2>4
<1> HIDE DEF a, b, u
<1>6. PICK m : m = [k \in 1 .. Len(u) |-> IF k < i THEN k ELSE k + 1]
  OBVIOUS
<1>7. \A k \in 1 .. Len(u) : k \in Nat /\ m[k] = IF k < i THEN k ELSE k + 1
  BY <1>1, <1>5, <1>6
<1>8. m \in [1 .. Len(u) -> (1 .. Len(ts)) \ {i}]
  <2>1. \A k \in 1 .. Len(u) : (IF k < i THEN k ELSE k + 1) \in (1 .. Len(ts)) \ {i}
    BY <1>1, <1>5
  <2> QED
    BY <1>6, <2>1
<1>9. \A j, k \in 1 .. Len(u) : m[j] = m[k] => j = k
  BY <1>1, <1>7
<1>10. \A k \in 1 .. Len(u) : u[k] = ts[m[k]]
  <2>1. ASSUME NEW k \in 1 .. Len(u) PROVE u[k] = ts[m[k]]
    <3>1. k < i => k \in 1 .. (i - 1)
      BY <1>1, <1>5
    <3>2. ~(k < i) => k \in i .. (Len(ts) - 1)
      BY <1>1, <1>5
    <3> QED
      BY <1>5, <1>7, <3>1, <3>2
  <2> QED
    BY <2>1
<1>11. Thinned(u, ts, {i})
  BY <1>8, <1>9, <1>10 DEF Thinned
<1> QED
  BY <1>11 DEF u

LEMMA StartedTask ==
    ASSUME NEW ts \in Seq(Task), NEW i \in 1 .. Len(ts)
    PROVE  Thinned([ts EXCEPT ![i].stage = "synth"], ts, {})
<1>1. PICK u : u = [ts EXCEPT ![i].stage = "synth"]
  OBVIOUS
<1>2. \A k \in 1 .. Len(ts) : ts[k] \in Task
  BY ElementOfSeq
<1>3. Len(u) = Len(ts) /\ \A k \in 1 .. Len(ts) : u[k] = IF k = i THEN [ts[i] EXCEPT !.stage = "synth"] ELSE ts[k]
  <2>1. [ts[i] EXCEPT !.stage = "synth"] \in Task
    BY <1>2 DEF Task
  <2> QED
    BY <1>1, <2>1, ExceptSeq
<1>4. \A k \in 1 .. Len(ts) : u[k].seq = ts[k].seq /\ u[k].chunk = ts[k].chunk /\ u[k].gen = ts[k].gen
  BY <1>2, <1>3, SMTT(30) DEF Task
<1>5. PICK m : m = [k \in 1 .. Len(u) |-> k]
  OBVIOUS
<1>6. /\ m \in [1 .. Len(u) -> (1 .. Len(ts)) \ {}]
      /\ \A k \in 1 .. Len(u) : m[k] = k
  BY <1>3, <1>5
<1>7. Thinned(u, ts, {})
  BY <1>3, <1>4, <1>6, SMTT(30) DEF Thinned
<1> QED
  BY <1>1, <1>7

LEMMA ThinnedWaiting ==
    ASSUME NEW u, NEW ts, NEW Gone, Thinned(u, ts, Gone)
    PROVE  /\ \A g, p, f, v, from, n : Waiting(ts, g, p, f, v, from, n) => Waiting(u, g, p, f, v, from, n)
           /\ \A g : (\A i \in 1 .. Len(ts) : ts[i].gen # g) => \A i \in 1 .. Len(u) : u[i].gen # g
           /\ \A g : (\A i \in 1 .. Len(ts) : ts[i].gen <= g) => \A i \in 1 .. Len(u) : u[i].gen <= g
<1>1. PICK m \in [1 .. Len(u) -> (1 .. Len(ts)) \ Gone] :
         /\ \A j, k \in 1 .. Len(u) : m[j] = m[k] => j = k
         /\ \A k \in 1 .. Len(u) :
               u[k].seq = ts[m[k]].seq /\ u[k].chunk = ts[m[k]].chunk /\ u[k].gen = ts[m[k]].gen
  BY DEF Thinned
<1>2. \A k \in 1 .. Len(u) : m[k] \in 1 .. Len(ts)
  BY <1>1
<1>3. ASSUME NEW g, NEW p, NEW f, NEW v, NEW from, NEW n, Waiting(ts, g, p, f, v, from, n)
      PROVE  Waiting(u, g, p, f, v, from, n)
  <2>1. /\ DOMAIN p \subseteq from .. (n - 1) /\ DOMAIN f \subseteq from .. (n - 1)
        /\ DOMAIN p \cap DOMAIN f = {} /\ \A s \in DOMAIN p : p[s].chunk = <<v, s>>
        /\ \A i \in 1 .. Len(ts) : ts[i].gen = g =>
              /\ ts[i].seq \in (from .. (n - 1)) \ (DOMAIN p \cup DOMAIN f)
              /\ ts[i].chunk = <<v, ts[i].seq>>
              /\ \A j \in 1 .. Len(ts) : (ts[j].gen = g /\ ts[j].seq = ts[i].seq) => j = i
    BY <1>3 DEF Waiting
  <2>2. ASSUME NEW i \in 1 .. Len(u), u[i].gen = g
        PROVE  /\ u[i].seq \in (from .. (n - 1)) \ (DOMAIN p \cup DOMAIN f)
               /\ u[i].chunk = <<v, u[i].seq>>
               /\ \A j \in 1 .. Len(u) : (u[j].gen = g /\ u[j].seq = u[i].seq) => j = i
    <3>1. m[i] \in 1 .. Len(ts) /\ ts[m[i]].gen = g /\ u[i].seq = ts[m[i]].seq
          /\ u[i].chunk = ts[m[i]].chunk
      BY <1>1, <1>2, <2>2
    <3>2. ASSUME NEW j \in 1 .. Len(u), u[j].gen = g, u[j].seq = u[i].seq PROVE j = i
      <4>1. m[j] \in 1 .. Len(ts) /\ ts[m[j]].gen = g /\ ts[m[j]].seq = ts[m[i]].seq
        BY <1>1, <1>2, <3>1, <3>2
      <4>2. m[j] = m[i]
        BY <2>1, <3>1, <4>1
      <4> QED
        BY <1>1, <4>2
    <3>3. /\ ts[m[i]].seq \in (from .. (n - 1)) \ (DOMAIN p \cup DOMAIN f)
          /\ ts[m[i]].chunk = <<v, ts[m[i]].seq>>
      BY <2>1, <3>1
    <3> QED
      BY <3>1, <3>2, <3>3
  <2> QED
    BY <2>1, <2>2 DEF Waiting
<1>4. ASSUME NEW g, \A i \in 1 .. Len(ts) : ts[i].gen # g PROVE \A i \in 1 .. Len(u) : u[i].gen # g
  BY <1>1, <1>2, <1>4
<1>5. ASSUME NEW g, \A i \in 1 .. Len(ts) : ts[i].gen <= g PROVE \A i \in 1 .. Len(u) : u[i].gen <= g
  BY <1>1, <1>2, <1>5
<1> QED
  BY <1>3, <1>4, <1>5

\* A synthesis begins, or is dropped as stale.
LEMMA ThinStep ==
    ASSUME TalkInv, UNCHANGED <<gen, turnVars, speaking, judging, out, closed, wire, read, clientVars>>,
           TypeOK', NEW Gone, Thinned(tasks', tasks, Gone)
    PROVE  TalkInv'
<1>1. UNCHANGED <<gen, turnVars, judging, out, wire, read, asked, open, reply, buffered, heard,
                  floor, reported, cutAt>>
  BY DEF clientVars
<1>2. UNCHANGED <<userText, expected, chunkText, nextSeq, pending, failed, emitted, spoken, parts>>
  BY <1>1 DEF turnVars
<1>3. /\ \A g, p, f, v, from, n :
            Waiting(tasks, g, p, f, v, from, n) => Waiting(tasks', g, p, f, v, from, n)
      /\ \A g : (\A i \in 1 .. Len(tasks) : tasks[i].gen # g) => \A i \in 1 .. Len(tasks') : tasks'[i].gen # g
      /\ \A g : (\A i \in 1 .. Len(tasks) : tasks[i].gen <= g) => \A i \in 1 .. Len(tasks') : tasks'[i].gen <= g
  BY ThinnedWaiting
<1>4. AtRest => AtRest'
  BY <1>1, <1>2, <1>3 DEF AtRest
<1>5. ASSUME NEW t, NEW n, NEW v, Busy(t, v, n) PROVE Busy(t, v, n)'
  <2>1. Waiting(tasks', gen', pending', failed', v, nextSeq', n)
    BY <1>1, <1>2, <1>3, <1>5 DEF Busy
  <2> QED
    BY <1>1, <1>2, <1>5, <2>1 DEF Busy
<1>6. SessionInv'
  BY <1>4, <1>5 DEF TalkInv, SessionInv
<1>7. TalkTypes'
  <2>1. \A i \in 1 .. Len(tasks') : tasks'[i].gen <= gen'
    BY <1>1, <1>3 DEF TalkInv, TalkTypes
  <2> QED
    BY <1>1, <2>1 DEF TalkInv, TalkTypes
<1>8. Kept(out, cutAt)' /\ TurnsInv'
  BY <1>1 DEF TalkInv, TurnsInv
<1>9. RepliesInv'
  BY <1>1, <1>2 DEF TalkInv, RepliesInv, ReplyFrame
<1>10. TextsInv'
  <2>1. wire' = wire /\ asked' = asked /\ out' = out /\ userText' = userText /\ TextsInv
    BY <1>1, <1>2 DEF TalkInv
  <2> QED
    BY <2>1, SMTT(60) DEF TextsInv, TextFrame
<1>11. TapsInv'
  BY <1>1, <1>2 DEF TalkInv, TapsInv
<1>12. ASSUME Away PROVE ClientInv'
  BY <1>1, <1>2, <1>12 DEF Away, UnreadCut, ClientInv
<1>13. ASSUME Typing PROVE ClientInv'
  BY <1>1, <1>2, <1>13 DEF Typing, UnreadCut, ClientInv
<1>14. ASSUME Begun PROVE ClientInv'
  <2>1. Busy(Len(out), open, 0)'
    <3>1. PICK t, v : t = Len(out) /\ v = open
      OBVIOUS
    <3>2. Busy(t, v, 0)'
      BY <1>5, <1>14, <3>1 DEF Begun
    <3> QED
      BY <1>1, <3>1, <3>2 DEF Busy
  <2> QED
    BY <1>1, <1>2, <1>14, <2>1 DEF Begun, Still, UnreadCut, ClientInv
<1>15. ASSUME Replying PROVE ClientInv'
  BY <1>1, <1>2, <1>15 DEF Replying, Unread, ClientInv
<1>16. ASSUME Completed PROVE ClientInv'
  BY <1>1, <1>4, <1>16 DEF Completed, Still, ClientInv
<1>17. ASSUME Resting PROVE ClientInv'
  BY <1>1, <1>4, <1>17 DEF Resting, Still, ClientInv
<1> QED
  BY <1>6, <1>7, <1>8, <1>9, <1>10, <1>11, <1>12, <1>13, <1>14, <1>15, <1>16, <1>17
  DEF TalkInv, ClientInv

\* A synthesis of the turn under way ends: its chunk waits in the buffer now.
LEMMA EndedWaiting ==
    ASSUME TypeOK, NEW v, NEW n, Waiting(tasks, gen, pending, failed, v, nextSeq, n),
           NEW i \in 1 .. Len(tasks), NEW ok \in BOOLEAN, SynthEnd(i, ok)
    PROVE  \E p, f :
              /\ DOMAIN p \subseteq Seqs /\ p \in [DOMAIN p -> Audio]
              /\ DOMAIN f \subseteq Seqs /\ f \in [DOMAIN f -> Nat]
              /\ Drain(p, f, expected)
              /\ Waiting(tasks', gen, p, f, v, nextSeq, n)
<1> DEFINE s == tasks[i].seq
<1>1. tasks \in Seq(Task) /\ tasks[i] \in Task
  BY ElementOfSeq DEF TypeOK
<1>2. s \in Seqs /\ tasks[i].chunk \in Chunks /\ tasks[i].gen \in Nat
  BY <1>1 DEF Task
<1>3. /\ tasks[i].gen = gen /\ tasks' = RemoveAt(tasks, i)
      /\ IF ok
         THEN Drain(Put(pending, s, [chunk |-> tasks[i].chunk, gen |-> tasks[i].gen]),
                    failed, expected)
         ELSE Drain(pending, Put(failed, s, tasks[i].gen), expected)
  BY DEF SynthEnd
<1>4. /\ DOMAIN pending \subseteq Seqs /\ pending \in [DOMAIN pending -> Audio]
      /\ DOMAIN failed \subseteq Seqs /\ failed \in [DOMAIN failed -> Nat]
  BY DEF TypeOK
<1>5. PICK m \in [1 .. Len(tasks') -> (1 .. Len(tasks)) \ {i}] :
         /\ \A j, k \in 1 .. Len(tasks') : m[j] = m[k] => j = k
         /\ \A k \in 1 .. Len(tasks') :
               /\ tasks'[k].seq = tasks[m[k]].seq /\ tasks'[k].chunk = tasks[m[k]].chunk
               /\ tasks'[k].gen = tasks[m[k]].gen
  <2>1. Thinned(RemoveAt(tasks, i), tasks, {i})
    BY <1>1, RemovedTask
  <2>2. Thinned(tasks', tasks, {i})
    BY <1>3, <2>1
  <2> QED
    BY <2>2 DEF Thinned
<1>6. /\ DOMAIN pending \subseteq nextSeq .. (n - 1) /\ DOMAIN failed \subseteq nextSeq .. (n - 1)
      /\ DOMAIN pending \cap DOMAIN failed = {} /\ \A r \in DOMAIN pending : pending[r].chunk = <<v, r>>
      /\ \A k \in 1 .. Len(tasks) : tasks[k].gen = gen =>
            /\ tasks[k].seq \in (nextSeq .. (n - 1)) \ (DOMAIN pending \cup DOMAIN failed)
            /\ tasks[k].chunk = <<v, tasks[k].seq>>
            /\ \A j \in 1 .. Len(tasks) : (tasks[j].gen = gen /\ tasks[j].seq = tasks[k].seq) => j = k
  BY DEF Waiting
<1>7. s \in (nextSeq .. (n - 1)) \ (DOMAIN pending \cup DOMAIN failed) /\ tasks[i].chunk = <<v, s>>
  BY <1>3, <1>6
<1>8. ASSUME NEW k \in 1 .. Len(tasks'), tasks'[k].gen = gen
      PROVE  /\ tasks'[k].seq \in (nextSeq .. (n - 1)) \ (DOMAIN pending \cup DOMAIN failed \cup {s})
             /\ tasks'[k].chunk = <<v, tasks'[k].seq>>
             /\ \A j \in 1 .. Len(tasks') : (tasks'[j].gen = gen /\ tasks'[j].seq = tasks'[k].seq) => j = k
  <2>1. m[k] \in 1 .. Len(tasks) /\ m[k] # i /\ tasks[m[k]].gen = gen /\ tasks'[k].seq = tasks[m[k]].seq
        /\ tasks'[k].chunk = tasks[m[k]].chunk
    BY <1>5, <1>8
  <2>2. /\ tasks[m[k]].seq \in (nextSeq .. (n - 1)) \ (DOMAIN pending \cup DOMAIN failed)
        /\ tasks[m[k]].chunk = <<v, tasks[m[k]].seq>> /\ tasks[m[k]].seq # s
    BY <1>3, <1>6, <2>1
  <2>3. ASSUME NEW j \in 1 .. Len(tasks'), tasks'[j].gen = gen, tasks'[j].seq = tasks'[k].seq PROVE j = k
    <3>1. m[j] \in 1 .. Len(tasks) /\ tasks[m[j]].gen = gen /\ tasks[m[j]].seq = tasks[m[k]].seq
      BY <1>5, <2>1, <2>3
    <3>2. m[j] = m[k]
      BY <1>6, <2>1, <3>1
    <3> QED
      BY <1>5, <3>2
  <2> QED
    BY <2>1, <2>2, <2>3
<1> HIDE DEF s
<1>9. CASE ok
  <2>1. PICK a, p : a = [chunk |-> tasks[i].chunk, gen |-> tasks[i].gen] /\ p = Put(pending, s, a)
    OBVIOUS
  <2>2. a \in Audio /\ a.chunk = <<v, s>>
    BY <1>2, <1>7, <2>1 DEF Audio
  <2>3. DOMAIN p = DOMAIN pending \cup {s} /\ \A r \in DOMAIN p : p[r] = IF r = s THEN a ELSE pending[r]
    BY <2>1 DEF Put
  <2>4. DOMAIN p \subseteq Seqs /\ p \in [DOMAIN p -> Audio]
    BY <1>2, <1>4, <2>1, <2>2 DEF Put
  <2>5. Drain(p, failed, expected)
    BY <1>3, <1>9, <2>1
  <2>6. Waiting(tasks', gen, p, failed, v, nextSeq, n)
    <3>1. DOMAIN p \subseteq nextSeq .. (n - 1) /\ DOMAIN p \cap DOMAIN failed = {}
      BY <1>6, <1>7, <2>3
    <3>2. \A r \in DOMAIN p : p[r].chunk = <<v, r>>
      BY <1>6, <2>2, <2>3
    <3>3. DOMAIN p \cup DOMAIN failed = DOMAIN pending \cup DOMAIN failed \cup {s}
      BY <2>3
    <3> QED
      BY <1>6, <1>8, <3>1, <3>2, <3>3 DEF Waiting
  <2> QED
    BY <1>4, <2>4, <2>5, <2>6
<1>10. CASE ~ok
  <2>1. PICK f : f = Put(failed, s, tasks[i].gen)
    OBVIOUS
  <2>2. DOMAIN f = DOMAIN failed \cup {s}
    BY <2>1 DEF Put
  <2>3. DOMAIN f \subseteq Seqs /\ f \in [DOMAIN f -> Nat]
    BY <1>2, <1>4, <2>1 DEF Put
  <2>4. Drain(pending, f, expected)
    BY <1>3, <1>10, <2>1
  <2>5. Waiting(tasks', gen, pending, f, v, nextSeq, n)
    <3>1. DOMAIN f \subseteq nextSeq .. (n - 1) /\ DOMAIN pending \cap DOMAIN f = {}
      BY <1>6, <1>7, <2>2
    <3>2. DOMAIN pending \cup DOMAIN f = DOMAIN pending \cup DOMAIN failed \cup {s}
      BY <2>2
    <3> QED
      BY <1>6, <1>8, <3>1, <3>2 DEF Waiting
  <2> QED
    BY <1>4, <2>3, <2>4, <2>5
<1> QED
  BY <1>9, <1>10

LEMMA SynthEndStep ==
    ASSUME TalkInv, UNCHANGED <<wire, read, clientVars>>,
           NEW i \in DOMAIN tasks, NEW ok \in BOOLEAN, SynthEnd(i, ok)
    PROVE  TalkInv'
<1>1. UNCHANGED <<wire, read, asked, open, reply, buffered, heard, floor, reported, cutAt>>
  BY DEF clientVars
<1>2. UNCHANGED <<gen, speaking, judging, closed>> /\ tasks[i].gen = gen /\ tasks' = RemoveAt(tasks, i)
  BY DEF SynthEnd
<1>3. TypeOK /\ Kept(out, cutAt) /\ tasks \in Seq(Task) /\ i \in 1 .. Len(tasks)
      /\ wire \in Seq(Wire)
  BY LenProperties DEF TalkInv, TalkTypes, TypeOK
<1>4. TypeOK'
  <2>1. Synthesis
    BY DEF Synthesis
  <2> QED
    BY <1>3, <2>1, SynthesisType
<1>5. PICK t \in Nat, n \in Nat, v \in Utterances : Busy(t, v, n)
  BY <1>2, <1>3 DEF TalkInv, SessionInv, AtRest
<1>6. /\ userText = v /\ v # None /\ n \in 0 .. ReplyLen[v] /\ DOMAIN chunkText = 0 .. (n - 1)
      /\ Waiting(tasks, gen, pending, failed, v, nextSeq, n)
      /\ (expected # None => expected = n /\ n = ReplyLen[v])
      /\ expected \in Nat \cup {None} /\ ReplyLen[v] \in Nat \ {0} /\ nextSeq \in Nat
  BY <1>3, <1>5, Basics, SMTT(30) DEF Busy, TypeOK
<1>7. PICK p, f :
         /\ DOMAIN p \subseteq Seqs /\ p \in [DOMAIN p -> Audio]
         /\ DOMAIN f \subseteq Seqs /\ f \in [DOMAIN f -> Nat]
         /\ Drain(p, f, expected)
         /\ Waiting(tasks', gen, p, f, v, nextSeq, n)
  BY <1>3, <1>6, EndedWaiting
<1>8. DrainFrom(cutAt, t, v, n, p, f, expected)
  BY <1>2, <1>3, <1>5, <1>6, <1>7 DEF DrainFrom
<1>9. PICK x : x = expected
  OBVIOUS
<1>10. DrainTo(cutAt, t, v, n, x)
  <2>1. DrainFrom(cutAt, t, v, n, p, f, x)
    BY <1>8, <1>9
  <2> QED
    BY <2>1, BusyDrain
<1>11. PICK e \in Seq(Event) :
          /\ out' = out \o e /\ Kept(out', cutAt)
          /\ \/ /\ x # None /\ AtRest' /\ Len(e) # 0
                /\ e[Len(e)].kind = "complete" /\ e[Len(e)].user = v
                /\ \A k \in 1 .. (Len(e) - 1) : Reported(e[k])
             \/ /\ Busy(t, v, n)' /\ expected' = x
                /\ UNCHANGED <<userText, chunkText>>
                /\ \A k \in 1 .. Len(e) : Reported(e[k])
  BY <1>10 DEF DrainTo
<1>12. Drains(e, v)
  <2>1. CASE Busy(t, v, n)'
    BY <1>11, <2>1 DEF Drains
  <2> QED
    BY <1>11, <2>1 DEF Drains
<1>13. /\ SessionInv' /\ TurnsInv' /\ Len(out) <= Len(out')
       /\ \A k \in 1 .. Len(out') : out'[k].kind = "turn" =>
             k \in 1 .. Len(out) /\ out[k] = out'[k]
       /\ userText' = None \/ userText' = userText
       /\ UnreadCut(Len(out) + 1) => UnreadCut(Len(out) + 1)'
  BY <1>1, <1>2, <1>11, <1>12, DrainKeeps
<1>14. expected # None => \A k \in 1 .. Len(wire) : wire[k].kind \notin {"speak", "end"}
  BY DEF TalkInv, RepliesInv, ReplyFrame
<1>15. \/ expected # None /\ AtRest'
       \/ expected' = expected /\ userText' = userText /\ chunkText' = chunkText
  BY <1>9, <1>11
<1>16. RepliesInv'
  <2>1. CASE expected # None
    BY <1>1, <1>14, <2>1 DEF RepliesInv, ReplyFrame
  <2>2. CASE expected' = expected /\ userText' = userText /\ chunkText' = chunkText
    BY <1>1, <2>2 DEF TalkInv, RepliesInv, ReplyFrame
  <2> QED
    BY <1>15, <2>1, <2>2
<1>17. TextsInv'
  <2>1. ASSUME NEW k \in 1 .. Len(wire), wire[k].kind = "text"
        PROVE  /\ wire[k].user \in asked
               /\ \A j \in 1 .. Len(out') : out'[j].kind = "turn" => out'[j].user # wire[k].user
               /\ \A j \in 1 .. (k - 1) : wire[j].kind = "text" =>
                     /\ wire[j].user # wire[k].user
                     /\ \E l \in (j + 1) .. (k - 1) : wire[l].kind = "interrupt"
               /\ (\A j \in 1 .. (k - 1) : wire[j].kind # "interrupt") => userText' = None
    <3>1. /\ wire[k].user \in asked
          /\ \A j \in 1 .. Len(out) : out[j].kind = "turn" => out[j].user # wire[k].user
          /\ \A j \in 1 .. (k - 1) : wire[j].kind = "text" =>
                /\ wire[j].user # wire[k].user
                /\ \E l \in (j + 1) .. (k - 1) : wire[l].kind = "interrupt"
          /\ (\A j \in 1 .. (k - 1) : wire[j].kind # "interrupt") => userText = None
      BY <2>1 DEF TalkInv, TextsInv, TextFrame
    <3>2. \A j \in 1 .. Len(out') : out'[j].kind = "turn" => out'[j].user # wire[k].user
      BY <1>13, <3>1
    <3> QED
      BY <1>13, <3>1, <3>2
  <2>2. wire' = wire /\ asked' = asked
    BY <1>1
  <2> QED
    BY <2>1, <2>2, SMTT(60) DEF TextsInv, TextFrame
<1>18. TapsInv'
  <2>1. CASE userText' = userText
    BY <1>1, <2>1 DEF TalkInv, TapsInv
  <2>2. CASE userText' = None
    BY <1>1, <2>2 DEF TalkInv, TapsInv
  <2> QED
    BY <1>13, <2>1, <2>2
<1>19. TalkTypes'
  <2>1. \A k \in 1 .. Len(tasks') : tasks'[k].gen <= gen'
    <3>1. Thinned(tasks', tasks, {i})
      BY <1>2, <1>3, RemovedTask
    <3> QED
      BY <1>2, <3>1, ThinnedWaiting DEF TalkInv, TalkTypes
  <2>2. read' \in 0 .. Len(out')
    <3>1. Len(out) \in Nat /\ Len(out') \in Nat /\ read \in 0 .. Len(out)
      BY <1>3, <1>4, LenProperties DEF TalkInv, TalkTypes, TypeOK
    <3> QED
      BY <1>1, <1>13, <3>1
  <2> QED
    BY <1>1, <1>2, <1>4, <2>1, <2>2 DEF TalkInv, TalkTypes
<1>20. ASSUME Away PROVE ClientInv'
  <2>1. UnreadCut(Len(out) + 1)'
    BY <1>13, <1>20 DEF Away
  <2>2. Away'
    BY <1>1, <1>13, <1>20, <2>1 DEF Away
  <2> QED
    BY <2>2 DEF ClientInv
<1>21. ASSUME Typing PROVE ClientInv'
  <2>1. UnreadCut(Len(out) + 1)'
    BY <1>13, <1>21 DEF Typing
  <2>2. Typing'
    BY <1>1, <1>21, <2>1 DEF Typing
  <2> QED
    BY <2>2 DEF ClientInv
<1>22. ASSUME Replying PROVE ClientInv'
  <2>1. open = v /\ \A k \in 1 .. Len(wire) : wire[k].kind \notin {"text", "interrupt"}
    BY <1>6, <1>22 DEF Replying
  <2>2. AtRest' => Still' /\ reply.sent = ReplyLen[open] + 1
    <3>1. ASSUME expected # None PROVE Still' /\ reply.sent = ReplyLen[open] + 1
      <4>1. \A k \in 1 .. Len(wire) : wire[k].kind = "speaking"
        BY <1>3, <1>14, <2>1, <3>1, StillWhen
      <4>2. Still'
        BY <1>1, <4>1 DEF Still
      <4> QED
        BY <1>22, <3>1, <4>2 DEF Replying
    <3>2. AtRest' => expected # None
      BY <1>6, <1>15 DEF AtRest
    <3> QED
      BY <3>1, <3>2
  <2>3. userText' # None => expected' = expected
    BY <1>15 DEF AtRest
  <2>4. Drains(e, open)
    BY <1>12, <2>1
  <2> QED
    BY <1>1, <1>11, <1>22, <2>1, <2>2, <2>3, <2>4, ReplyingDrained
<1>23. ~Begun
  <2>1. ASSUME Begun PROVE FALSE
    <3>1. DOMAIN chunkText = 0 .. (0 - 1)
      BY <2>1 DEF Begun, Busy
    <3>2. n = 0
      <4>1. ~(0 \in 0 .. (n - 1))
        BY <1>6, <3>1
      <4> QED
        BY <1>6, <4>1
    <3>3. tasks[i].seq \in nextSeq .. (n - 1)
      BY <1>2, <1>3, <1>6 DEF Waiting
    <3> QED
      BY <1>6, <3>2, <3>3
  <2> QED
    BY <2>1
<1>24. ~Completed /\ ~Resting
  BY <1>6 DEF Completed, Resting, AtRest
<1>25. Kept(out, cutAt)'
  BY <1>1, <1>11
<1> QED
  BY <1>13, <1>16, <1>17, <1>18, <1>19, <1>20, <1>21, <1>22, <1>23, <1>24, <1>25
  DEF TalkInv, ClientInv

LEMMA SynthStep ==
    ASSUME TalkInv, SessionSynth
    PROVE  TalkInv'
<1>1. Synthesis /\ UNCHANGED <<wire, read, clientVars>>
  BY DEF SessionSynth
<1>2. PICK i \in DOMAIN tasks :
         SynthStart(i) \/ SynthStale(i) \/ \E ok \in BOOLEAN : SynthEnd(i, ok)
  BY <1>1 DEF Synthesis
<1>3. TypeOK /\ tasks \in Seq(Task) /\ i \in 1 .. Len(tasks)
  BY LenProperties DEF TalkInv, TalkTypes, TypeOK
<1>4. TypeOK'
  BY <1>1, <1>3, SynthesisType
<1>5. ASSUME SynthStart(i) PROVE TalkInv'
  <2>1. UNCHANGED <<gen, turnVars, speaking, judging, out, closed>>
        /\ (tasks' = RemoveAt(tasks, i) \/ tasks' = [tasks EXCEPT ![i].stage = "synth"])
    BY <1>5 DEF SynthStart
  <2>2. CASE tasks' = RemoveAt(tasks, i)
    <3>1. Thinned(tasks', tasks, {i})
      <4>1. Thinned(RemoveAt(tasks, i), tasks, {i})
        BY <1>3, RemovedTask
      <4> QED
        BY <2>2, <4>1
    <3> QED
      BY <1>1, <1>4, <2>1, <3>1, ThinStep
  <2>3. CASE tasks' = [tasks EXCEPT ![i].stage = "synth"]
    <3>1. Thinned(tasks', tasks, {})
      <4>1. Thinned([tasks EXCEPT ![i].stage = "synth"], tasks, {})
        BY <1>3, StartedTask
      <4> QED
        BY <2>3, <4>1
    <3> QED
      BY <1>1, <1>4, <2>1, <3>1, ThinStep
  <2> QED
    BY <2>1, <2>2, <2>3
<1>6. ASSUME SynthStale(i) PROVE TalkInv'
  <2>1. UNCHANGED <<gen, turnVars, speaking, judging, out, closed>> /\ tasks' = RemoveAt(tasks, i)
    BY <1>6 DEF SynthStale
  <2>2. Thinned(tasks', tasks, {i})
    <3>1. Thinned(RemoveAt(tasks, i), tasks, {i})
      BY <1>3, RemovedTask
    <3> QED
      BY <2>1, <3>1
  <2> QED
    BY <1>1, <1>4, <2>1, <2>2, ThinStep
<1>7. ASSUME NEW ok \in BOOLEAN, SynthEnd(i, ok) PROVE TalkInv'
  BY <1>1, <1>7, SynthEndStep
<1> QED
  BY <1>2, <1>5, <1>6, <1>7

LEMMA IdleStep ==
    ASSUME TalkInv, UNCHANGED talkVars
    PROVE  TalkInv'
<1>1. UNCHANGED <<gen, turnVars, speaking, judging, out, closed, wire, read, clientVars>> /\ tasks' = tasks
  BY DEF talkVars, vars
<1>2. TypeOK'
  BY <1>1 DEF TalkInv, TalkTypes, TypeOK, turnVars
<1>3. Thinned(tasks', tasks, {})
  <2>1. PICK m : m = [k \in 1 .. Len(tasks) |-> k]
    OBVIOUS
  <2>2. m \in [1 .. Len(tasks) -> (1 .. Len(tasks)) \ {}] /\ \A k \in 1 .. Len(tasks) : m[k] = k
    BY <2>1
  <2>3. Thinned(tasks, tasks, {})
    BY <2>2 DEF Thinned
  <2> QED
    BY <1>1, <2>3
<1> QED
  BY <1>1, <1>2, <1>3, ThinStep

LEMMA TalkStart ==
    ASSUME TalkInit
    PROVE  TalkInv
<1>1. Init /\ wire = <<>> /\ read = 0 /\ asked = {} /\ open = None /\ reply = NoReply
      /\ buffered = 0 /\ heard = 0 /\ floor = 0 /\ reported = FALSE /\ cutAt = EmptyMap
  BY DEF TalkInit
<1>2. /\ out = <<>> /\ tasks = <<>> /\ gen = 0 /\ judging = {} /\ userText = None /\ expected = None
      /\ chunkText = EmptyMap /\ parts = {} /\ spoken = {} /\ pending = EmptyMap /\ failed = EmptyMap
      /\ nextSeq = 0 /\ emitted = 0
  BY <1>1 DEF Init
<1>3. Len(out) = 0 /\ Len(tasks) = 0 /\ Len(wire) = 0
  BY <1>1, <1>2
<1>4. \A k : k \notin 1 .. 0
  OBVIOUS
<1>5. Taps(wire) = 0
  <2>1. {k \in 1 .. Len(wire) : wire[k].kind = "interrupt"} = {}
    BY <1>3, <1>4
  <2> QED
    BY <2>1, FS_EmptySet DEF Taps
<1>6. TalkTypes
  <2>1. TypeOK
    BY <1>1, TypeInit
  <2>2. wire \in Seq(Wire)
    BY <1>1
  <2>3. DOMAIN cutAt = {} /\ cutAt \in [DOMAIN cutAt -> Nat]
    BY <1>1 DEF EmptyMap
  <2>4. floor = gen + Taps(wire) /\ read \in 0 .. Len(out)
    BY <1>1, <1>2, <1>3, <1>5
  <2>5. /\ buffered \in Nat /\ heard \in Nat /\ reported \in BOOLEAN
        /\ \A i \in 1 .. Len(tasks) : tasks[i].gen <= gen
    BY <1>1, <1>3, <1>4
  <2> QED
    BY <1>1, <1>2, <2>1, <2>2, <2>3, <2>4, <2>5 DEF TalkTypes
<1>7. AtRest
  BY <1>2, <1>3, <1>4 DEF AtRest
<1>8. Kept(out, cutAt) /\ TurnsInv
  BY <1>3, <1>4 DEF Kept, TurnsInv
<1>9. RepliesInv /\ TextsInv /\ TapsInv
  BY <1>3, <1>4 DEF RepliesInv, ReplyFrame, TextsInv, TextFrame, TapsInv
<1>10. Away
  <2>1. UnreadCut(Len(out) + 1)
    BY <1>1, <1>3 DEF UnreadCut
  <2> QED
    BY <1>1, <1>2, <1>3, <1>4, <2>1 DEF Away
<1> QED
  BY <1>6, <1>7, <1>8, <1>9, <1>10 DEF TalkInv, SessionInv, ClientInv

LEMMA TalkStep ==
    ASSUME Said = {}, CountSent, TalkInv, [TalkNext]_talkVars
    PROVE  TalkInv'
<1>1. ASSUME NEW u \in Utterances, Type(u) PROVE TalkInv'
  BY <1>1, TypeStep
<1>2. ASSUME NEW u \in Utterances, Say(u) PROVE TalkInv'
  BY <1>2 DEF Say
<1>3. ASSUME Tap PROVE TalkInv'
  BY <1>3, TapStep
<1>4. ASSUME SendChunk PROVE TalkInv'
  BY <1>4, SendChunkStep
<1>5. ASSUME SendEnd PROVE TalkInv'
  BY <1>5, SendEndStep
<1>6. ASSUME Render \/ Silence PROVE TalkInv'
  BY <1>6, PlayStep
<1>7. ASSUME Read PROVE TalkInv'
  BY <1>7, ReadStep
<1>8. ASSUME Receive PROVE TalkInv'
  BY <1>8, ReceiveCases, TextStep, SpeakStep, EndStep, SpeakingStep, InterruptStep
<1>9. ASSUME Verdict PROVE TalkInv'
  BY <1>9 DEF Verdict, TalkInv, TalkTypes
<1>10. ASSUME SessionSynth PROVE TalkInv'
  BY <1>10, SynthStep
<1>11. ASSUME UNCHANGED talkVars PROVE TalkInv'
  BY <1>11, IdleStep
<1> QED
  BY <1>1, <1>2, <1>3, <1>4, <1>5, <1>6, <1>7, <1>8, <1>9, <1>10, <1>11
  DEF TalkNext, User, Client

-----------------------------------------------------------------------------
(* What user and client may rely on.                                       *)

LEMMA LastTurn ==
    ASSUME out \in Seq(Event), NEW i \in 1 .. Len(out), NEW t \in Nat, OpenAt(out, t, i)
    PROVE  TurnBefore(i) = t /\ t \in 1 .. (i - 1)
<1> DEFINE turns == {j \in 1 .. (i - 1) : out[j].kind = "turn"}
<1>1. i \in Nat /\ Len(out) \in Nat
  BY LenProperties
<1>2. t \in turns /\ \A k \in turns : k <= t
  BY <1>1 DEF OpenAt
<1>3. TurnBefore(i) = CHOOSE j \in turns : \A k \in turns : k <= j
  BY <1>2 DEF TurnBefore
<1>4. \A j \in turns : (\A k \in turns : k <= j) => j = t
  BY <1>1, <1>2
<1> HIDE DEF turns
<1>5. TurnBefore(i) = t
  BY <1>2, <1>3, <1>4
<1> QED
  BY <1>5 DEF OpenAt

LEMMA KeptProperties ==
    ASSUME TalkInv
    PROVE  AnswersItsOwnTurn /\ EveryChunkAccounted /\ CutRecordIsHeard
<1>1. out \in Seq(Event) /\ DOMAIN out = 1 .. Len(out)
  BY LenProperties DEF TalkInv, TalkTypes, TypeOK
<1>2. \A i \in DOMAIN out : AudioOK(out, i) /\ CompleteOK(out, i) /\ CutOK(out, i, cutAt)
  BY <1>1 DEF TalkInv, Kept
<1>3. AnswersItsOwnTurn
  <2>1. ASSUME NEW i \in DOMAIN out, out[i].kind = "audio"
        PROVE  TurnBefore(i) # 0 /\ out[i].chunk[1] = out[TurnBefore(i)].user
    <3>1. PICK t \in Nat : OpenAt(out, t, i) /\ out[i].chunk[1] = out[t].user
      BY <1>2, <2>1 DEF AudioOK
    <3>2. TurnBefore(i) = t /\ t # 0
      BY <1>1, <3>1, LastTurn
    <3> QED
      BY <3>1, <3>2
  <2> QED
    BY <2>1 DEF AnswersItsOwnTurn
<1>4. EveryChunkAccounted
  <2> SUFFICES ASSUME NEW i \in DOMAIN out, out[i].kind = "complete"
               PROVE  LET told   == {j \in TurnBefore(i) .. (i - 1) :
                                        j > 0 /\ out[j].kind \in {"audio", "dropped"}}
                          played == {j \in told : out[j].kind = "audio"}
                      IN  /\ out[i].chunks = Cardinality(played)
                          /\ ~out[i].interrupted =>
                                 {out[j].seq : j \in told} = 0 .. (ReplyLen[out[i].user] - 1)
    BY DEF EveryChunkAccounted
  <2> DEFINE told   == {j \in TurnBefore(i) .. (i - 1) : j > 0 /\ out[j].kind \in {"audio", "dropped"}}
             played == {j \in told : out[j].kind = "audio"}
  <2>1. PICK t \in Nat :
          /\ OpenAt(out, t, i)
          /\ out[i].chunks = Cardinality({j \in t .. (i - 1) : out[j].kind = "audio"})
          /\ ~out[i].interrupted =>
                {out[j].seq : j \in {j \in t .. (i - 1) : Reported(out[j])}}
                    = 0 .. (ReplyLen[out[i].user] - 1)
    BY <1>2 DEF CompleteOK
  <2>2. TurnBefore(i) = t /\ t \in 1 .. (i - 1)
    BY <1>1, <2>1, LastTurn
  <2>3. i \in Nat /\ \A j \in t .. (i - 1) : j > 0
    BY <1>1, <2>2
  <2>4. told = {j \in t .. (i - 1) : Reported(out[j])}
    BY <2>2, <2>3 DEF Reported
  <2>5. played = {j \in t .. (i - 1) : out[j].kind = "audio"}
    BY <2>4 DEF Reported
  <2> HIDE DEF told, played
  <2>6. /\ out[i].chunks = Cardinality(played)
        /\ ~out[i].interrupted => {out[j].seq : j \in told} = 0 .. (ReplyLen[out[i].user] - 1)
    BY <2>1, <2>4, <2>5
  <2> QED
    BY <2>6 DEF told, played
<1>5. CutRecordIsHeard
  <2>1. ASSUME NEW i \in DOMAIN out, out[i].kind = "complete", out[i].interrupted
        PROVE  /\ out[i].user \in DOMAIN cutAt
               /\ Cardinality(out[i].assistant) <= cutAt[out[i].user]
    BY <1>2, <2>1 DEF CutOK
  <2>2. ASSUME NEW i \in DOMAIN out, out[i].kind = "complete", out[i].interrupted,
               NEW c \in out[i].assistant
        PROVE  \E j \in TurnBefore(i) .. (i - 1) :
                  j > 0 /\ out[j].kind = "audio" /\ out[j].chunk = c
    <3>1. PICK t \in Nat, j \in Nat : /\ OpenAt(out, t, i) /\ j \in t .. (i - 1)
                                      /\ out[j].kind = "audio" /\ out[j].chunk = c
      BY <1>2, <2>2 DEF CutOK
    <3>2. TurnBefore(i) = t /\ t \in 1 .. (i - 1)
      BY <1>1, <3>1, LastTurn
    <3>3. j > 0
      BY <3>1, <3>2
    <3> QED
      BY <3>1, <3>2, <3>3
  <2> QED
    BY <2>1, <2>2 DEF CutRecordIsHeard
<1> QED
  BY <1>3, <1>4, <1>5

LEMMA TalkAlways ==
    ASSUME Said = {}, CountSent
    PROVE  TalkSpec => []TalkInv
<1>1. TalkInit => TalkInv
  BY TalkStart
<1>2. TalkInv /\ [TalkNext]_talkVars => TalkInv'
  BY TalkStep
<1> QED
  BY <1>1, <1>2, PTL DEF TalkSpec

\* A client who types hears, in a turn, the reply to that turn: no audio of a
\* reply that was cut, whatever the socket still carried when the user tapped.
THEOREM TypedAnswersItsOwnTurn ==
    ASSUME Said = {}, CountSent
    PROVE  TalkSpec => []AnswersItsOwnTurn
<1>1. TalkSpec => []TalkInv
  BY TalkAlways
<1>2. TalkInv => AnswersItsOwnTurn
  BY KeptProperties
<1> QED
  BY <1>1, <1>2, PTL

\* The TurnComplete of a typed turn counts the clips played in it, and that of a
\* turn nobody cut comes after every chunk of its reply was played or dropped.
THEOREM TypedEveryChunkAccounted ==
    ASSUME Said = {}, CountSent
    PROVE  TalkSpec => []EveryChunkAccounted
<1>1. TalkSpec => []TalkInv
  BY TalkAlways
<1>2. TalkInv => EveryChunkAccounted
  BY KeptProperties
<1> QED
  BY <1>1, <1>2, PTL

\* The record of a typed turn the user cut has no more chunks than the client had
\* rendered when he tapped, all of them played in that turn.
THEOREM TypedCutRecordIsHeard ==
    ASSUME Said = {}, CountSent
    PROVE  TalkSpec => []CutRecordIsHeard
<1>1. TalkSpec => []TalkInv
  BY TalkAlways
<1>2. TalkInv => CutRecordIsHeard
  BY KeptProperties
<1> QED
  BY <1>1, <1>2, PTL

=============================================================================
