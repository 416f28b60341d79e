--------------------------- MODULE LiveTurnsProofs ---------------------------
(***************************************************************************)
(* Proofs about LiveTurns, for any number of fragments, questions and      *)
(* frames: the type invariant, that pending text always has the timer that *)
(* will commit it, and that what the client sees of a guess is in order,   *)
(* whole, and was heard.                                                   *)
(***************************************************************************)
EXTENDS LiveTurns, TLAPS

\* A speculation is a question already asked; what a handler is about to merge
\* is not empty.
GuessIsAsked == spec # None => answers[spec].state # "unused"
MergesHaveText == \A h \in handlers : h.at = "merge" => h.text # <<>>

IInv == TypeOK /\ PendingTextHasTimer /\ GuessIsAsked /\ MergesHaveText

USE FragmentsAssumption, FramesAssumption, FlagAssumption, NoneAssumption DEF pending

LEMMA InitInv == Init => IInv
  BY DEF Init, IInv, TypeOK, PendingTextHasTimer, GuessIsAsked,
         MergesHaveText, Unused, AnswerRecord, Texts, Frames

\* Cancelling changes states only, and never to or from "unused".
LEMMA CancelledKeeps ==
    ASSUME NEW as \in [Questions -> AnswerRecord], NEW qs
    PROVE  /\ Cancelled(as, qs) \in [Questions -> AnswerRecord]
           /\ \A q \in Questions : /\ Cancelled(as, qs)[q].text = as[q].text
                                   /\ Cancelled(as, qs)[q].made = as[q].made
                                   /\ (Cancelled(as, qs)[q].state = "unused") <=> (as[q].state = "unused")
  BY DEF Cancelled, AnswerRecord

\* A spare question id is one nobody asked under.
LEMMA NewQidIsUnused ==
    ASSUME Spare PROVE NewQid \in Questions /\ answers[NewQid].state = "unused"
  BY DEF Spare, Asked, NewQid

LEMMA AppendFrame ==
    ASSUME NEW s \in Frames, NEW e \in 1 .. NFrames PROVE Append(s, e) \in Frames
  BY DEF Frames

\* An answer as it begins, of a question or of a guess.
Begun(text, b) == IF b THEN Guessed ELSE Started(text)

LEMMA StartedIsRecord ==
    ASSUME NEW text \in Texts
    PROVE  /\ Started(text) \in AnswerRecord /\ Started(text).state = "running"
           /\ Guessed \in AnswerRecord /\ Guessed.state = "running"
<1>1. Unused \in AnswerRecord
  BY DEF Unused, AnswerRecord, Texts, Frames
<1> QED
  BY <1>1 DEF Started, Guessed, AnswerRecord

-----------------------------------------------------------------------------
(* One lemma per action or kind of action.                                 *)

\* The segmenter's own steps leave the turn alone.
LEMMA HearingInv ==
    ASSUME IInv,
           \/ Speak \/ SpawnPartial \/ PartialHeard \/ Finalize
           \/ \E f \in Fragments : NotUnderstood(f)
    PROVE  IInv'
<1> USE DEF IInv
<1>1. TypeOK'
  BY DEF TypeOK, Speak, SpawnPartial, PartialHeard, Finalize, NotUnderstood, Idle, Fragments
<1>2. PendingTextHasTimer' /\ GuessIsAsked' /\ MergesHaveText'
  BY DEF PendingTextHasTimer, GuessIsAsked, MergesHaveText,
         Speak, SpawnPartial, PartialHeard, Finalize, NotUnderstood
<1>3. QED
  BY <1>1, <1>2

LEMMA AnswerInv ==
    ASSUME IInv, NEW q \in Questions, Answer(q)
    PROVE  IInv'
<1> USE DEF IInv
<1>1. CASE Produce(q)
  <2> DEFINE a == answers[q]
             s == IF a.live THEN Append(a.shown, a.made + 1) ELSE a.shown
  <2>1. answers' \in [Questions -> AnswerRecord]
    <3>1. a \in AnswerRecord
      BY DEF TypeOK
    <3>2. a.made + 1 \in 1 .. NFrames /\ a.made + 1 \in 0 .. NFrames /\ a.shown \in Frames
      BY <1>1, <3>1 DEF Produce, AnswerRecord
    <3>3. s \in Frames
      <4>1. Append(a.shown, a.made + 1) \in Frames
        BY <3>2, AppendFrame
      <4>2. QED
        BY <4>1, <3>2
    <3>4. [a EXCEPT !.made = @ + 1, !.shown = s] \in AnswerRecord
      BY <3>1, <3>2, <3>3 DEF AnswerRecord
    <3>5. answers' = [answers EXCEPT ![q] = [a EXCEPT !.made = @ + 1, !.shown = s]]
      BY <1>1, <3>1 DEF Produce, TypeOK, AnswerRecord
    <3>6. QED
      BY <3>4, <3>5 DEF TypeOK
  <2>2. TypeOK'
    BY <1>1, <2>1 DEF Produce, TypeOK, hearing
  <2>3. \A r \in Questions : answers'[r].text = answers[r].text /\ answers'[r].state = answers[r].state
    BY <1>1 DEF Produce, TypeOK, AnswerRecord
  <2>4. QED
    BY <1>1, <2>2, <2>3 DEF Produce, PendingTextHasTimer, GuessIsAsked,
                            MergesHaveText, TypeOK, hearing
<1>2. CASE Finish(q)
  <2>1. answers' \in [Questions -> AnswerRecord]
    BY <1>2 DEF Finish, TypeOK, AnswerRecord
  <2>2. TypeOK'
    BY <1>2, <2>1 DEF Finish, TypeOK, hearing
  <2>3. \A r \in Questions : /\ answers'[r].text = answers[r].text
                             /\ answers[r].state # "unused" => answers'[r].state # "unused"
    BY <1>2 DEF Finish, TypeOK, AnswerRecord
  <2>4. QED
    BY <1>2, <2>2, <2>3 DEF Finish, PendingTextHasTimer, GuessIsAsked,
                            MergesHaveText, TypeOK, hearing
<1>3. QED
  BY <1>1, <1>2 DEF Answer

LEMMA PartialSentInv ==
    ASSUME IInv, PartialSent
    PROVE  IInv'
<1> USE DEF IInv
<1>1. /\ UNCHANGED <<connected, spoken, buffered, stt, handlers, parts, generation, stranded,
                     timers, last, dropped>>
      /\ partial' \in [frag : 0 .. NFragments, at : {"idle", "stt", "send"}]
      /\ partial'.at = "idle"
  BY DEF PartialSent, Idle, TypeOK, pending
<1>2. CASE UNCHANGED <<spec, answers>>
  BY <1>1, <1>2 DEF TypeOK, PendingTextHasTimer, GuessIsAsked, MergesHaveText
<1>3. CASE Speculate
  <2>1. NewQid \in Questions /\ answers[NewQid].state = "unused"
    BY <1>3, NewQidIsUnused DEF Speculate
  <2>2. Guessed \in AnswerRecord /\ Guessed.state = "running"
    BY StartedIsRecord DEF TypeOK
  <2>3. /\ answers' \in [Questions -> AnswerRecord]
        /\ answers'[spec'] = Guessed
    BY <1>3, <2>1, <2>2, CancelledKeeps DEF TypeOK, Speculate
  <2>4. TypeOK'
    BY <1>1, <1>3, <2>1, <2>3 DEF TypeOK, Speculate
  <2>5. GuessIsAsked'
    BY <2>2, <2>3 DEF GuessIsAsked
  <2>6. QED
    BY <1>1, <2>4, <2>5 DEF PendingTextHasTimer, MergesHaveText
<1>4. QED
  BY <1>2, <1>3 DEF PartialSent

\* The end of a handler, with what the statements before it left: cur, the
\* speculation; as, the answers; ts, the settle tasks; others, the handlers.
\* A handler that ends while text is pending says so if it leaves no timer.
LEMMA GuessRightInv ==
    ASSUME IInv, NEW f \in Fragments, NEW text \in Texts, NEW cur \in {spec, None},
           NEW others \in SUBSET handlers, NEW left,
           GuessRight(f, text, cur, answers, timers, left, others),
           \/ left = stranded /\ others = handlers
           \/ left = Untimed,
           stt' \subseteq Fragments,
           UNCHANGED <<connected, spoken, buffered, partial, dropped>>
    PROVE  IInv'
<1> USE DEF IInv
<1> DEFINE h == [frag |-> f, text |-> text, at |-> "flush", qid |-> cur, sent |-> 0]
           a == [answers[cur] EXCEPT !.text = text]
<1>1. /\ cur \in Questions /\ answers[cur] \in AnswerRecord
      /\ spec' = None /\ last' = [qid |-> cur, text |-> text]
      /\ handlers' = others \cup {h} /\ timers' = timers /\ stranded' = left
      /\ UNCHANGED <<parts, generation>>
  BY DEF GuessRight, TypeOK
<1>2. answers' = [answers EXCEPT ![cur] = a] /\ a \in AnswerRecord
  BY <1>1 DEF GuessRight, TypeOK, AnswerRecord
<1>3. h \in HandlerRecord /\ h.at = "flush"
  BY <1>1 DEF HandlerRecord
<1>4. answers' \in [Questions -> AnswerRecord] /\ left \subseteq Fragments
  BY <1>1, <1>2 DEF TypeOK, Untimed, Texts, Range
<1> HIDE DEF h, a
<1>5. TypeOK'
  BY <1>1, <1>3, <1>4 DEF TypeOK
<1>6. PendingTextHasTimer'
  BY <1>1 DEF PendingTextHasTimer, Untimed
<1>7. GuessIsAsked' /\ MergesHaveText'
  BY <1>1, <1>3 DEF GuessIsAsked, MergesHaveText
<1> QED
  BY <1>5, <1>6, <1>7

LEMMA GuessWrongInv ==
    ASSUME IInv, NEW text \in Texts, NEW cur,
           NEW as \in [Questions -> AnswerRecord], NEW ts \in SUBSET Nat,
           NEW commit \in {last, None}, NEW others \in SUBSET handlers,
           GuessWrong(text, cur, as, ts, commit, others),
           stt' \subseteq Fragments,
           UNCHANGED <<connected, spoken, buffered, partial, dropped>>
    PROVE  IInv'
<1> USE DEF IInv
<1>1. /\ spec' = None /\ last' = commit /\ answers' = Cancelled(as, {cur})
      /\ Join(text, ts) /\ handlers' = others
  BY DEF GuessWrong
<1>2. answers' \in [Questions -> AnswerRecord]
  BY <1>1, CancelledKeeps
<1>3. parts' \in Texts /\ stranded' = {}
  BY <1>1 DEF Join, TypeOK, Texts
<1>4. generation' \in Nat /\ timers' \subseteq Nat /\ generation' \in timers'
  BY <1>1 DEF Join, TypeOK
<1>5. TypeOK'
  BY <1>1, <1>2, <1>3, <1>4 DEF TypeOK
<1>6. PendingTextHasTimer' /\ GuessIsAsked' /\ MergesHaveText'
  BY <1>1, <1>4 DEF PendingTextHasTimer, GuessIsAsked, MergesHaveText
<1> QED
  BY <1>5, <1>6

LEMMA UnderstoodInv ==
    ASSUME IInv, NEW f \in Fragments, NEW correction \in BOOLEAN, Understood(f, correction)
    PROVE  IInv'
<1> USE DEF IInv
<1> DEFINE cur == IF correction THEN None ELSE spec
           as  == IF correction THEN Cancelled(answers, Questions) ELSE answers
           ts  == IF correction THEN {} ELSE timers
<1>1. as \in [Questions -> AnswerRecord] /\ ts \in SUBSET Nat
  BY CancelledKeeps DEF TypeOK
<1>2. stt' \subseteq Fragments /\ UNCHANGED <<connected, spoken, buffered, partial, dropped>>
  BY DEF Understood, TypeOK
<1>3. <<f>> \in Texts
  BY DEF Texts
<1>4. CASE Continues(f, as, ts)
  <2> DEFINE text == last.text \o <<f>>
             h == [frag |-> f, text |-> text, at |-> "merge", qid |-> last.qid, sent |-> 0]
  <2>1. last.qid \in Questions /\ last.text \in Texts
    BY <1>4 DEF Continues, TypeOK
  <2>2. text \in Texts /\ text # <<>>
    BY <2>1 DEF Texts
  <2>3. h \in HandlerRecord
    BY <2>1, <2>2 DEF HandlerRecord
  <2>4. answers' \in [Questions -> AnswerRecord]
    BY <1>1, <1>4, CancelledKeeps DEF Continues
  <2>5. /\ handlers' = handlers \cup {h} /\ spec' = None /\ timers' = ts
        /\ UNCHANGED <<last, parts, generation, stranded>>
    BY <1>4 DEF Continues, pending
  <2> HIDE DEF ts
  <2>6. TypeOK'
    BY <1>1, <1>2, <2>3, <2>4, <2>5 DEF TypeOK
  <2>7. PendingTextHasTimer'
    <3>1. h \in handlers' /\ h.at = "merge"
      BY <2>5
    <3>2. QED
      BY <3>1 DEF PendingTextHasTimer
  <2>8. GuessIsAsked' /\ MergesHaveText'
    BY <2>2, <2>5 DEF GuessIsAsked, MergesHaveText
  <2>9. QED
    BY <2>6, <2>7, <2>8
<1>5. CASE GuessRight(f, <<f>>, cur, as, ts, stranded, handlers)
  <2>1. cur # None
    BY <1>5 DEF GuessRight
  <2>2. ~correction /\ cur = spec
    BY <2>1
  <2>3. GuessRight(f, <<f>>, spec, answers, timers, stranded, handlers)
    BY <1>5, <2>2
  <2>4. QED
    BY <1>2, <1>3, <2>3, GuessRightInv
<1>6. CASE GuessWrong(<<f>>, cur, as, ts, last, handlers)
  <2> HIDE DEF ts, as, cur
  <2>1. QED
    BY <1>1, <1>2, <1>3, <1>6, GuessWrongInv
<1>7. QED
  BY <1>4, <1>5, <1>6 DEF Understood

LEMMA SuppressedInv ==
    ASSUME IInv, NEW f \in Fragments, Suppressed(f)
    PROVE  IInv'
<1> USE DEF IInv
<1>1. answers' \in [Questions -> AnswerRecord]
  BY CancelledKeeps DEF Suppressed, TypeOK
<1>2. TypeOK'
  BY <1>1 DEF Suppressed, TypeOK
<1>3. QED
  BY <1>2 DEF Suppressed, PendingTextHasTimer, GuessIsAsked, MergesHaveText

LEMMA HandleInv ==
    ASSUME IInv, NEW h \in handlers, Handle(h)
    PROVE  IInv'
<1> USE DEF IInv
<1>0. h \in HandlerRecord
  BY DEF TypeOK
<1>1. CASE Merged(h)
  <2> DEFINE others == handlers \ {h}
  <2>1. h.frag \in Fragments /\ h.text \in Texts
    BY <1>0 DEF HandlerRecord
  <2>2. answers \in [Questions -> AnswerRecord] /\ timers \in SUBSET Nat
    BY DEF TypeOK
  <2>3. stt' \subseteq Fragments /\ UNCHANGED <<connected, spoken, buffered, partial, dropped>>
    BY <1>1 DEF Merged, hearing, TypeOK
  <2>4. \/ GuessRight(h.frag, h.text, spec, answers, timers, Untimed, others)
        \/ GuessWrong(h.text, spec, answers, timers, None, others)
    BY <1>1 DEF Merged
  <2>5. None \in {last, None} /\ spec \in {spec, None} /\ others \in SUBSET handlers
    OBVIOUS
  <2> HIDE DEF others
  <2>6. CASE GuessRight(h.frag, h.text, spec, answers, timers, Untimed, others)
    BY <2>1, <2>3, <2>5, <2>6, GuessRightInv
  <2>7. CASE GuessWrong(h.text, spec, answers, timers, None, others)
    BY <2>1, <2>2, <2>3, <2>5, <2>7, GuessWrongInv
  <2>8. QED
    BY <2>4, <2>6, <2>7
<1>2. CASE Flush(h)
  <2> DEFINE a == answers[h.qid]
             g == [h EXCEPT !.sent = @ + 1]
             s == Append(a.shown, h.sent + 1)
  <2>1. a \in AnswerRecord /\ h.qid \in Questions
    BY <1>0 DEF TypeOK, HandlerRecord
  <2>2. h.sent + 1 \in 1 .. NFrames /\ h.sent + 1 \in 0 .. NFrames /\ a.shown \in Frames
    BY <1>0, <1>2, <2>1 DEF Flush, HandlerRecord, AnswerRecord
  <2>3. s \in Frames
    BY <2>2, AppendFrame
  <2>4. [a EXCEPT !.shown = s] \in AnswerRecord
    BY <2>1, <2>3 DEF AnswerRecord
  <2>5. answers' = [answers EXCEPT ![h.qid] = [a EXCEPT !.shown = s]]
    BY <1>2, <2>1 DEF Flush, TypeOK, AnswerRecord
  <2>6. answers' \in [Questions -> AnswerRecord]
    BY <2>4, <2>5 DEF TypeOK
  <2>7. \A q \in Questions : answers'[q].text = answers[q].text /\ answers'[q].state = answers[q].state
    BY <2>1, <2>5 DEF TypeOK, AnswerRecord
  <2>8. g \in HandlerRecord /\ g.at = "flush"
    BY <1>0, <1>2, <2>2 DEF Flush, HandlerRecord
  <2>9. TypeOK'
    BY <1>2, <2>6, <2>8 DEF Flush, TypeOK, hearing
  <2>10. PendingTextHasTimer'
    BY <1>2, <2>8 DEF Flush, PendingTextHasTimer, hearing
  <2>11. GuessIsAsked'
    BY <1>2, <2>7 DEF Flush, GuessIsAsked, TypeOK
  <2>12. MergesHaveText'
    BY <1>2, <2>8 DEF Flush, MergesHaveText
  <2>13. QED
    BY <2>9, <2>10, <2>11, <2>12
<1>3. CASE Flushed(h)
  <2>1. answers' \in [Questions -> AnswerRecord]
    <3>1. h.qid \in Questions /\ answers[h.qid] \in AnswerRecord
      BY <1>0 DEF TypeOK, HandlerRecord
    <3>2. [answers[h.qid] EXCEPT !.live = TRUE] \in AnswerRecord
      BY <3>1 DEF AnswerRecord
    <3>3. answers' = [answers EXCEPT ![h.qid] = [answers[h.qid] EXCEPT !.live = TRUE]]
      BY <1>3, <3>1 DEF Flushed, TypeOK, AnswerRecord
    <3>4. QED
      BY <3>2, <3>3 DEF TypeOK
  <2>2. \A q \in Questions : answers'[q].text = answers[q].text /\ answers'[q].state = answers[q].state
    BY <1>3 DEF Flushed, TypeOK, AnswerRecord
  <2>3. TypeOK'
    BY <1>3, <2>1 DEF Flushed, TypeOK, hearing
  <2>4. PendingTextHasTimer'
    BY <1>3 DEF Flushed, PendingTextHasTimer, hearing
  <2>5. GuessIsAsked'
    BY <1>3, <2>2 DEF Flushed, GuessIsAsked, TypeOK
  <2>6. MergesHaveText'
    BY <1>3 DEF Flushed, MergesHaveText, hearing
  <2>7. QED
    BY <2>3, <2>4, <2>5, <2>6
<1>4. QED
  BY <1>1, <1>2, <1>3 DEF Handle

LEMMA SettleInv ==
    ASSUME IInv, NEW g \in Nat, Settle(g)
    PROVE  IInv'
<1> USE DEF IInv
<1>1. CASE UNCHANGED <<parts, answers, last>> /\ (g # generation \/ parts = <<>>)
  BY <1>1 DEF Settle, TypeOK, hearing, PendingTextHasTimer, GuessIsAsked,
              MergesHaveText
<1>2. CASE /\ Spare /\ parts # <<>> /\ parts' = <<>>
           /\ answers' = [answers EXCEPT ![NewQid] = Started(parts)]
           /\ last' = [qid |-> NewQid, text |-> parts]
  <2>1. NewQid \in Questions /\ answers[NewQid].state = "unused"
    BY <1>2, NewQidIsUnused
  <2>2. Started(parts) \in AnswerRecord
    BY StartedIsRecord DEF TypeOK
  <2>3. answers' \in [Questions -> AnswerRecord]
    BY <1>2, <2>1, <2>2 DEF TypeOK
  <2>4. TypeOK'
    <3>1. parts' \in Texts /\ parts \in Texts /\ timers' \subseteq Nat
      BY <1>2 DEF Settle, TypeOK, Texts
    <3>2. last' \in [qid : Questions, text : Texts]
      BY <1>2, <2>1, <3>1
    <3>3. UNCHANGED <<connected, spoken, buffered, partial, stt, handlers, generation, stranded, spec, dropped>>
      BY DEF Settle, hearing
    <3>4. QED
      BY <2>3, <3>1, <3>2, <3>3 DEF TypeOK
  <2>5. GuessIsAsked'
    BY <1>2, <2>1 DEF Settle, GuessIsAsked, TypeOK
  <2>6. PendingTextHasTimer' /\ MergesHaveText'
    BY <1>2 DEF Settle, PendingTextHasTimer, MergesHaveText
  <2>7. QED
    BY <2>4, <2>5, <2>6
<1>3. QED
  BY <1>1, <1>2 DEF Settle, Superseded

LEMMA DisconnectInv ==
    ASSUME IInv, Disconnect
    PROVE  IInv'
<1> USE DEF IInv
<1>1. answers' \in [Questions -> AnswerRecord]
  BY CancelledKeeps DEF Disconnect, TypeOK
<1>2. <<>> \in Texts
  BY DEF Texts
<1>3. TypeOK'
  BY <1>1, <1>2 DEF Disconnect, TypeOK
<1>4. QED
  BY <1>3 DEF Disconnect, PendingTextHasTimer, GuessIsAsked, MergesHaveText

-----------------------------------------------------------------------------
(* What the client is shown of a speculation.                              *)

\* Every fragment is with the segmenter, with the recognizer, dropped or heard,
\* and a fragment that was heard stays heard.
FragmentsApart ==
    /\ stt \cup dropped \subseteq 1 .. spoken
    /\ stt \cap dropped = {}
    /\ buffered # None => buffered \in (1 .. spoken) \ (stt \cup dropped)

\* A text that was heard, fragment by fragment.
IsFrom(text, heard) == text # <<>> /\ Range(text) \subseteq heard

\* All text in hand was heard.
TextsHeard ==
    /\ Range(parts) \subseteq Heard
    /\ last # None => Range(last.text) \subseteq Heard
    /\ \A h \in handlers : Range(h.text) \subseteq Heard

GuessesHeard ==
    \A q \in Asked : (answers[q].guess /\ (answers[q].shown # <<>> \/ answers[q].live)) =>
        IsFrom(answers[q].text, Heard) /\ spec # q

\* The current speculation shows nothing.
SpecInv ==
    spec # None => /\ answers[spec].guess /\ ~answers[spec].live
                   /\ answers[spec].shown = <<>>

\* A handler that flushes a speculation is the only one, has sent what the
\* client has of it, and heard what it guessed.
FlushInv ==
    \A h \in handlers : h.at = "flush" =>
        /\ answers[h.qid].state # "unused" /\ answers[h.qid].guess
        /\ ~answers[h.qid].live /\ Len(answers[h.qid].shown) = h.sent
        /\ h.qid # spec
        /\ IsFrom(answers[h.qid].text, Heard)
        /\ \A g \in handlers : (g.at = "flush" /\ g.qid = h.qid) => g = h

ShownInv == FramesInOrder /\ GuessesHeard /\ SpecInv /\ FlushInv

InOrder(frames) == frames = [i \in 1 .. Len(frames) |-> i]

\* At most their states differ.
SameFrames(as) ==
    \A q \in Questions :
        /\ as[q].text = answers[q].text /\ (as[q].guess <=> answers[q].guess)
        /\ (as[q].live <=> answers[q].live) /\ as[q].made = answers[q].made
        /\ as[q].shown = answers[q].shown
        /\ (as[q].state = "unused") <=> (answers[q].state = "unused")

LEMMA CancelledSame ==
    ASSUME NEW as \in [Questions -> AnswerRecord], SameFrames(as), NEW qs
    PROVE  SameFrames(Cancelled(as, qs))
<1> SUFFICES ASSUME NEW q \in Questions
             PROVE  LET c == Cancelled(as, qs)[q]
                    IN  /\ c.text = as[q].text /\ (c.guess <=> as[q].guess)
                        /\ (c.live <=> as[q].live) /\ c.made = as[q].made
                        /\ c.shown = as[q].shown
                        /\ (c.state = "unused") <=> (as[q].state = "unused")
  BY DEF SameFrames
<1> DEFINE a == as[q]
<1>1. a \in AnswerRecord
  OBVIOUS
<1>2. \/ Cancelled(as, qs)[q] = a
      \/ a.state # "unused" /\ Cancelled(as, qs)[q] = [a EXCEPT !.state = "over"]
  BY DEF Cancelled
<1>3. CASE Cancelled(as, qs)[q] = a
  BY <1>3
<1>4. CASE a.state # "unused" /\ Cancelled(as, qs)[q] = [a EXCEPT !.state = "over"]
  BY <1>1, <1>4 DEF AnswerRecord
<1> QED
  BY <1>2, <1>3, <1>4

LEMMA HeardSame ==
    ASSUME FragmentsApart, UNCHANGED <<spoken, stt, dropped, buffered>>
    PROVE  FragmentsApart' /\ Heard' = Heard
  BY DEF FragmentsApart, Heard

\* What the client was shown, and of which question, stays as it was.
LEMMA ShownKept ==
    ASSUME TypeOK, ShownInv, SameFrames(answers'), spec' \in {spec, None},
           \A h \in handlers' : h.at = "flush" => h \in handlers,
           Heard \subseteq Heard'
    PROVE  ShownInv'
<1> USE DEF ShownInv, SameFrames
<1>1. FramesInOrder'
  BY DEF FramesInOrder, Asked
<1>2. GuessesHeard'
  <2>1. ASSUME NEW q \in Questions, answers'[q].state # "unused", answers'[q].guess,
               answers'[q].shown # <<>> \/ answers'[q].live
        PROVE  IsFrom(answers'[q].text, Heard') /\ spec' # q
    <3>1. q \in Asked /\ answers[q].guess /\ (answers[q].shown # <<>> \/ answers[q].live)
      BY <2>1 DEF Asked
    <3>2. IsFrom(answers[q].text, Heard) /\ spec # q
      BY <3>1 DEF GuessesHeard
    <3>3. answers'[q].text = answers[q].text /\ None # q
      BY DEF Questions
    <3> QED
      BY <3>2, <3>3 DEF IsFrom
  <2> QED
    BY <2>1 DEF GuessesHeard, Asked
<1>3. SpecInv'
  BY DEF SpecInv, TypeOK
<1>4. FlushInv'
  <2> SUFFICES ASSUME NEW h \in handlers', h.at = "flush"
               PROVE  /\ answers'[h.qid].state # "unused" /\ answers'[h.qid].guess
                      /\ ~answers'[h.qid].live /\ Len(answers'[h.qid].shown) = h.sent
                      /\ h.qid # spec'
                      /\ IsFrom(answers'[h.qid].text, Heard')
                      /\ \A g \in handlers' : (g.at = "flush" /\ g.qid = h.qid) => g = h
    BY DEF FlushInv
  <2>1. h \in handlers /\ h.qid \in Questions
    BY DEF TypeOK, HandlerRecord
  <2>2. /\ answers[h.qid].state # "unused" /\ answers[h.qid].guess
        /\ ~answers[h.qid].live /\ Len(answers[h.qid].shown) = h.sent
        /\ h.qid # spec
        /\ IsFrom(answers[h.qid].text, Heard)
        /\ \A g \in handlers : (g.at = "flush" /\ g.qid = h.qid) => g = h
    BY <2>1 DEF FlushInv
  <2>3. h.qid # spec' /\ answers'[h.qid].text = answers[h.qid].text
    BY <2>1, <2>2 DEF Questions
  <2>4. \A g \in handlers' : (g.at = "flush" /\ g.qid = h.qid) => g = h
    BY <2>2
  <2>5. IsFrom(answers'[h.qid].text, Heard')
    BY <2>2, <2>3 DEF IsFrom
  <2> QED
    BY <2>1, <2>2, <2>3, <2>4, <2>5
<1> QED
  BY <1>1, <1>2, <1>3, <1>4

LEMMA SameSame == ASSUME answers' = answers PROVE SameFrames(answers')
  BY DEF SameFrames

\* The segmenter and the recognizer.
LEMMA HearingShown ==
    ASSUME TypeOK, FragmentsApart, ShownInv,
           \/ Speak \/ SpawnPartial \/ PartialHeard \/ Finalize
           \/ \E f \in Fragments : NotUnderstood(f)
    PROVE  FragmentsApart' /\ ShownInv'
<1>1. FragmentsApart' /\ Heard \subseteq Heard'
  <2>1. CASE Speak
    BY <2>1 DEF Speak, FragmentsApart, Heard, TypeOK
  <2>2. CASE SpawnPartial \/ PartialHeard
    BY <2>2, HeardSame DEF SpawnPartial, PartialHeard
  <2>3. CASE Finalize
    BY <2>3 DEF Finalize, FragmentsApart, Heard, TypeOK
  <2>4. ASSUME NEW f \in Fragments, NotUnderstood(f)
        PROVE  FragmentsApart' /\ Heard \subseteq Heard'
    BY <2>4 DEF NotUnderstood, FragmentsApart, Heard, TypeOK
  <2> QED
    BY <2>1, <2>2, <2>3, <2>4
<1>2. UNCHANGED <<answers, spec, handlers>>
  BY DEF Speak, SpawnPartial, PartialHeard, Finalize, NotUnderstood
<1> QED
  BY <1>1, <1>2, SameSame, ShownKept

\* A fragment that was dropped, whatever it was taken for, was not heard.
LEMMA SuppressedShown ==
    ASSUME TypeOK, FragmentsApart, ShownInv, NEW f \in Fragments, Suppressed(f)
    PROVE  FragmentsApart' /\ ShownInv'
<1>1. FragmentsApart' /\ Heard \subseteq Heard'
  BY DEF Suppressed, FragmentsApart, Heard, TypeOK
<1>2. SameFrames(answers')
  BY CancelledSame, SameFrames(answers) DEF Suppressed, TypeOK, SameFrames
<1>3. spec' = None /\ handlers' = handlers
  BY DEF Suppressed
<1> QED
  BY <1>1, <1>2, <1>3, ShownKept

LEMMA DisconnectShown ==
    ASSUME TypeOK, FragmentsApart, ShownInv, Disconnect
    PROVE  FragmentsApart' /\ ShownInv'
<1>1. FragmentsApart' /\ Heard \subseteq Heard'
  BY DEF Disconnect, FragmentsApart, Heard, TypeOK
<1>2. SameFrames(answers')
  BY CancelledSame, SameFrames(answers) DEF Disconnect, TypeOK, SameFrames
<1>3. spec' = None /\ handlers' = {}
  BY DEF Disconnect
<1> QED
  BY <1>1, <1>2, <1>3, ShownKept

\* A question that nobody asked before adds nothing to what is shown.
LEMMA AddedShown ==
    ASSUME TypeOK, ShownInv, NEW as, SameFrames(as), as \in [Questions -> AnswerRecord],
           Spare, NEW text, NEW b \in BOOLEAN,
           answers' = [as EXCEPT ![NewQid] = Begun(text, b)],
           spec' = IF b THEN NewQid ELSE spec,
           handlers' = handlers, Heard' = Heard, GuessIsAsked
    PROVE  ShownInv'
<1> USE DEF ShownInv
<1> DEFINE n == NewQid
<1>1. n \in Questions /\ answers[n].state = "unused" /\ n # None
  BY NewQidIsUnused DEF Questions
<1>2. /\ answers'[n].guess <=> b
      /\ answers'[n].live <=> ~b
      /\ answers'[n].made = 0 /\ answers'[n].shown = <<>>
      /\ \A q \in Questions \ {n} : answers'[q] = as[q]
  BY <1>1 DEF Begun, Started, Guessed, Unused
<1> HIDE DEF n
<1>3. ASSUME NEW q \in Questions, q # n
      PROVE  /\ answers'[q].text = answers[q].text /\ (answers'[q].guess <=> answers[q].guess)
             /\ (answers'[q].live <=> answers[q].live) /\ answers'[q].made = answers[q].made
             /\ answers'[q].shown = answers[q].shown
             /\ (answers'[q].state = "unused") <=> (answers[q].state = "unused")
  <2>1. answers'[q] = as[q]
    BY <1>2, <1>3
  <2>2. /\ as[q].text = answers[q].text /\ (as[q].guess <=> answers[q].guess)
        /\ (as[q].live <=> answers[q].live) /\ as[q].made = answers[q].made
        /\ as[q].shown = answers[q].shown
        /\ (as[q].state = "unused") <=> (answers[q].state = "unused")
    BY DEF SameFrames
  <2> QED
    BY <2>1, <2>2
<1>4. FramesInOrder'
  <2>1. ASSUME NEW q \in Questions, answers'[q].state # "unused"
        PROVE  /\ InOrder(answers'[q].shown)
               /\ answers'[q].live => Len(answers'[q].shown) = answers'[q].made
    <3>1. CASE q = n
      <4>1. Len(<<>>) = 0 /\ <<>> = [i \in 1 .. 0 |-> i]
        OBVIOUS
      <4> QED
        BY <1>2, <3>1, <4>1 DEF InOrder
    <3>2. CASE q # n
      <4>1. q \in Asked
        BY <1>3, <2>1, <3>2 DEF Asked
      <4>2. InOrder(answers[q].shown) /\ (answers[q].live => Len(answers[q].shown) = answers[q].made)
        BY <4>1 DEF FramesInOrder, InOrder
      <4> QED
        BY <1>3, <3>2, <4>2
    <3> QED
      BY <3>1, <3>2
  <2> QED
    BY <2>1 DEF FramesInOrder, Asked, InOrder
<1>5. GuessesHeard'
  <2>1. ASSUME NEW q \in Questions, answers'[q].state # "unused", answers'[q].guess,
               answers'[q].shown # <<>> \/ answers'[q].live
        PROVE  IsFrom(answers'[q].text, Heard') /\ spec' # q
    <3>1. q # n
      BY <1>2, <2>1
    <3>2. q \in Asked /\ answers[q].guess /\ (answers[q].shown # <<>> \/ answers[q].live)
      BY <1>3, <2>1, <3>1 DEF Asked
    <3>3. IsFrom(answers[q].text, Heard) /\ spec # q
      BY <3>2 DEF GuessesHeard
    <3>4. answers'[q].text = answers[q].text
      BY <1>3, <3>1
    <3> QED
      BY <3>1, <3>3, <3>4 DEF n
  <2> QED
    BY <2>1 DEF GuessesHeard, Asked
<1>6. SpecInv'
  <2>1. CASE b
    BY <1>2, <2>1 DEF SpecInv, n
  <2>2. CASE ~b /\ spec # None
    <3>1. spec \in Questions /\ spec # n /\ spec' = spec
      BY <1>1, <2>2 DEF TypeOK, GuessIsAsked
    <3> QED
      BY <1>3, <2>2, <3>1 DEF SpecInv
  <2>3. CASE ~b /\ spec = None
    BY <2>3 DEF SpecInv
  <2> QED
    BY <2>1, <2>2, <2>3
<1>7. FlushInv'
  <2> SUFFICES ASSUME NEW h \in handlers, h.at = "flush"
               PROVE  /\ answers'[h.qid].state # "unused" /\ answers'[h.qid].guess
                      /\ ~answers'[h.qid].live /\ Len(answers'[h.qid].shown) = h.sent
                      /\ h.qid # spec'
                      /\ IsFrom(answers'[h.qid].text, Heard')
                      /\ \A g \in handlers : (g.at = "flush" /\ g.qid = h.qid) => g = h
    BY DEF FlushInv
  <2>1. h.qid \in Questions
    BY DEF TypeOK, HandlerRecord
  <2>2. /\ answers[h.qid].state # "unused" /\ answers[h.qid].guess
        /\ ~answers[h.qid].live /\ Len(answers[h.qid].shown) = h.sent
        /\ h.qid # spec
        /\ IsFrom(answers[h.qid].text, Heard)
        /\ \A g \in handlers : (g.at = "flush" /\ g.qid = h.qid) => g = h
    BY DEF FlushInv
  <2>3. h.qid # n
    BY <1>1, <2>2
  <2>4. answers'[h.qid].text = answers[h.qid].text
    BY <1>3, <2>1, <2>3
  <2>5. h.qid # spec'
    BY <2>2, <2>3 DEF n
  <2>6. /\ answers'[h.qid].state # "unused" /\ answers'[h.qid].guess
        /\ ~answers'[h.qid].live /\ Len(answers'[h.qid].shown) = h.sent
    BY <1>3, <2>1, <2>2, <2>3
  <2> QED
    BY <2>2, <2>4, <2>5, <2>6
<1> QED
  BY <1>4, <1>5, <1>6, <1>7

LEMMA PartialSentShown ==
    ASSUME IInv, FragmentsApart, ShownInv, PartialSent
    PROVE  FragmentsApart' /\ ShownInv'
<1>1. FragmentsApart' /\ Heard' = Heard /\ handlers' = handlers
  BY HeardSame DEF PartialSent
<1>2. CASE UNCHANGED <<spec, answers>>
  BY <1>1, <1>2, SameSame, ShownKept DEF IInv
<1>3. CASE Speculate
  <2> DEFINE as == Cancelled(answers, {spec})
  <2>1. SameFrames(as) /\ as \in [Questions -> AnswerRecord]
    BY CancelledKeeps, CancelledSame, SameFrames(answers) DEF IInv, TypeOK, SameFrames
  <2>2. Spare /\ spec' = NewQid /\ answers' = [as EXCEPT ![NewQid] = Begun(<<>>, TRUE)]
    BY <1>3 DEF Speculate, Begun
  <2> HIDE DEF as
  <2> QED
    BY <1>1, <2>1, <2>2, AddedShown DEF IInv
<1> QED
  BY <1>1, <1>2, <1>3 DEF PartialSent

LEMMA SettleShown ==
    ASSUME IInv, FragmentsApart, ShownInv, NEW g \in Nat, Settle(g)
    PROVE  FragmentsApart' /\ ShownInv'
<1>1. FragmentsApart' /\ Heard' = Heard /\ UNCHANGED <<handlers, spec>>
  BY HeardSame DEF Settle, hearing
<1>2. CASE answers' = answers
  BY <1>1, <1>2, SameSame, ShownKept DEF IInv
<1>3. CASE Spare /\ answers' = [answers EXCEPT ![NewQid] = Started(parts)]
  <2>1. SameFrames(answers) /\ answers \in [Questions -> AnswerRecord]
    BY DEF SameFrames, IInv, TypeOK
  <2>2. answers' = [answers EXCEPT ![NewQid] = Begun(parts, FALSE)]
    BY <1>3 DEF Begun
  <2> QED
    BY <1>1, <1>3, <2>1, <2>2, AddedShown DEF IInv
<1> QED
  BY <1>1, <1>2, <1>3 DEF Settle

\* A handler takes over the speculation for the text it heard, or gives it up.
LEMMA GuessRightShown ==
    ASSUME IInv, ShownInv, NEW f, NEW text, NEW left, NEW others \in SUBSET handlers,
           Heard \subseteq Heard', IsFrom(text, Heard'),
           GuessRight(f, text, spec, answers, timers, left, others)
    PROVE  ShownInv'
<1> DEFINE h == [frag |-> f, text |-> text, at |-> "flush", qid |-> spec, sent |-> 0]
<1>1. /\ spec \in Questions /\ spec # None /\ spec' = None
      /\ handlers' = others \cup {h}
      /\ answers' = [answers EXCEPT ![spec].text = text]
  BY DEF GuessRight, IInv, TypeOK
<1>2. /\ answers[spec].state # "unused" /\ answers[spec].guess /\ ~answers[spec].live
      /\ answers[spec].shown = <<>>
  BY <1>1 DEF ShownInv, SpecInv, IInv, GuessIsAsked
<1>3. ASSUME NEW q \in Questions
      PROVE  /\ answers'[q].text = IF q = spec THEN text ELSE answers[q].text
             /\ (answers'[q].guess <=> answers[q].guess)
             /\ (answers'[q].live <=> answers[q].live) /\ answers'[q].made = answers[q].made
             /\ answers'[q].shown = answers[q].shown /\ answers'[q].state = answers[q].state
  <2>1. answers[q] \in AnswerRecord /\ answers \in [Questions -> AnswerRecord]
    BY DEF IInv, TypeOK
  <2>2. answers'[q] = IF q = spec THEN [answers[q] EXCEPT !.text = text] ELSE answers[q]
    BY <1>1, <2>1
  <2> QED
    BY <2>1, <2>2 DEF AnswerRecord
<1> HIDE DEF h
<1>4. FramesInOrder'
  BY <1>3 DEF FramesInOrder, Asked, ShownInv
<1>5. GuessesHeard'
  <2>1. ASSUME NEW q \in Questions, answers'[q].state # "unused", answers'[q].guess,
               answers'[q].shown # <<>> \/ answers'[q].live
        PROVE  IsFrom(answers'[q].text, Heard') /\ spec' # q
    <3>1. q \in Asked /\ answers[q].guess /\ (answers[q].shown # <<>> \/ answers[q].live)
      BY <1>3, <2>1 DEF Asked
    <3>2. IsFrom(answers[q].text, Heard)
      BY <3>1 DEF ShownInv, GuessesHeard
    <3>3. IsFrom(answers'[q].text, Heard')
      BY <1>3, <3>2 DEF IsFrom
    <3> QED
      BY <1>1, <3>3 DEF Questions
  <2> QED
    BY <2>1 DEF GuessesHeard, Asked
<1>6. SpecInv'
  BY <1>1 DEF SpecInv
<1>7. FlushInv'
  <2>1. ASSUME NEW g \in others, g.at = "flush"
        PROVE  /\ g.qid \in Questions /\ g.qid # spec
               /\ answers[g.qid].state # "unused" /\ answers[g.qid].guess
               /\ ~answers[g.qid].live /\ Len(answers[g.qid].shown) = g.sent
               /\ IsFrom(answers[g.qid].text, Heard')
               /\ \A e \in others : (e.at = "flush" /\ e.qid = g.qid) => e = g
    <3>1. g \in handlers /\ g.qid \in Questions
      BY DEF IInv, TypeOK, HandlerRecord
    <3>2. IsFrom(answers[g.qid].text, Heard)
      BY <2>1, <3>1 DEF ShownInv, FlushInv
    <3>3. IsFrom(answers[g.qid].text, Heard')
      BY <3>2 DEF IsFrom
    <3> QED
      BY <2>1, <3>1, <3>3 DEF ShownInv, FlushInv
  <2>2. h.at = "flush" /\ h.qid = spec /\ h.sent = 0
    BY DEF h
  <2>3. ASSUME NEW g \in others \cup {h}, g.at = "flush"
        PROVE  /\ answers'[g.qid].state # "unused" /\ answers'[g.qid].guess
               /\ ~answers'[g.qid].live /\ Len(answers'[g.qid].shown) = g.sent
               /\ g.qid # None
               /\ IsFrom(answers'[g.qid].text, Heard')
               /\ \A e \in others \cup {h} : (e.at = "flush" /\ e.qid = g.qid) => e = g
    <3>1. CASE g = h
      <4>1. Len(<<>>) = 0
        OBVIOUS
      <4>2. \A e \in others \cup {h} : (e.at = "flush" /\ e.qid = g.qid) => e = g
        BY <2>1, <2>2, <3>1
      <4> QED
        BY <1>1, <1>2, <1>3, <2>2, <3>1, <4>1, <4>2
    <3>2. CASE g \in others /\ g # h
      <4>1. \A e \in others \cup {h} : (e.at = "flush" /\ e.qid = g.qid) => e = g
        BY <2>1, <2>2, <2>3, <3>2
      <4>2. g.qid \in Questions /\ g.qid # spec /\ g.qid # None
        BY <2>1, <2>3, <3>2 DEF Questions
      <4> QED
        BY <1>3, <2>1, <2>3, <3>2, <4>1, <4>2
    <3> QED
      BY <3>1, <3>2
  <2> QED
    BY <1>1, <2>3 DEF FlushInv
<1> QED
  BY <1>4, <1>5, <1>6, <1>7 DEF ShownInv

LEMMA GuessWrongShown ==
    ASSUME IInv, ShownInv, NEW text, NEW cur,
           NEW as \in [Questions -> AnswerRecord], SameFrames(as), NEW ts, NEW commit,
           NEW others \in SUBSET handlers, Heard \subseteq Heard',
           GuessWrong(text, cur, as, ts, commit, others)
    PROVE  ShownInv'
<1>1. answers' = Cancelled(as, {cur}) /\ handlers' = others /\ spec' = None
  BY DEF GuessWrong
<1>2. SameFrames(answers')
  BY <1>1, CancelledSame
<1> QED
  BY <1>1, <1>2, ShownKept DEF IInv

LEMMA UnderstoodShown ==
    ASSUME IInv, FragmentsApart, ShownInv,
           NEW f \in Fragments, NEW correction \in BOOLEAN, Understood(f, correction)
    PROVE  FragmentsApart' /\ ShownInv'
<1> DEFINE cur == IF correction THEN None ELSE spec
           as  == IF correction THEN Cancelled(answers, Questions) ELSE answers
           ts  == IF correction THEN {} ELSE timers
<1>1. as \in [Questions -> AnswerRecord] /\ SameFrames(as)
  BY CancelledKeeps, CancelledSame, SameFrames(answers) DEF IInv, TypeOK, SameFrames
<1>2. /\ f \in stt /\ stt' = stt \ {f} /\ UNCHANGED <<spoken, buffered, dropped>>
      /\ \/ Continues(f, as, ts)
         \/ GuessRight(f, <<f>>, cur, as, ts, stranded, handlers)
         \/ GuessWrong(<<f>>, cur, as, ts, last, handlers)
  BY DEF Understood
<1>3. FragmentsApart' /\ Heard \subseteq Heard' /\ f \in Heard'
  BY <1>2 DEF FragmentsApart, Heard, IInv, TypeOK
<1>4. CASE Continues(f, as, ts)
  <2> HIDE DEF as, ts, cur
  <2>1. /\ SameFrames(answers') /\ spec' = None
        /\ \A h \in handlers' : h.at = "flush" => h \in handlers
    <3>1. SameFrames(answers')
      BY <1>1, <1>4, CancelledSame DEF Continues
    <3>2. spec' = None /\ \E m : m.at = "merge" /\ handlers' = handlers \cup {m}
      BY <1>4 DEF Continues
    <3> QED
      BY <3>1, <3>2
  <2> QED
    BY <1>3, <2>1, ShownKept DEF IInv
<1>5. CASE GuessRight(f, <<f>>, cur, as, ts, stranded, handlers)
  <2>1. IsFrom(<<f>>, Heard')
    BY <1>3 DEF Range, IsFrom
  <2>2. cur # None
    BY <1>5 DEF GuessRight
  <2>3. ~correction /\ cur = spec
    BY <2>2
  <2>4. GuessRight(f, <<f>>, spec, answers, timers, stranded, handlers)
    BY <1>5, <2>3
  <2> QED
    BY <1>3, <2>1, <2>4, GuessRightShown
<1>6. CASE GuessWrong(<<f>>, cur, as, ts, last, handlers)
  <2> HIDE DEF as, ts, cur
  <2> QED
    BY <1>1, <1>3, <1>6, GuessWrongShown
<1> QED
  BY <1>2, <1>3, <1>4, <1>5, <1>6

LEMMA NextFrame ==
    ASSUME NEW s \in Frames, InOrder(s)
    PROVE  /\ InOrder(Append(s, Len(s) + 1)) /\ Len(Append(s, Len(s) + 1)) = Len(s) + 1
           /\ Append(s, Len(s) + 1) # <<>>
<1> DEFINE t == Append(s, Len(s) + 1)
<1>1. s \in Seq(Nat) /\ Len(s) \in Nat
  BY DEF Frames
<1>2. /\ t \in Seq(Nat) /\ Len(t) = Len(s) + 1 /\ DOMAIN t = 1 .. Len(s) + 1
      /\ t = [i \in 1 .. Len(s) + 1 |-> IF i <= Len(s) THEN s[i] ELSE Len(s) + 1]
  BY <1>1
<1>3. \A i \in 1 .. Len(s) : s[i] = i
  BY DEF InOrder
<1>4. t = [i \in 1 .. Len(s) + 1 |-> i]
  BY <1>1, <1>2, <1>3
<1> HIDE DEF t
<1>5. InOrder(t) /\ t # <<>>
  BY <1>1, <1>2, <1>4 DEF InOrder
<1> QED
  BY <1>2, <1>5 DEF t

\* The answer of q becomes r: more of it may be shown, in order, and of a
\* speculation only what was heard ...
Becomes(q, r) ==
    /\ answers' = [answers EXCEPT ![q] = r]
    /\ answers[q].state # "unused" /\ r.state # "unused"
    /\ answers[q].guess /\ r.guess /\ r.text = answers[q].text
    /\ InOrder(r.shown) /\ (r.live => Len(r.shown) = r.made)
    /\ (r.shown # <<>> \/ r.live) => IsFrom(r.text, Heard) /\ spec # q
    /\ spec = q => ~r.live /\ r.shown = <<>>

\* ... and the handlers that flush are one for each question still.
Flushers(q, r) ==
    \A h \in handlers' : h.at = "flush" =>
        /\ h.qid \in Questions
        /\ h.qid = q => /\ ~r.live /\ Len(r.shown) = h.sent /\ spec # q
                        /\ IsFrom(r.text, Heard)
        /\ h.qid # q => h \in handlers
        /\ \A g \in handlers' : (g.at = "flush" /\ g.qid = h.qid) => g = h

LEMMA OneChanged ==
    ASSUME TypeOK, ShownInv, NEW q \in Questions, NEW r, Becomes(q, r), Flushers(q, r),
           spec' = spec, Heard' = Heard
    PROVE  ShownInv'
<1> USE DEF ShownInv, Becomes, Flushers
<1>1. answers'[q] = r /\ \A p \in Questions \ {q} : answers'[p] = answers[p]
  BY DEF TypeOK
<1>2. FramesInOrder'
  <2>1. ASSUME NEW p \in Questions, answers'[p].state # "unused"
        PROVE  /\ InOrder(answers'[p].shown)
               /\ answers'[p].live => Len(answers'[p].shown) = answers'[p].made
    <3>1. CASE p = q
      BY <1>1, <3>1
    <3>2. CASE p # q
      <4>1. p \in Asked /\ answers'[p] = answers[p]
        BY <1>1, <2>1, <3>2 DEF Asked
      <4>2. InOrder(answers[p].shown) /\ (answers[p].live => Len(answers[p].shown) = answers[p].made)
        BY <4>1 DEF FramesInOrder, InOrder
      <4> QED
        BY <4>1, <4>2
    <3> QED
      BY <3>1, <3>2
  <2> QED
    BY <2>1 DEF FramesInOrder, Asked, InOrder
<1>3. GuessesHeard'
  <2>1. ASSUME NEW p \in Questions, answers'[p].state # "unused", answers'[p].guess,
               answers'[p].shown # <<>> \/ answers'[p].live
        PROVE  IsFrom(answers'[p].text, Heard') /\ spec' # p
    <3>1. CASE p = q
      BY <1>1, <2>1, <3>1
    <3>2. CASE p # q
      <4>1. p \in Asked /\ answers'[p] = answers[p]
        BY <1>1, <2>1, <3>2 DEF Asked
      <4> QED
        BY <2>1, <4>1 DEF GuessesHeard
    <3> QED
      BY <3>1, <3>2
  <2> QED
    BY <2>1 DEF GuessesHeard, Asked
<1>4. SpecInv'
  <2>1. ASSUME spec # None
        PROVE  answers'[spec].guess /\ ~answers'[spec].live /\ answers'[spec].shown = <<>>
    <3>1. spec \in Questions
      BY <2>1 DEF TypeOK
    <3>2. CASE spec = q
      BY <1>1, <3>2
    <3>3. CASE spec # q
      BY <1>1, <2>1, <3>1, <3>3 DEF SpecInv
    <3> QED
      BY <3>2, <3>3
  <2> QED
    BY <2>1 DEF SpecInv
<1>5. FlushInv'
  <2> SUFFICES ASSUME NEW h \in handlers', h.at = "flush"
               PROVE  /\ answers'[h.qid].state # "unused" /\ answers'[h.qid].guess
                      /\ ~answers'[h.qid].live /\ Len(answers'[h.qid].shown) = h.sent
                      /\ h.qid # spec'
                      /\ IsFrom(answers'[h.qid].text, Heard')
                      /\ \A g \in handlers' : (g.at = "flush" /\ g.qid = h.qid) => g = h
    BY DEF FlushInv
  <2>1. CASE h.qid = q
    BY <1>1, <2>1
  <2>2. CASE h.qid # q
    <3>1. h \in handlers /\ h.qid \in Questions /\ answers'[h.qid] = answers[h.qid]
      BY <1>1, <2>2
    <3>2. /\ answers[h.qid].state # "unused" /\ answers[h.qid].guess
          /\ ~answers[h.qid].live /\ Len(answers[h.qid].shown) = h.sent
          /\ h.qid # spec /\ IsFrom(answers[h.qid].text, Heard)
      BY <3>1 DEF FlushInv
    <3> QED
      BY <3>1, <3>2
  <2> QED
    BY <2>1, <2>2
<1> QED
  BY <1>2, <1>3, <1>4, <1>5

LEMMA AnswerShown ==
    ASSUME IInv, FragmentsApart, ShownInv, NEW q \in Questions, Answer(q)
    PROVE  FragmentsApart' /\ ShownInv'
<1>1. /\ FragmentsApart' /\ Heard' = Heard /\ UNCHANGED <<handlers, spec>>
      /\ answers[q].state = "running"
  BY HeardSame DEF Answer, Produce, Finish, hearing, Running
<1>2. TypeOK /\ answers[q] \in AnswerRecord
  BY DEF IInv, TypeOK
<1>3. CASE Finish(q)
  <2>1. answers' = [answers EXCEPT ![q] = [answers[q] EXCEPT !.state = "over"]]
    BY <1>2, <1>3 DEF Finish, TypeOK
  <2>2. \A p \in Questions : p # q => answers'[p] = answers[p]
    BY <1>2, <2>1 DEF TypeOK
  <2>3. answers'[q] = [answers[q] EXCEPT !.state = "over"]
    BY <1>2, <2>1 DEF TypeOK
  <2>4. /\ answers'[q].text = answers[q].text /\ (answers'[q].guess <=> answers[q].guess)
        /\ (answers'[q].live <=> answers[q].live) /\ answers'[q].made = answers[q].made
        /\ answers'[q].shown = answers[q].shown /\ answers'[q].state = "over"
    BY <1>2, <2>3 DEF AnswerRecord
  <2>5. SameFrames(answers')
    BY <1>1, <2>2, <2>4 DEF SameFrames
  <2> QED
    BY <1>1, <1>2, <2>5, ShownKept
<1>4. CASE Produce(q)
  <2> DEFINE a == answers[q]
             s == IF a.live THEN Append(a.shown, a.made + 1) ELSE a.shown
             r == [a EXCEPT !.made = @ + 1, !.shown = s]
  <2>1. a.guess /\ answers' = [answers EXCEPT ![q] = r]
    BY <1>2, <1>4 DEF Produce, TypeOK, AnswerRecord
  <2>2. /\ a.shown \in Frames /\ a.made \in 0 .. NFrames /\ a.live \in BOOLEAN
        /\ a.state = "running"
    BY <1>1, <1>2 DEF AnswerRecord
  <2>3. InOrder(a.shown) /\ (a.live => Len(a.shown) = a.made)
    BY <1>1 DEF ShownInv, FramesInOrder, InOrder, Asked
  <2>4. (a.shown # <<>> \/ a.live) => IsFrom(a.text, Heard) /\ spec # q
    BY <1>1, <2>1 DEF ShownInv, GuessesHeard, Asked
  <2>5. /\ r.text = a.text /\ (r.guess <=> a.guess) /\ (r.live <=> a.live)
        /\ r.made = a.made + 1 /\ r.shown = s /\ r.state = a.state
    BY <1>2 DEF AnswerRecord
  <2>6. /\ InOrder(s) /\ (a.live => Len(s) = a.made + 1) /\ (~a.live => s = a.shown)
    <3>1. CASE a.live
      <4>1. s = Append(a.shown, Len(a.shown) + 1)
        BY <2>3, <3>1
      <4> QED
        BY <2>2, <2>3, <3>1, <4>1, NextFrame
    <3>2. CASE ~a.live
      BY <2>3, <3>2
    <3> QED
      BY <3>1, <3>2
  <2>7. spec = q => ~a.live /\ a.shown = <<>>
    BY DEF ShownInv, SpecInv, Questions
  <2>8. \A h \in handlers : h.at = "flush" =>
           /\ h.qid \in Questions
           /\ h.qid = q => ~a.live /\ Len(a.shown) = h.sent /\ spec # q
                           /\ IsFrom(a.text, Heard)
           /\ \A g \in handlers : (g.at = "flush" /\ g.qid = h.qid) => g = h
    BY <1>2 DEF ShownInv, FlushInv, TypeOK, HandlerRecord
  <2> HIDE DEF r, s
  <2>9. Becomes(q, r)
    BY <1>1, <2>1, <2>2, <2>4, <2>5, <2>6, <2>7 DEF Becomes
  <2>10. Flushers(q, r)
    BY <1>1, <2>5, <2>6, <2>8 DEF Flushers
  <2> QED
    BY <1>1, <1>2, <2>9, <2>10, OneChanged
<1> QED
  BY <1>3, <1>4 DEF Answer

LEMMA HandleShown ==
    ASSUME IInv, FragmentsApart, TextsHeard, ShownInv, NEW h \in handlers, Handle(h)
    PROVE  FragmentsApart' /\ ShownInv'
<1>1. FragmentsApart' /\ Heard' = Heard
  BY HeardSame DEF Handle, Merged, Flush, Flushed, hearing
<1>2. TypeOK /\ h \in HandlerRecord
  BY DEF IInv, TypeOK
<1>3. CASE Merged(h)
  <2> DEFINE others == handlers \ {h}
  <2>1. h.text # <<>>
    BY <1>3 DEF Merged, IInv, MergesHaveText
  <2>2. IsFrom(h.text, Heard')
    BY <1>1, <2>1 DEF TextsHeard, IsFrom
  <2>3. answers \in [Questions -> AnswerRecord] /\ SameFrames(answers)
    BY <1>2 DEF TypeOK, SameFrames
  <2>4. others \in SUBSET handlers
    OBVIOUS
  <2>5. \/ GuessRight(h.frag, h.text, spec, answers, timers, Untimed, others)
        \/ GuessWrong(h.text, spec, answers, timers, None, others)
    BY <1>3 DEF Merged
  <2> HIDE DEF others
  <2>6. CASE GuessRight(h.frag, h.text, spec, answers, timers, Untimed, others)
    BY <1>1, <2>2, <2>4, <2>6, GuessRightShown
  <2>7. CASE GuessWrong(h.text, spec, answers, timers, None, others)
    BY <1>1, <2>3, <2>4, <2>7, GuessWrongShown
  <2> QED
    BY <1>1, <2>5, <2>6, <2>7
<1> DEFINE q == h.qid
           a == answers[q]
<1>4. /\ q \in Questions /\ a \in AnswerRecord
      /\ a.shown \in Frames /\ a.made \in 0 .. NFrames /\ h.sent \in 0 .. NFrames
  BY <1>2 DEF TypeOK, HandlerRecord, AnswerRecord
<1>5. ASSUME h.at = "flush"
      PROVE  /\ a.state # "unused" /\ a.guess /\ ~a.live /\ Len(a.shown) = h.sent
             /\ q # spec /\ IsFrom(a.text, Heard) /\ InOrder(a.shown)
             /\ \A g \in handlers : (g.at = "flush" /\ g.qid = q) => g = h
  <2>1. /\ a.state # "unused" /\ a.guess /\ ~a.live /\ Len(a.shown) = h.sent
        /\ q # spec /\ IsFrom(a.text, Heard)
        /\ \A g \in handlers : (g.at = "flush" /\ g.qid = q) => g = h
    BY <1>5 DEF ShownInv, FlushInv
  <2>2. InOrder(a.shown)
    BY <1>4, <2>1 DEF ShownInv, FramesInOrder, InOrder, Asked
  <2> QED
    BY <2>1, <2>2
<1>6. ASSUME NEW g \in handlers, g.at = "flush"
      PROVE  /\ g.qid \in Questions
             /\ \A e \in handlers : (e.at = "flush" /\ e.qid = g.qid) => e = g
  BY <1>2, <1>6 DEF ShownInv, FlushInv, TypeOK, HandlerRecord
<1>7. CASE Flush(h)
  <2> DEFINE r == [a EXCEPT !.shown = Append(@, h.sent + 1)]
             n == [h EXCEPT !.sent = @ + 1]
  <2>1. /\ h.at = "flush" /\ spec' = spec /\ handlers' = (handlers \ {h}) \cup {n}
        /\ answers' = [answers EXCEPT ![q] = r]
    BY <1>4, <1>7 DEF Flush, AnswerRecord
  <2>2. /\ r.text = a.text /\ (r.guess <=> a.guess) /\ (r.live <=> a.live)
        /\ r.shown = Append(a.shown, Len(a.shown) + 1) /\ r.state = a.state
    BY <1>4, <1>5, <2>1 DEF AnswerRecord
  <2>3. n.at = "flush" /\ n.qid = q /\ n.sent = h.sent + 1
    BY <1>2, <2>1 DEF HandlerRecord
  <2> HIDE DEF r, n
  <2>4. InOrder(r.shown) /\ Len(r.shown) = h.sent + 1
    BY <1>4, <1>5, <2>1, <2>2, NextFrame
  <2>5. Becomes(q, r) /\ ~r.live /\ IsFrom(r.text, Heard) /\ spec # q
    <3> HIDE DEF q
    <3> QED
      BY <1>5, <2>1, <2>2, <2>4 DEF Becomes
  <2>6. ASSUME NEW g \in handlers', g.at = "flush"
        PROVE  /\ g.qid \in Questions
               /\ g.qid = q => Len(r.shown) = g.sent
               /\ g.qid # q => g \in handlers
               /\ \A e \in handlers' : (e.at = "flush" /\ e.qid = g.qid) => e = g
    <3>1. g = n \/ (g \in handlers /\ g # h)
      BY <2>1
    <3>2. \A e \in handlers' : e = n \/ (e \in handlers /\ e # h)
      BY <2>1
    <3>3. \A e \in handlers : (e.at = "flush" /\ e.qid = q) => e = h
      BY <1>5, <2>1
    <3>4. g.qid = q => g = n
      BY <2>6, <3>1, <3>3
    <3>5. g.qid # q => g \in handlers
      BY <2>3, <3>1
    <3> QED
      BY <1>4, <1>6, <2>3, <2>4, <2>5, <2>6, <3>1, <3>2, <3>3, <3>4, <3>5
  <2> HIDE DEF q
  <2>7. Flushers(q, r)
    BY <2>5, <2>6 DEF Flushers
  <2> QED
    BY <1>1, <1>2, <1>4, <2>1, <2>5, <2>7, OneChanged
<1>8. CASE Flushed(h)
  <2> DEFINE r == [a EXCEPT !.live = TRUE]
  <2>1. /\ h.at = "flush" /\ h.sent = a.made /\ spec' = spec /\ handlers' = handlers \ {h}
        /\ answers' = [answers EXCEPT ![q] = r]
    BY <1>4, <1>8 DEF Flushed, AnswerRecord
  <2>2. /\ r.text = a.text /\ (r.guess <=> a.guess) /\ r.live /\ r.made = a.made
        /\ r.shown = a.shown /\ r.state = a.state
    BY <1>4 DEF AnswerRecord
  <2> HIDE DEF r
  <2>3. Becomes(q, r)
    <3> HIDE DEF q
    <3> QED
      BY <1>5, <2>1, <2>2 DEF Becomes
  <2>4. ASSUME NEW g \in handlers', g.at = "flush"
        PROVE  /\ g.qid \in Questions /\ g.qid # q /\ g \in handlers
               /\ \A e \in handlers' : (e.at = "flush" /\ e.qid = g.qid) => e = g
    BY <1>5, <1>6, <2>1, <2>4
  <2> HIDE DEF q
  <2>5. Flushers(q, r)
    BY <2>4 DEF Flushers
  <2> QED
    BY <1>1, <1>2, <1>4, <2>1, <2>3, <2>5, OneChanged
<1> QED
  BY <1>3, <1>7, <1>8 DEF Handle

-----------------------------------------------------------------------------
LEMMA NextInv == IInv /\ [Next]_vars => IInv'
<1> SUFFICES ASSUME IInv, [Next]_vars PROVE IInv'
  OBVIOUS
<1>1. CASE \/ Speak \/ SpawnPartial \/ PartialHeard \/ Finalize
           \/ \E f \in Fragments : NotUnderstood(f)
  BY <1>1, HearingInv
<1>2. CASE PartialSent
  BY <1>2, PartialSentInv
<1>3. CASE Disconnect
  BY <1>3, DisconnectInv
<1>4. CASE \E f \in Fragments : Suppressed(f)
  BY <1>4, SuppressedInv
<1>5. CASE \E f \in Fragments : \E correction \in BOOLEAN : Understood(f, correction)
  BY <1>5, UnderstoodInv
<1>6. CASE \E h \in handlers : Handle(h)
  BY <1>6, HandleInv
<1>7. CASE \E g \in 1 .. NFragments : Settle(g)
  BY <1>7, SettleInv
<1>8. CASE \E q \in Questions : Answer(q)
  BY <1>8, AnswerInv
<1>9. CASE UNCHANGED vars
  BY <1>9 DEF vars, IInv, TypeOK, PendingTextHasTimer, GuessIsAsked,
              MergesHaveText
<1>10. QED
  BY <1>1, <1>2, <1>3, <1>4, <1>5, <1>6, <1>7, <1>8, <1>9 DEF Next, Transcribed

LEMMA Invariance == Spec => []IInv
  BY InitInv, NextInv, PTL DEF Spec

\* The state of the turn always has its type: no handler refers to a question
\* that was never asked, no task slot to a fragment that was never spoken
\* (routes_ws.py 2378-2722, stream.py 216-273).
THEOREM LiveTurnsTypeOK == Spec => []TypeOK
<1>1. IInv => TypeOK
  BY DEF IInv
<1>2. QED
  BY Invariance, <1>1, PTL

\* However corrections, merges, speculations and settle tasks interleave, and
\* however many fragments the speaker utters, pending text has a live settle
\* task of its own generation or a handler about to start one, or is recorded
\* as stranded, by the one step that leaves it so (routes_ws.py 2378-2414,
\* 2512-2673).
THEOREM PendingTextIsTimed == Spec => []PendingTextHasTimer
<1>1. IInv => PendingTextHasTimer
  BY DEF IInv
<1>2. QED
  BY Invariance, <1>1, PTL

\* The fragments of two texts, one after the other.
LEMMA Concatenated ==
    ASSUME NEW s \in Texts, NEW t \in Texts
    PROVE  Range(s \o t) = Range(s) \cup Range(t)
<1>1. ASSUME NEW x \in Range(s) \cup Range(t) PROVE x \in Range(s \o t)
  <2>1. CASE x \in Range(s)
    <3>1. PICK i \in 1 .. Len(s) : x = s[i]
      BY <2>1 DEF Range, Texts
    <3> QED
      BY <3>1 DEF Range, Texts
  <2>2. CASE x \in Range(t)
    <3>1. PICK i \in 1 .. Len(t) : x = t[i]
      BY <2>2 DEF Range, Texts
    <3>2. Len(s) + i \in 1 .. Len(s \o t) /\ (s \o t)[Len(s) + i] = t[i]
      BY <3>1 DEF Texts
    <3> QED
      BY <3>1, <3>2 DEF Range, Texts
  <2> QED
    BY <1>1, <2>1, <2>2
<1>2. Range(s \o t) \subseteq Range(s) \cup Range(t)
  BY DEF Range, Texts
<1> QED
  BY <1>1, <1>2

\* What was heard stays heard, and the text in hand was.
LEMMA TextsNext ==
    ASSUME IInv, FragmentsApart, TextsHeard, [Next]_vars
    PROVE  TextsHeard'
<1> USE DEF IInv
<1>1. CASE \/ Speak \/ SpawnPartial \/ PartialHeard \/ Finalize \/ PartialSent \/ Disconnect
           \/ \E q \in Questions : Answer(q)
           \/ \E f \in Fragments : NotUnderstood(f) \/ Suppressed(f)
           \/ UNCHANGED vars
  <2>1. Heard \subseteq Heard'
    <3>1. CASE Speak \/ Finalize \/ Disconnect
      BY <3>1 DEF Speak, Finalize, Disconnect, Heard, FragmentsApart, TypeOK
    <3>2. CASE \E f \in Fragments : NotUnderstood(f) \/ Suppressed(f)
      BY <3>2 DEF NotUnderstood, Suppressed, Heard, FragmentsApart, TypeOK
    <3>3. CASE UNCHANGED <<spoken, stt, dropped, buffered>>
      BY <3>3 DEF Heard
    <3>4. SpawnPartial \/ PartialHeard \/ PartialSent => UNCHANGED <<spoken, stt, dropped, buffered>>
      BY DEF SpawnPartial, PartialHeard, PartialSent
    <3>5. (\E q \in Questions : Answer(q)) \/ UNCHANGED vars
             => UNCHANGED <<spoken, stt, dropped, buffered>>
      BY DEF Answer, Produce, Finish, hearing, vars
    <3>6. QED
      BY <1>1, <3>1, <3>2, <3>3, <3>4, <3>5
  <2>2. \/ UNCHANGED <<parts, last, handlers>>
        \/ parts' = <<>> /\ last' = None /\ handlers' = {}
    BY <1>1 DEF Speak, SpawnPartial, PartialHeard, Finalize, PartialSent, Disconnect, Answer, Produce,
                Finish, NotUnderstood, Suppressed, vars
  <2> QED
    BY <2>1, <2>2 DEF TextsHeard, Range
<1>2. CASE \E g \in 1 .. NFragments : Settle(g)
  <2>1. /\ Heard' = Heard /\ handlers' = handlers
        /\ \/ UNCHANGED <<parts, last>>
           \/ parts' = <<>> /\ last' = [qid |-> NewQid, text |-> parts]
    BY <1>2 DEF Settle, hearing, Heard
  <2> QED
    BY <2>1 DEF TextsHeard, Range
<1>3. ASSUME NEW f \in Fragments, NEW correction \in BOOLEAN, Understood(f, correction)
      PROVE  TextsHeard'
  <2>1. Heard \subseteq Heard' /\ f \in Heard'
    BY <1>3 DEF Understood, Heard, FragmentsApart, TypeOK
  <2>2. <<f>> \in Texts /\ Range(<<f>>) = {f}
    BY DEF Texts, Range
  <2>3. \/ /\ UNCHANGED <<parts, last>> /\ last # None
           /\ \A h \in handlers' : h \in handlers \/ h.text = last.text \o <<f>>
        \/ /\ parts' = parts /\ last'.text = <<f>>
           /\ \A h \in handlers' : h \in handlers \/ h.text = <<f>>
        \/ parts' = parts \o <<f>> /\ last' = last /\ handlers' = handlers
    BY <1>3, SMTT(30) DEF Understood, Continues, GuessRight, GuessWrong, Join
  <2>4. parts \in Texts /\ (last # None => last.text \in Texts)
    BY DEF TypeOK
  <2>5. Range(parts \o <<f>>) = Range(parts) \cup {f}
    BY <2>2, <2>4, Concatenated
  <2>6. last # None => Range(last.text \o <<f>>) = Range(last.text) \cup {f}
    BY <2>2, <2>4, Concatenated
  <2> HIDE DEF IInv
  <2> QED
    BY <2>1, <2>2, <2>3, <2>5, <2>6 DEF TextsHeard
<1>4. ASSUME NEW h \in handlers, Merged(h)
      PROVE  TextsHeard'
  <2>1. Heard' = Heard
    BY <1>4 DEF Merged, hearing, Heard
  <2>2. \/ /\ parts' = parts /\ last'.text = h.text
           /\ \A g \in handlers' : g \in handlers \/ g.text = h.text
        \/ parts' = parts \o h.text /\ last' = None /\ handlers' = handlers \ {h}
    BY <1>4 DEF Merged, GuessRight, GuessWrong, Join
  <2>3. Range(parts \o h.text) = Range(parts) \cup Range(h.text)
    BY Concatenated DEF TypeOK, HandlerRecord
  <2> QED
    BY <2>1, <2>2, <2>3 DEF TextsHeard
<1>5. ASSUME NEW h \in handlers, Flush(h) \/ Flushed(h)
      PROVE  TextsHeard'
  <2>1. Heard' = Heard /\ UNCHANGED <<parts, last>>
    BY <1>5 DEF Flush, Flushed, hearing, Heard
  <2>2. \A g \in handlers' : g \in handlers \/ g.text = h.text
    BY <1>5 DEF Flush, Flushed, TypeOK, HandlerRecord
  <2> QED
    BY <2>1, <2>2 DEF TextsHeard
<1> QED
  BY <1>1, <1>2, <1>3, <1>4, <1>5 DEF Next, Transcribed, Handle

LEMMA ShownNext ==
    IInv /\ FragmentsApart /\ TextsHeard /\ ShownInv /\ [Next]_vars => FragmentsApart' /\ ShownInv'
<1> SUFFICES ASSUME IInv, FragmentsApart, TextsHeard, ShownInv, [Next]_vars
             PROVE  FragmentsApart' /\ ShownInv'
  OBVIOUS
<1>1. TypeOK
  BY DEF IInv
<1>2. CASE \/ Speak \/ SpawnPartial \/ PartialHeard \/ Finalize
           \/ \E f \in Fragments : NotUnderstood(f)
  BY <1>1, <1>2, HearingShown
<1>3. CASE PartialSent
  BY <1>3, PartialSentShown
<1>4. CASE Disconnect
  BY <1>1, <1>4, DisconnectShown
<1>5. CASE \E f \in Fragments : Suppressed(f)
  BY <1>1, <1>5, SuppressedShown
<1>6. CASE \E f \in Fragments : \E correction \in BOOLEAN : Understood(f, correction)
  BY <1>6, UnderstoodShown
<1>7. CASE \E h \in handlers : Handle(h)
  BY <1>7, HandleShown
<1>8. CASE \E g \in 1 .. NFragments : Settle(g)
  BY <1>8, SettleShown
<1>9. CASE \E q \in Questions : Answer(q)
  BY <1>9, AnswerShown
<1>10. CASE UNCHANGED vars
  <2>1. /\ UNCHANGED <<spoken, stt, dropped, buffered>>
        /\ answers' = answers /\ spec' = spec /\ handlers' = handlers
    BY <1>10 DEF vars
  <2> QED
    BY <1>1, <2>1, HeardSame, SameSame, ShownKept
<1>11. QED
  BY <1>2, <1>3, <1>4, <1>5, <1>6, <1>7, <1>8, <1>9, <1>10 DEF Next, Transcribed

LEMMA ShownInvariance == Spec => [](FragmentsApart /\ TextsHeard /\ ShownInv)
<1>1. Init => FragmentsApart /\ TextsHeard /\ ShownInv
  <2>1. Range(<<>>) = {}
    <3>1. DOMAIN <<>> = {}
      OBVIOUS
    <3>2. QED
      BY <3>1 DEF Range
  <2>2. Init => FragmentsApart
    BY DEF Init, FragmentsApart
  <2>5. Init => TextsHeard
    <3>1. ASSUME parts = <<>> PROVE Range(parts) = {}
      BY <2>1, <3>1
    <3>2. QED
      BY <3>1 DEF Init, TextsHeard
  <2>3. Init => ShownInv
    BY DEF Init, ShownInv, FramesInOrder, GuessesHeard, SpecInv, FlushInv, Asked, Unused
  <2>4. QED
    BY <2>2, <2>3, <2>5
<1>2. IInv /\ FragmentsApart /\ TextsHeard /\ ShownInv /\ [Next]_vars
         => (FragmentsApart /\ TextsHeard /\ ShownInv)'
  BY ShownNext, TextsNext
<1>3. QED
  BY <1>1, <1>2, Invariance, PTL DEF Spec

\* However the flush of a speculation interleaves with the answer that is still
\* being produced, the client gets every answer's frames in order and without a
\* gap, and a live answer has none left in its holder (routes_ws.py 2616-2626).
THEOREM FramesAreInOrder == Spec => []FramesInOrder
<1>1. ShownInv => FramesInOrder
  BY DEF ShownInv
<1>2. QED
  BY ShownInvariance, <1>1, PTL

\* Whatever words are taken for those of a guess, the client sees frames of it
\* only after a final text was committed with its question id, every fragment
\* of which was heard, and never those of one that may still be given up
\* (routes_ws.py 2598-2641).
THEOREM GuessesAreHeard == Spec => []GuessShownOnlyIfHeard
<1>1. ShownInv => GuessShownOnlyIfHeard
  BY DEF ShownInv, GuessesHeard, GuessShownOnlyIfHeard, IsFrom
<1>2. QED
  BY ShownInvariance, <1>1, PTL
=============================================================================
