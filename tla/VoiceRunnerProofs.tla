--------------------------- MODULE VoiceRunnerProofs ---------------------------
(***************************************************************************)
(* Proofs about VoiceRunner: for any number of turns and of failures of    *)
(* the upstream the runner's state is well-typed, the client is told of    *)
(* one switch, nothing is open after the teardown, the ledger is in the    *)
(* order of the turns, and no turn is written twice to the chat.           *)
(*                                                                         *)
(* They rest on three things the runner never says: which tasks a handover *)
(* has cancelled (Phase), which queue is still being read (QueueInv), and  *)
(* who answered the turns that the chat and the ledger hold (ChatInv).     *)
(***************************************************************************)
EXTENDS VoiceRunner, SequenceTheorems, WellFoundedInduction, TLAPS

Realtimers == {"realtime", "governor"}

\* No handover got past its frame: the runner refers to what it created.
Before ==
    /\ told = 0 /\ session = engine
    /\ \/ /\ engine = "realtime" /\ held = Realtimers
          /\ pc["staged"] = "none" /\ queue["staged"] = <<>> /\ open["staged"] = "no"
       \/ /\ engine = "staged" /\ held = {"staged"}
          /\ \A t \in Realtimers : pc[t] = "none"
          /\ open["realtime"] = "no"

\* One did, and both tasks of the old session are cancelled: it was cut short in
\* the close of that session ...
Cut ==
    /\ told = 1 /\ session = "none" /\ engine = "realtime" /\ held = {}
    /\ Realtimers \subseteq cancelled
    /\ pc["staged"] = "none" /\ queue["staged"] = <<>>
    /\ open["staged"] = "no" /\ open["realtime"] = "closed"

\* ... or it opened the staged session.
Over ==
    /\ told = 1 /\ session = "staged" /\ engine = "staged" /\ held = {"staged"}
    /\ Realtimers \subseteq cancelled
    /\ open["realtime"] = "closed"

Phase == Before \/ Cut \/ Over

\* The teardown cancels what the runner refers to, and closes what it holds.
EndInv ==
    /\ reader # "reading" => held \subseteq cancelled
    /\ NothingOpenAfterwards

IsTurn(ev) == ev.kind = "complete"

\* What the queue of the engine still holds comes after what the ledger has.
QueueInv ==
    LET q == queue[engine]
    IN  /\ \A i \in 1 .. Len(q) : IsTurn(q[i]) =>
              q[i].turn <= Len(answered) /\ answered[q[i].turn] = engine
        /\ \A i, j \in 1 .. Len(q) : (i < j /\ IsTurn(q[i]) /\ IsTurn(q[j])) =>
              q[i].turn < q[j].turn
        /\ \A i \in 1 .. Len(ledger) :
              /\ ledger[i].turn <= Len(answered)
              /\ ledger[i].engine = "realtime" => answered[ledger[i].turn] = "realtime"
              /\ \A j \in 1 .. Len(q) : IsTurn(q[j]) => ledger[i].turn < q[j].turn
        /\ LedgerInOrder

\* Until the transcript is written the chat has what the client wrote.
ChatInv ==
    /\ reader # "done" =>
          \A i \in 1 .. Len(chat) :
              /\ chat[i] <= Len(answered) /\ answered[chat[i]] = "staged"
              /\ \A j \in 1 .. Len(chat) : i < j => chat[i] < chat[j]
    /\ ChatOnce

\* A turn that is heard can still be answered.
HeardInv ==
    /\ Len(answered) <= MaxTurns
    /\ (heard /\ open["realtime"] = "open") => Len(answered) < MaxTurns

IInv == TypeOK /\ Phase /\ EndInv /\ QueueInv /\ ChatInv /\ HeardInv


-----------------------------------------------------------------------------
(* Filtering a sequence.                                                   *)

\* Induction over the naturals, for a set rather than for a formula.
LEMMA Induction ==
    ASSUME NEW T, 0 \in T, \A n \in Nat : n \in T => n + 1 \in T
    PROVE  Nat \subseteq T
<1> DEFINE R == OpToRel(<, Nat)
           Left == Nat \ T
<1>1. \A x, y \in Nat : <<y, x>> \in R <=> y < x
  BY DEF OpToRel
<1>2. SUFFICES ASSUME Left # {} PROVE FALSE
  OBVIOUS
<1>3. Left \subseteq Nat /\ IsWellFoundedOn(R, Nat)
  BY NatLessThanWellFounded
<1> HIDE DEF R
<1>4. PICK x \in Left : \A y \in Left : ~ (<<y, x>> \in R)
  BY <1>2, <1>3, WFMin
<1>5. \A y \in Left : ~ (y < x)
  BY <1>1, <1>3, <1>4
<1>6. x \in Nat /\ x \notin T /\ x # 0
  BY <1>4
<1>7. x - 1 \in Nat /\ x - 1 < x /\ (x - 1) + 1 = x
  BY <1>6
<1>8. x - 1 \in T
  BY <1>5, <1>7
<1> QED
  BY <1>6, <1>7, <1>8

\* The recursion of Kept has a solution: its function is what it says it is.
LEMMA KeptDef ==
    ASSUME NEW U, NEW s \in Seq(U), NEW S
    PROVE  \E f : /\ Kept(s, S) = f[Len(s)] /\ f[0] = <<>>
                  /\ \A i \in 1 .. Len(s) :
                        f[i] = IF s[i] \in S THEN Append(f[i - 1], s[i]) ELSE f[i - 1]
<1> DEFINE After(f, i) == IF s[i] \in S THEN Append(f[i - 1], s[i]) ELSE f[i - 1]
           Solves(f, n) == /\ f = [i \in 0 .. n |-> f[i]] /\ f[0] = <<>>
                           /\ \A i \in 1 .. n : f[i] = After(f, i)
           T == {n \in Nat : \E f : Solves(f, n)}
<1>1. 0 \in T
  <2> DEFINE f == [i \in 0 .. 0 |-> <<>>]
  <2>1. Solves(f, 0)
    OBVIOUS
  <2> QED
    BY <2>1
<1>2. ASSUME NEW n \in Nat, n \in T PROVE n + 1 \in T
  <2>1. PICK f : Solves(f, n)
    BY <1>2
  <2> DEFINE g == [i \in 0 .. n + 1 |-> IF i = n + 1 THEN After(f, n + 1) ELSE f[i]]
  <2>2. g = [i \in 0 .. n + 1 |-> g[i]] /\ g[0] = <<>>
    BY <2>1
  <2>3. ASSUME NEW i \in 1 .. n + 1 PROVE g[i] = After(g, i)
    <3>1. g[i - 1] = f[i - 1]
      OBVIOUS
    <3>2. After(g, i) = After(f, i)
      BY <3>1
    <3>3. g[i] = After(f, i)
      <4>1. CASE i = n + 1
        BY <4>1
      <4>2. CASE i # n + 1
        <5>1. i \in 1 .. n /\ g[i] = f[i]
          BY <4>2
        <5> QED
          BY <2>1, <5>1
      <4> QED
        BY <4>1, <4>2
    <3> QED
      BY <3>2, <3>3
  <2>4. Solves(g, n + 1)
    BY <2>2, <2>3
  <2> HIDE DEF g, Solves
  <2> QED
    BY <2>4
<1>3. Nat \subseteq T
  <2> HIDE DEF T
  <2> QED
    BY <1>1, <1>2, Induction
<1>4. PICK f : Solves(f, Len(s))
  <2>1. Len(s) \in T
    BY <1>3
  <2> QED
    BY <2>1
<1> DEFINE Eq(k) == k = [i \in 0 .. Len(s) |->
                           IF i = 0 THEN <<>>
                           ELSE IF s[i] \in S THEN Append(k[i - 1], s[i]) ELSE k[i - 1]]
           c == CHOOSE k : Eq(k)
<1>5. Eq(f)
  BY <1>4, SMTT(30)
<1>6. Eq(c)
  <2> HIDE DEF Eq
  <2> QED
    BY <1>5
<1>7. Kept(s, S) = c[Len(s)]
  BY DEF Kept
<1> HIDE DEF c
<1>8. c[0] = <<>> /\ \A i \in 1 .. Len(s) : c[i] = After(c, i)
  <2> DEFINE e(i) == IF i = 0 THEN <<>> ELSE After(c, i)
  <2>1. c = [i \in 0 .. Len(s) |-> e(i)]
    BY <1>6
  <2>2. Len(s) \in Nat
    OBVIOUS
  <2> HIDE DEF e
  <2>3. \A i \in 0 .. Len(s) : c[i] = e(i)
    BY <2>1
  <2> QED
    BY <2>2, <2>3 DEF e
<1> QED
  BY <1>7, <1>8

\* What is in k is in s, and any two in the same order.
Ordered(k, s) ==
    /\ \A i \in 1 .. Len(k) : \E m \in 1 .. Len(s) : k[i] = s[m]
    /\ \A i, j \in 1 .. Len(k) : i < j =>
          \E m, n \in 1 .. Len(s) : m < n /\ k[i] = s[m] /\ k[j] = s[n]

\* What is kept is of S and in the order it had.
LEMMA KeptOK ==
    ASSUME NEW U, NEW s \in Seq(U), NEW S
    PROVE  Kept(s, S) \in Seq(U \cap S) /\ Ordered(Kept(s, S), s)
<1>1. PICK f : /\ Kept(s, S) = f[Len(s)] /\ f[0] = <<>>
               /\ \A i \in 1 .. Len(s) :
                     f[i] = IF s[i] \in S THEN Append(f[i - 1], s[i]) ELSE f[i - 1]
  BY KeptDef
<1> DEFINE Good(l) == /\ f[l] \in Seq(U \cap S)
                      /\ \A i \in 1 .. Len(f[l]) : \E m \in 1 .. l : f[l][i] = s[m]
                      /\ \A i, j \in 1 .. Len(f[l]) : i < j =>
                            \E m, n \in 1 .. l : m < n /\ f[l][i] = s[m] /\ f[l][j] = s[n]
           T == {l \in Nat : l <= Len(s) => Good(l)}
<1>2. 0 \in T
  <2>1. f[0] \in Seq(U \cap S) /\ Len(f[0]) = 0
    BY <1>1, EmptySeq
  <2> QED
    BY <2>1
<1>3. ASSUME NEW l \in Nat, l \in T PROVE l + 1 \in T
  <2> SUFFICES ASSUME l + 1 <= Len(s) PROVE Good(l + 1)
    OBVIOUS
  <2>0. Len(s) \in Nat
    BY LenProperties
  <2>1. Good(l) /\ l + 1 \in 1 .. Len(s)
    <3> HIDE DEF Good
    <3> QED
      BY <1>3, <2>0
  <2>2. CASE s[l + 1] \notin S
    <3>1. f[l + 1] = f[l]
      <4>1. (l + 1) - 1 = l
        OBVIOUS
      <4> QED
        BY <1>1, <2>1, <2>2, <4>1
    <3>2. \A m \in 1 .. l : m \in 1 .. l + 1
      OBVIOUS
    <3>3. f[l + 1] \in Seq(U \cap S)
      BY <2>1, <3>1
    <3>4. ASSUME NEW i \in 1 .. Len(f[l]) PROVE \E m \in 1 .. l + 1 : f[l][i] = s[m]
      BY <2>1, <3>2
    <3>5. ASSUME NEW i \in 1 .. Len(f[l]), NEW j \in 1 .. Len(f[l]), i < j
          PROVE  \E m, n \in 1 .. l + 1 : m < n /\ f[l][i] = s[m] /\ f[l][j] = s[n]
      BY <2>1, <3>2, <3>5
    <3> QED
      BY <3>1, <3>3, <3>4, <3>5
  <2>3. CASE s[l + 1] \in S
    <3> DEFINE k == f[l]
               h == Append(k, s[l + 1])
    <3>1. f[l + 1] = h
      <4>1. (l + 1) - 1 = l
        OBVIOUS
      <4> QED
        BY <1>1, <2>1, <2>3, <4>1
    <3>2. s[l + 1] \in U \cap S
      BY <2>1, <2>3, ElementOfSeq
    <3>3. /\ h \in Seq(U \cap S) /\ Len(h) = Len(k) + 1 /\ Len(k) \in Nat
          /\ \A i \in 1 .. Len(k) : h[i] = k[i]
          /\ h[Len(k) + 1] = s[l + 1]
      BY <2>1, <3>2, AppendProperties
    <3> HIDE DEF h
    <3>4. ASSUME NEW i \in 1 .. Len(h) PROVE \E m \in 1 .. l + 1 : h[i] = s[m]
      <4>1. CASE i \in 1 .. Len(k)
        BY <2>1, <3>3, <4>1
      <4>2. CASE i = Len(k) + 1
        BY <3>3, <4>2
      <4> QED
        BY <3>3, <4>1, <4>2, SMTT(30)
    <3>5. ASSUME NEW i \in 1 .. Len(h), NEW j \in 1 .. Len(h), i < j
          PROVE  \E m, n \in 1 .. l + 1 : m < n /\ h[i] = s[m] /\ h[j] = s[n]
      <4>1. i \in 1 .. Len(k)
        BY <3>3, <3>5
      <4>2. CASE j \in 1 .. Len(k)
        BY <2>1, <3>3, <3>5, <4>1, <4>2
      <4>3. CASE j = Len(k) + 1
        <5>1. PICK m \in 1 .. l : k[i] = s[m]
          BY <2>1, <4>1
        <5>2. m \in 1 .. l + 1 /\ m < l + 1 /\ h[i] = s[m] /\ h[j] = s[l + 1]
          BY <3>3, <4>1, <4>3, <5>1
        <5> QED
          BY <5>2
      <4> QED
        BY <3>3, <4>2, <4>3
    <3> QED
      BY <3>1, <3>3, <3>4, <3>5
  <2> QED
    BY <2>2, <2>3
<1>4. Nat \subseteq T
  <2> HIDE DEF T
  <2> QED
    BY <1>2, <1>3, Induction
<1>5. Good(Len(s))
  <2>1. Len(s) \in Nat
    BY LenProperties
  <2>2. Len(s) \in T
    <3> HIDE DEF T
    <3> QED
      BY <1>4, <2>1
  <2> HIDE DEF Good
  <2> QED
    BY <2>1, <2>2
<1> QED
  BY <1>1, <1>5 DEF Ordered

\* The ledger entries of some events are those of their turns, in that order.
LEMMA RecordedOK ==
    ASSUME NEW s \in Seq(Event), NEW name \in Engines
    PROVE  LET r == Recorded(s, name)
           IN  /\ r \in Seq(Record)
               /\ \A i \in 1 .. Len(r) :
                     /\ r[i].engine = name
                     /\ \E m \in 1 .. Len(s) : IsTurn(s[m]) /\ r[i].turn = s[m].turn
               /\ \A i, j \in 1 .. Len(r) : i < j =>
                     \E m, n \in 1 .. Len(s) :
                        /\ m < n /\ IsTurn(s[m]) /\ IsTurn(s[n])
                        /\ r[i].turn = s[m].turn /\ r[j].turn = s[n].turn
<1> DEFINE k == Kept(s, Complete)
           r == Recorded(s, name)
<1>1. /\ k \in Seq(Event \cap Complete)
      /\ \A i \in 1 .. Len(k) : \E m \in 1 .. Len(s) : k[i] = s[m]
      /\ \A i, j \in 1 .. Len(k) : i < j =>
            \E m, n \in 1 .. Len(s) : m < n /\ k[i] = s[m] /\ k[j] = s[n]
  <2>1. k \in Seq(Event \cap Complete) /\ Ordered(k, s)
    BY KeptOK
  <2> QED
    BY <2>1 DEF Ordered
<1> HIDE DEF k
<1>2. /\ Len(k) \in Nat /\ DOMAIN k = 1 .. Len(k)
      /\ \A i \in 1 .. Len(k) : k[i] \in Complete
  BY <1>1, ElementOfSeq, LenProperties
<1>3. \A i \in 1 .. Len(k) : IsTurn(k[i]) /\ k[i].turn \in Turns
  BY <1>2 DEF Complete, IsTurn
<1>4. r = [i \in 1 .. Len(k) |-> [turn |-> k[i].turn, engine |-> name]]
  BY <1>2 DEF Recorded, k
<1> HIDE DEF r
<1>5. r \in Seq(Record) /\ Len(r) = Len(k)
  <2>1. \A i \in 1 .. Len(k) : [turn |-> k[i].turn, engine |-> name] \in Record
    BY <1>3 DEF Record
  <2>2. r \in [1 .. Len(k) -> Record]
    BY <1>4, <2>1
  <2> QED
    BY <1>2, <2>2, IsASeq, LenProperties
<1>6. \A i \in 1 .. Len(r) : r[i].engine = name /\ r[i].turn = k[i].turn
  BY <1>4, <1>5
<1>7. ASSUME NEW i \in 1 .. Len(r)
      PROVE  \E m \in 1 .. Len(s) : IsTurn(s[m]) /\ r[i].turn = s[m].turn
  <2>1. i \in 1 .. Len(k)
    BY <1>5
  <2>2. PICK m \in 1 .. Len(s) : k[i] = s[m]
    BY <1>1, <2>1
  <2> QED
    BY <1>3, <1>6, <2>1, <2>2
<1>8. ASSUME NEW i \in 1 .. Len(r), NEW j \in 1 .. Len(r), i < j
      PROVE  \E m, n \in 1 .. Len(s) :
                /\ m < n /\ IsTurn(s[m]) /\ IsTurn(s[n])
                /\ r[i].turn = s[m].turn /\ r[j].turn = s[n].turn
  <2>1. PICK m \in 1 .. Len(s), n \in 1 .. Len(s) : m < n /\ k[i] = s[m] /\ k[j] = s[n]
    BY <1>1, <1>5, <1>8
  <2>2. IsTurn(s[m]) /\ IsTurn(s[n]) /\ r[i].turn = s[m].turn /\ r[j].turn = s[n].turn
    BY <1>3, <1>5, <1>6, <2>1
  <2> QED
    BY <2>1, <2>2
<1> QED
  BY <1>5, <1>6, <1>7, <1>8 DEF r

LEMMA MeteredOK == ASSUME NEW s \in Seq(Event) PROVE Metered(s) \in Nat
<1>1. Kept(s, [kind : {"usage"}]) \in Seq(Event \cap [kind : {"usage"}])
  BY KeptOK
<1> QED
  BY <1>1, LenProperties DEF Metered

-----------------------------------------------------------------------------
(* What a step leaves alone.                                               *)

LEMMA InitOK == Init => IInv
<1> SUFFICES ASSUME Init PROVE IInv
  OBVIOUS
<1>1. <<>> \in Seq(Event) /\ <<>> \in Seq(Tasks) /\ <<>> \in Seq(Record) /\ <<>> \in Seq(Turns)
      /\ <<>> \in Seq(Engines) /\ Len(<<>>) = 0
  BY EmptySeq
<1>2. TypeOK
  BY <1>1 DEF Init, TypeOK, Tasks, Engines
<1>3. Phase
  BY DEF Init, Phase, Before, Tasks, Engines, Realtimers
<1>4. EndInv
  BY DEF Init, EndInv, NothingOpenAfterwards
<1>5. QueueInv
  <2>1. queue[engine] = <<>> /\ ledger = <<>>
    BY DEF Init
  <2> QED
    BY <1>1, <2>1 DEF QueueInv, LedgerInOrder
<1>6. ChatInv /\ HeardInv
  BY <1>1, RunnerAssumption DEF Init, ChatInv, ChatOnce, HeardInv
<1> QED
  BY <1>2, <1>3, <1>4, <1>5, <1>6 DEF IInv

\* Cancelling more, and moving tasks that were created, does not change the phase.
LEMMA PhaseKept ==
    ASSUME Phase, UNCHANGED <<engine, session, held, told, open>>,
           cancelled \subseteq cancelled',
           \A t \in Tasks : pc[t] = "none" => pc'[t] = "none",
           engine = "realtime" => queue'["staged"] = queue["staged"]
    PROVE  Phase'
BY DEF Phase, Before, Cut, Over, Realtimers, Tasks, Engines

LEMMA EndKept ==
    ASSUME EndInv, UNCHANGED <<reader, open, held, cancelled>>
    PROVE  EndInv'
BY DEF EndInv, NothingOpenAfterwards

LEMMA QueueKept ==
    ASSUME QueueInv, UNCHANGED <<engine, answered, ledger>>, queue'[engine] = queue[engine]
    PROVE  QueueInv'
BY DEF QueueInv, LedgerInOrder, IsTurn

LEMMA ChatKept ==
    ASSUME ChatInv, UNCHANGED <<reader, chat, answered>>
    PROVE  ChatInv'
BY DEF ChatInv, ChatOnce

\* The steps of the socket's side, which touch nothing but tasks and the wire.
LEMMA TasksOnly ==
    ASSUME IInv,
           UNCHANGED <<engine, session, open, upstream, heard, queue, held, cancelled,
                       reader, ledger, chatVars, answered, told, used, spend, failures>>,
           pc' \in [Tasks -> {"none", "get", "send", "switch", "closing", "sleep", "over"}],
           wire' \in Seq(Tasks),
           \A t \in Tasks : pc[t] = "none" => pc'[t] = "none"
    PROVE  IInv'
<1>1. TypeOK'
  BY DEF IInv, TypeOK, chatVars
<1>2. Phase'
  BY PhaseKept DEF IInv
<1>3. EndInv' /\ QueueInv' /\ ChatInv'
  BY EndKept, QueueKept, ChatKept DEF IInv, chatVars
<1>4. HeardInv'
  BY DEF IInv, HeardInv
<1> QED
  BY <1>1, <1>2, <1>3, <1>4 DEF IInv

LEMMA WireTypes ==
    ASSUME TypeOK, NEW t \in Tasks
    PROVE  /\ Append(wire, t) \in Seq(Tasks)
           /\ wire # <<>> => Tail(wire) \in Seq(Tasks)
           /\ Kept(wire, Tasks \ {t}) \in Seq(Tasks)
<1>1. wire \in Seq(Tasks)
  BY DEF TypeOK
<1>2. Append(wire, t) \in Seq(Tasks)
  BY <1>1, AppendProperties
<1>3. wire # <<>> => Tail(wire) \in Seq(Tasks)
  BY <1>1, HeadTailProperties
<1>4. Kept(wire, Tasks \ {t}) \in Seq(Tasks \cap (Tasks \ {t}))
  BY <1>1, KeptOK
<1> QED
  BY <1>2, <1>3, <1>4, SeqMonotonic, (Tasks \cap (Tasks \ {t})) \subseteq Tasks

LEMMA DieOK == ASSUME IInv, NEW t \in Tasks, Die(t) PROVE IInv'
<1>1. wire' \in Seq(Tasks)
  BY WireTypes DEF Die, IInv
<1>2. pc' \in [Tasks -> {"none", "get", "send", "switch", "closing", "sleep", "over"}]
      /\ \A u \in Tasks : pc[u] = "none" => pc'[u] = "none"
  BY DEF Die, IInv, TypeOK
<1> QED
  BY <1>1, <1>2, TasksOnly DEF Die

LEMMA GovernOK == ASSUME IInv, Govern PROVE IInv'
<1>1. wire' \in Seq(Tasks)
  BY WireTypes DEF Govern, Begin, IInv, Tasks
<1>2. pc' \in [Tasks -> {"none", "get", "send", "switch", "closing", "sleep", "over"}]
      /\ \A u \in Tasks : pc[u] = "none" => pc'[u] = "none"
  BY DEF Govern, Begin, IInv, TypeOK
<1> QED
  BY <1>1, <1>2, TasksOnly DEF Govern

\* The frame of a pump is out: the pump goes back to its queue.
LEMMA SentOK == ASSUME IInv, NEW e \in Engines, Sent(e) PROVE IInv'
<1>1. wire' \in Seq(Tasks)
  BY WireTypes DEF Sent, IInv, Tasks
<1>2. pc' \in [Tasks -> {"none", "get", "send", "switch", "closing", "sleep", "over"}]
      /\ \A u \in Tasks : pc[u] = "none" => pc'[u] = "none"
  BY DEF Sent, IInv, TypeOK, Tasks
<1> QED
  BY <1>1, <1>2, TasksOnly DEF Sent

-----------------------------------------------------------------------------
(* What the sessions put into their queues.                                *)

\* Events are added to the queue that is being read: no turn among them, or one
\* at the end that was answered just now.
Grows(ev) ==
    /\ engine' = engine /\ ledger' = ledger
    /\ queue' = [queue EXCEPT ![engine] = @ \o ev]
    /\ \/ answered' = answered /\ \A i \in 1 .. Len(ev) : ~IsTurn(ev[i])
       \/ /\ answered' = Append(answered, engine)
          /\ \A i \in 1 .. Len(ev) : IsTurn(ev[i]) =>
                i = Len(ev) /\ ev[i].turn = Len(answered) + 1

LEMMA QueueGrows ==
    ASSUME TypeOK, QueueInv, NEW ev \in Seq(Event), Grows(ev)
    PROVE  QueueInv' /\ queue' \in [Engines -> Seq(Event)]
<1> DEFINE q == queue[engine]
           p == queue'[engine']
<1>1. /\ q \in Seq(Event) /\ Len(q) \in Nat /\ Len(ev) \in Nat
      /\ answered \in Seq(Engines) /\ Len(answered) \in Nat /\ engine \in Engines
      /\ ledger \in Seq(Record) /\ Len(ledger) \in Nat
  BY LenProperties DEF TypeOK
<1>2. /\ p = q \o ev /\ p \in Seq(Event) /\ Len(p) = Len(q) + Len(ev)
      /\ \A i \in 1 .. Len(p) : p[i] = IF i <= Len(q) THEN q[i] ELSE ev[i - Len(q)]
  BY <1>1, ConcatProperties DEF TypeOK, Grows
<1>3. queue' \in [Engines -> Seq(Event)]
  BY <1>1, <1>2 DEF TypeOK, Grows
<1>4. /\ Len(answered') \in Nat /\ Len(answered') >= Len(answered)
      /\ \A n \in 1 .. Len(answered) : answered'[n] = answered[n]
      /\ answered' # answered =>
            Len(answered') = Len(answered) + 1 /\ answered'[Len(answered) + 1] = engine
  <2>1. CASE answered' = answered
    BY <1>1, <2>1
  <2>2. CASE answered' = Append(answered, engine)
    <3>1. /\ Len(answered') = Len(answered) + 1 /\ answered'[Len(answered) + 1] = engine
          /\ \A n \in 1 .. Len(answered) : answered'[n] = answered[n]
      BY <1>1, <2>2, AppendProperties
    <3> QED
      BY <1>1, <3>1
  <2> QED
    BY <2>1, <2>2 DEF Grows
<1>5. \A i \in 1 .. Len(q) : IsTurn(q[i]) =>
         /\ q[i].turn \in 1 .. Len(answered) /\ answered[q[i].turn] = engine
  <2>1. ASSUME NEW i \in 1 .. Len(q), IsTurn(q[i]) PROVE q[i].turn \in Turns
    <3> HIDE DEF q
    <3>1. q[i] \in Event
      BY <1>1, ElementOfSeq
    <3> QED
      BY <2>1, <3>1 DEF Event, Complete, IsTurn
  <2>2. \A i \in 1 .. Len(q) : IsTurn(q[i]) =>
           q[i].turn <= Len(answered) /\ answered[q[i].turn] = engine
    BY DEF QueueInv
  <2> HIDE DEF q
  <2> QED
    BY <1>1, <2>1, <2>2 DEF Turns
<1>6. \A i \in 1 .. Len(ledger) : ledger[i].turn \in 1 .. Len(answered)
  <2>1. ASSUME NEW i \in 1 .. Len(ledger) PROVE ledger[i].turn \in Turns
    <3>1. ledger[i] \in Record
      BY <1>1, ElementOfSeq
    <3> QED
      BY <3>1 DEF Record
  <2> QED
    BY <1>1, <2>1 DEF QueueInv, Turns
<1> HIDE DEF q, p
<1>7. ASSUME NEW i \in 1 .. Len(p), IsTurn(p[i])
      PROVE  \/ i \in 1 .. Len(q) /\ p[i] = q[i]
             \/ /\ i = Len(p) /\ p[i].turn = Len(answered) + 1 /\ answered' # answered
                /\ Len(answered') = Len(answered) + 1
                /\ answered'[Len(answered) + 1] = engine
  <2>1. CASE i <= Len(q)
    BY <1>1, <1>2, <2>1
  <2>2. CASE i > Len(q)
    <3>1. i - Len(q) \in 1 .. Len(ev) /\ p[i] = ev[i - Len(q)]
      BY <1>1, <1>2, <2>2
    <3>2. /\ answered' = Append(answered, engine)
          /\ i - Len(q) = Len(ev) /\ ev[i - Len(q)].turn = Len(answered) + 1
      BY <3>1, <1>7 DEF Grows
    <3>3. Len(answered') = Len(answered) + 1 /\ answered'[Len(answered) + 1] = engine
      BY <3>2, <1>1, AppendProperties
    <3> QED
      BY <1>1, <1>2, <3>1, <3>2, <3>3, SMTT(30)
  <2> QED
    BY <1>1, <1>2, <2>1, <2>2
<1>8. ASSUME NEW i \in 1 .. Len(p), IsTurn(p[i])
      PROVE  p[i].turn <= Len(answered') /\ answered'[p[i].turn] = engine
  BY <1>1, <1>4, <1>5, <1>7, <1>8
<1>9. ASSUME NEW i \in 1 .. Len(p), NEW j \in 1 .. Len(p), i < j, IsTurn(p[i]), IsTurn(p[j])
      PROVE  p[i].turn < p[j].turn
  <2>1. i \in 1 .. Len(q) /\ p[i] = q[i]
    <3>1. i # Len(p)
      BY <1>1, <1>2, <1>9
    <3> QED
      BY <1>7, <1>9, <3>1
  <2>2. CASE j \in 1 .. Len(q) /\ p[j] = q[j]
    BY <1>9, <2>1, <2>2 DEF QueueInv, q
  <2>3. CASE p[j].turn = Len(answered) + 1
    BY <1>1, <1>5, <1>9, <2>1, <2>3
  <2> QED
    BY <1>7, <1>9, <2>2, <2>3
<1>10. ASSUME NEW i \in 1 .. Len(ledger)
       PROVE  /\ ledger[i].turn <= Len(answered')
              /\ ledger[i].engine = "realtime" => answered'[ledger[i].turn] = "realtime"
              /\ \A j \in 1 .. Len(p) : IsTurn(p[j]) => ledger[i].turn < p[j].turn
  <2>1. ledger[i].turn <= Len(answered')
    BY <1>1, <1>4, <1>6
  <2>2. ledger[i].engine = "realtime" => answered'[ledger[i].turn] = "realtime"
    BY <1>4, <1>6 DEF QueueInv
  <2>3. ASSUME NEW j \in 1 .. Len(p), IsTurn(p[j]) PROVE ledger[i].turn < p[j].turn
    <3>1. CASE j \in 1 .. Len(q) /\ p[j] = q[j]
      BY <2>3, <3>1 DEF QueueInv, q
    <3>2. CASE p[j].turn = Len(answered) + 1
      BY <1>1, <1>6, <3>2
    <3> QED
      BY <1>7, <2>3, <3>1, <3>2
  <2> QED
    BY <2>1, <2>2, <2>3
<1>11. LedgerInOrder'
  BY DEF QueueInv, LedgerInOrder, Grows
<1>12. engine' = engine /\ ledger' = ledger
  BY DEF Grows
<1>13. QueueInv'
  BY <1>8, <1>9, <1>10, <1>11, <1>12 DEF QueueInv, p, IsTurn
<1> QED
  BY <1>3, <1>13

\* Neither the phase nor the end of the session is a matter of the queues, as
\* long as the staged one stays empty until there is a staged session.
LEMMA SessionOnly ==
    ASSUME IInv,
           UNCHANGED <<engine, session, open, held, cancelled, pc, told, reader>>,
           engine = "realtime" => queue'["staged"] = queue["staged"]
    PROVE  Phase' /\ EndInv'
BY PhaseKept, EndKept DEF IInv

LEMMA HeardOK == ASSUME IInv, Heard PROVE IInv'
<1>1. Phase' /\ EndInv'
  BY SessionOnly DEF Heard, runnerVars
<1>2. QueueInv' /\ ChatInv'
  BY QueueKept, ChatKept DEF IInv, Heard, runnerVars, chatVars
<1>3. TypeOK' /\ HeardInv'
  BY DEF Heard, runnerVars, chatVars, IInv, TypeOK, HeardInv
<1> QED
  BY <1>1, <1>2, <1>3 DEF IInv

\* A turn more: what the chat has was answered before it.
LEMMA AnsweredMore ==
    ASSUME IInv, NEW e \in Engines, answered' = Append(answered, e), Len(answered) < MaxTurns
    PROVE  /\ answered' \in Seq(Engines) /\ Len(answered) + 1 \in Turns
           /\ Len(answered') = Len(answered) + 1 /\ answered'[Len(answered) + 1] = e
           /\ UNCHANGED <<reader, chat>> => ChatInv'
<1>1. answered \in Seq(Engines) /\ Len(answered) \in Nat
      /\ chat \in Seq(Turns) /\ Len(chat) \in Nat
  BY LenProperties DEF IInv, TypeOK
<1>2. /\ answered' \in Seq(Engines) /\ Len(answered) + 1 \in Turns
      /\ Len(answered') = Len(answered) + 1 /\ answered'[Len(answered) + 1] = e
      /\ \A n \in 1 .. Len(answered) : answered'[n] = answered[n]
  BY <1>1, RunnerAssumption, AppendProperties DEF Turns
<1>3. ASSUME UNCHANGED <<reader, chat>> PROVE ChatInv'
  <2>1. \A i \in 1 .. Len(chat) : chat[i] \in Turns
    BY <1>1, ElementOfSeq
  <2>2. \A i \in 1 .. Len(chat) : chat[i] <= Len(answered) =>
           chat[i] <= Len(answered) + 1 /\ answered'[chat[i]] = answered[chat[i]]
    BY <1>1, <1>2, <2>1, RunnerAssumption DEF Turns
  <2> QED
    BY <1>2, <1>3, <2>2 DEF IInv, ChatInv, ChatOnce
<1> QED
  BY <1>2, <1>3

\* What the realtime session may put into its queue it puts into the queue that
\* is being read.
LEMMA RealtimeOpen ==
    ASSUME IInv, open["realtime"] = "open"
    PROVE  /\ engine = "realtime" /\ session = "realtime" /\ told = 0
           /\ queue["staged"] = <<>>
BY DEF IInv, Phase, Before, Cut, Over

LEMMA RealtimeEmits ==
    ASSUME IInv, open["realtime"] = "open",
           UNCHANGED <<engine, session, open, held, cancelled, pc, told, reader, ledger>>,
           NEW ev \in Seq(Event), Emit("realtime", ev), Grows(ev)
    PROVE  Phase' /\ EndInv' /\ QueueInv' /\ queue' \in [Engines -> Seq(Event)]
<1>1. engine = "realtime"
  BY RealtimeOpen
<1>2. queue'["staged"] = queue["staged"]
  BY DEF Emit, IInv, TypeOK, Engines
<1> QED
  BY <1>2, SessionOnly, QueueGrows DEF IInv

LEMMA AnsweredOK == ASSUME IInv, NEW metered \in BOOLEAN, Answered(metered) PROVE IInv'
<1> DEFINE turn == [kind |-> "complete", turn |-> Len(answered) + 1]
           ev == IF metered THEN <<[kind |-> "usage"], turn>> ELSE <<turn>>
<1>1. /\ open["realtime"] = "open" /\ heard /\ heard' = FALSE
      /\ answered' = Append(answered, "realtime") /\ Emit("realtime", ev)
      /\ UNCHANGED <<engine, session, open, held, cancelled, pc, told, reader, ledger, chat,
                     saved, upstream, wire, failures>>
      /\ used' \in {used, used + 1} /\ spend' \in {spend, spend + 1}
  BY DEF Answered, runnerVars, chatVars
<1>2. engine = "realtime" /\ Len(answered) < MaxTurns
  BY <1>1, RealtimeOpen DEF IInv, HeardInv
<1>3. /\ answered' \in Seq(Engines) /\ Len(answered) + 1 \in Turns
      /\ Len(answered') = Len(answered) + 1 /\ ChatInv'
  BY <1>1, <1>2, AnsweredMore DEF Engines
<1>4. turn \in Event /\ [kind |-> "usage"] \in Event /\ ~IsTurn([kind |-> "usage"])
  BY <1>3 DEF Event, Complete, IsTurn
<1>5. ev \in Seq(Event) /\ Grows(ev)
  <2> HIDE DEF turn
  <2>1. CASE metered
    <3>1. ev = <<[kind |-> "usage"], turn>>
      BY <2>1
    <3> HIDE DEF ev
    <3>2. ev \in Seq(Event) /\ Len(ev) = 2 /\ ev[1] = [kind |-> "usage"] /\ ev[2] = turn
      BY <1>4, <3>1
    <3>3. ASSUME NEW i \in 1 .. Len(ev), IsTurn(ev[i])
          PROVE  i = Len(ev) /\ ev[i].turn = Len(answered) + 1
      <4>1. i = 2
        BY <1>4, <3>2, <3>3
      <4> QED
        BY <3>2, <4>1 DEF turn
    <3> QED
      BY <1>1, <1>2, <3>2, <3>3 DEF Grows, Emit
  <2>2. CASE ~metered
    <3>1. ev = <<turn>>
      BY <2>2
    <3> HIDE DEF ev
    <3>2. ev \in Seq(Event) /\ Len(ev) = 1 /\ ev[1] = turn
      BY <1>4, <3>1
    <3>3. ASSUME NEW i \in 1 .. Len(ev), IsTurn(ev[i])
          PROVE  i = Len(ev) /\ ev[i].turn = Len(answered) + 1
      BY <3>2 DEF turn
    <3> QED
      BY <1>1, <1>2, <3>2, <3>3 DEF Grows, Emit
  <2> QED
    BY <2>1, <2>2
<1>6. Phase' /\ EndInv' /\ QueueInv' /\ queue' \in [Engines -> Seq(Event)]
  <2> HIDE DEF ev
  <2> QED
    BY <1>1, <1>5, RealtimeEmits
<1>7. TypeOK'
  <2> HIDE DEF ev
  <2>1. TypeOK
    BY DEF IInv
  <2>2. used' \in Nat /\ spend' \in Nat /\ heard' \in BOOLEAN
    <3>1. used \in Nat /\ spend \in Nat
      BY <2>1 DEF TypeOK
    <3>2. used' \in {used, used + 1} /\ spend' \in {spend, spend + 1}
      BY <1>1
    <3>3. used' \in Nat /\ spend' \in Nat
      BY <3>1, <3>2
    <3>4. heard' \in BOOLEAN
      BY <1>1, Zenon
    <3> QED
      BY <3>3, <3>4
  <2> QED
    BY <1>1, <1>3, <1>6, <2>1, <2>2 DEF TypeOK
<1>8. HeardInv'
  BY <1>1, <1>2, <1>3, LenProperties DEF IInv, TypeOK, HeardInv, Turns
<1> QED
  BY <1>3, <1>6, <1>7, <1>8 DEF IInv

\* The upstream fails or ends: an error for the pump, or nothing.
LEMMA FailureOK ==
    ASSUME IInv, Fails \/ \E clean \in BOOLEAN : UpstreamEnds(clean)
    PROVE  IInv'
<1> DEFINE error == [kind |-> "error"]
<1>1. PICK ev \in {<<>>, <<error>>} :
        /\ open["realtime"] = "open" /\ Emit("realtime", ev)
        /\ UNCHANGED <<engine, session, open, held, cancelled, pc, told, reader, ledger, chat,
                       saved, wire, answered, heard, used, spend>>
        /\ upstream' \in BOOLEAN /\ failures' = failures + 1
  <2>1. CASE Fails
    BY <2>1 DEF Fails, runnerVars, chatVars, IInv, TypeOK
  <2>2. ASSUME NEW clean \in BOOLEAN, UpstreamEnds(clean)
        PROVE  \E ev \in {<<>>, <<error>>} :
                 /\ open["realtime"] = "open" /\ Emit("realtime", ev)
                 /\ UNCHANGED <<engine, session, open, held, cancelled, pc, told, reader,
                                ledger, chat, saved, wire, answered, heard, used, spend>>
                 /\ upstream' \in BOOLEAN /\ failures' = failures + 1
    BY <2>2 DEF UpstreamEnds, runnerVars, chatVars
  <2> QED
    BY <2>1, <2>2
<1>2. error \in Event /\ ~IsTurn(error)
  BY DEF Event, IsTurn
<1>3. ev \in Seq(Event) /\ \A i \in 1 .. Len(ev) : ~IsTurn(ev[i])
  <2> HIDE DEF error
  <2>1. CASE ev = <<>>
    BY <2>1, EmptySeq
  <2>2. CASE ev = <<error>>
    <3>1. ev \in Seq(Event) /\ Len(ev) = 1 /\ ev[1] = error
      BY <1>2, <2>2
    <3> QED
      BY <1>2, <3>1
  <2> QED
    BY <2>1, <2>2
<1>4. Grows(ev)
  BY <1>1, <1>3, RealtimeOpen DEF Grows, Emit
<1>5. Phase' /\ EndInv' /\ QueueInv' /\ queue' \in [Engines -> Seq(Event)]
  BY <1>1, <1>3, <1>4, RealtimeEmits
<1>6. TypeOK' /\ HeardInv'
  BY <1>1, <1>5 DEF IInv, TypeOK, HeardInv
<1>7. ChatInv'
  BY <1>1, ChatKept DEF IInv
<1> QED
  BY <1>5, <1>6, <1>7 DEF IInv

LEMMA StagedTurnOK == ASSUME IInv, StagedTurn PROVE IInv'
<1> DEFINE turn == [kind |-> "complete", turn |-> Len(answered) + 1]
<1>1. /\ session = "staged" /\ reader = "reading" /\ Len(answered) < MaxTurns
      /\ answered' = Append(answered, "staged") /\ chat' = Append(chat, Len(answered) + 1)
      /\ Emit("staged", <<turn>>)
      /\ UNCHANGED <<engine, session, open, held, cancelled, pc, told, reader, ledger,
                     saved, wire, upstream, heard, used, spend, failures>>
  BY DEF StagedTurn, runnerVars
<1>2. engine = "staged" /\ open["realtime"] # "open"
  BY <1>1 DEF IInv, Phase, Before, Cut, Over
<1>3. /\ answered' \in Seq(Engines) /\ Len(answered) + 1 \in Turns
      /\ Len(answered') = Len(answered) + 1 /\ answered'[Len(answered) + 1] = "staged"
  BY <1>1, AnsweredMore DEF Engines
<1>4. /\ answered \in Seq(Engines) /\ Len(answered) \in Nat
      /\ chat \in Seq(Turns) /\ Len(chat) \in Nat
  BY LenProperties DEF IInv, TypeOK
<1>5. QueueInv' /\ queue' \in [Engines -> Seq(Event)]
  <2>1. turn \in Event /\ turn.turn = Len(answered) + 1
    BY <1>3 DEF Event, Complete
  <2> HIDE DEF turn
  <2>2. <<turn>> \in Seq(Event) /\ Len(<<turn>>) = 1 /\ <<turn>>[1] = turn
    BY <2>1
  <2>3. Grows(<<turn>>)
    BY <1>1, <1>2, <2>1, <2>2 DEF Grows, Emit
  <2> QED
    BY <2>2, <2>3, QueueGrows DEF IInv
<1>6. Phase' /\ EndInv'
  BY <1>1, <1>2, SessionOnly
<1>7. /\ chat' \in Seq(Turns) /\ Len(chat') = Len(chat) + 1
      /\ chat'[Len(chat) + 1] = Len(answered) + 1
      /\ \A i \in 1 .. Len(chat) : chat'[i] = chat[i]
  BY <1>1, <1>3, <1>4, AppendProperties
<1>8. ChatInv'
  <2>1. \A i \in 1 .. Len(chat) : /\ chat[i] \in 1 .. Len(answered) /\ answered[chat[i]] = "staged"
                                  /\ \A j \in 1 .. Len(chat) : i < j => chat[i] < chat[j]
    <3>1. \A i \in 1 .. Len(chat) : chat[i] \in Turns
      BY <1>4, ElementOfSeq
    <3> QED
      BY <1>1, <1>4, <3>1, RunnerAssumption DEF IInv, ChatInv, Turns
  <2>2. \A n \in 1 .. Len(answered) : answered'[n] = answered[n]
    BY <1>1, <1>4, AppendProperties DEF Engines
  <2>3. ASSUME NEW i \in 1 .. Len(chat')
        PROVE  /\ chat'[i] \in 1 .. Len(answered') /\ answered'[chat'[i]] = "staged"
               /\ \A j \in 1 .. Len(chat') : i < j => chat'[i] < chat'[j]
    <3>1. CASE i \in 1 .. Len(chat)
      <4>1. chat'[i] \in 1 .. Len(answered) /\ answered'[chat'[i]] = "staged"
        BY <1>7, <2>1, <2>2, <3>1
      <4>2. ASSUME NEW j \in 1 .. Len(chat'), i < j PROVE chat'[i] < chat'[j]
        <5>1. CASE j \in 1 .. Len(chat)
          BY <1>7, <2>1, <3>1, <4>2, <5>1
        <5>2. CASE j = Len(chat) + 1
          BY <1>4, <1>7, <4>1, <5>2
        <5> QED
          BY <1>4, <1>7, <5>1, <5>2
      <4> QED
        BY <1>3, <1>4, <4>1, <4>2
    <3>2. CASE i = Len(chat) + 1
      BY <1>3, <1>4, <1>7, <3>2
    <3> QED
      BY <1>4, <1>7, <3>1, <3>2
  <2>4. ChatOnce'
    <3>1. DOMAIN chat' = 1 .. Len(chat')
      BY <1>7, LenProperties
    <3>2. ASSUME NEW i \in 1 .. Len(chat'), NEW j \in 1 .. Len(chat'), i # j
          PROVE  chat'[i] # chat'[j]
      BY <1>4, <1>7, <2>3, <3>2
    <3> QED
      BY <3>1, <3>2 DEF ChatOnce
  <2>5. \A i \in 1 .. Len(chat') : chat'[i] <= Len(answered')
    BY <1>3, <1>4, <2>3
  <2> QED
    BY <2>3, <2>4, <2>5 DEF ChatInv
<1>9. TypeOK' /\ HeardInv'
  BY <1>1, <1>2, <1>3, <1>4, <1>5, <1>7, RunnerAssumption DEF IInv, TypeOK, HeardInv
<1> QED
  BY <1>5, <1>6, <1>8, <1>9 DEF IInv

-----------------------------------------------------------------------------
(* What the pumps write into the ledger.                                   *)

\* The first events of the queue that is being read are recorded.
LEMMA LedgerGrows ==
    ASSUME TypeOK, QueueInv, NEW s \in Seq(Event), NEW name \in Engines,
           name = "realtime" => engine = "realtime",
           Len(s) <= Len(queue[engine]), \A m \in 1 .. Len(s) : s[m] = queue[engine][m],
           ledger' = ledger \o Recorded(s, name)
    PROVE  /\ ledger' \in Seq(Record) /\ LedgerInOrder'
           /\ \A i \in 1 .. Len(ledger') :
                 /\ ledger'[i].turn <= Len(answered)
                 /\ ledger'[i].engine = "realtime" => answered[ledger'[i].turn] = "realtime"
                 /\ \A j \in Len(s) + 1 .. Len(queue[engine]) :
                       IsTurn(queue[engine][j]) => ledger'[i].turn < queue[engine][j].turn
<1> DEFINE q == queue[engine]
           r == Recorded(s, name)
           l == ledger'
<1>1. /\ q \in Seq(Event) /\ Len(q) \in Nat /\ Len(s) \in Nat
      /\ answered \in Seq(Engines) /\ Len(answered) \in Nat
      /\ ledger \in Seq(Record) /\ Len(ledger) \in Nat
  BY LenProperties DEF TypeOK
<1>2. /\ r \in Seq(Record)
      /\ \A i \in 1 .. Len(r) :
            r[i].engine = name /\ \E m \in 1 .. Len(s) : IsTurn(s[m]) /\ r[i].turn = s[m].turn
      /\ \A i, j \in 1 .. Len(r) : i < j =>
            \E m, n \in 1 .. Len(s) : /\ m < n /\ IsTurn(s[m]) /\ IsTurn(s[n])
                                      /\ r[i].turn = s[m].turn /\ r[j].turn = s[n].turn
  BY RecordedOK
<1> HIDE DEF r, q
<1>2a. \A i \in 1 .. Len(r) :
          r[i].engine = name /\ \E m \in 1 .. Len(s) : IsTurn(s[m]) /\ r[i].turn = s[m].turn
  BY <1>2, Zenon
<1>2b. \A i, j \in 1 .. Len(r) : i < j =>
          \E m, n \in 1 .. Len(s) : /\ m < n /\ IsTurn(s[m]) /\ IsTurn(s[n])
                                    /\ r[i].turn = s[m].turn /\ r[j].turn = s[n].turn
  BY <1>2, Zenon
<1>3. Len(r) \in Nat /\ \A i \in 1 .. Len(r) : r[i].turn \in Turns
  <2>1. ASSUME NEW i \in 1 .. Len(r) PROVE r[i] \in Record
    BY <1>2, ElementOfSeq
  <2> QED
    BY <1>2, <2>1, LenProperties DEF Record
<1>4. \A i \in 1 .. Len(ledger) : ledger[i].turn \in Turns
  <2>1. ASSUME NEW i \in 1 .. Len(ledger) PROVE ledger[i] \in Record
    BY <1>1, ElementOfSeq
  <2> QED
    BY <2>1 DEF Record
<1>5. /\ l \in Seq(Record) /\ Len(l) = Len(ledger) + Len(r)
      /\ \A i \in 1 .. Len(l) : l[i] = IF i <= Len(ledger) THEN ledger[i] ELSE r[i - Len(ledger)]
  BY <1>1, <1>2, ConcatProperties DEF r
<1>6. ASSUME NEW i \in 1 .. Len(l)
      PROVE  \/ i \in 1 .. Len(ledger) /\ l[i] = ledger[i]
             \/ /\ i - Len(ledger) \in 1 .. Len(r) /\ l[i] = r[i - Len(ledger)]
                /\ i > Len(ledger)
  BY <1>1, <1>3, <1>5
<1> HIDE DEF l
<1>7. \A m \in 1 .. Len(s) : m \in 1 .. Len(q) /\ s[m] = q[m]
  BY <1>1 DEF q
<1>8. /\ \A i \in 1 .. Len(q) : IsTurn(q[i]) =>
            q[i].turn <= Len(answered) /\ answered[q[i].turn] = engine
      /\ \A i, j \in 1 .. Len(q) : (i < j /\ IsTurn(q[i]) /\ IsTurn(q[j])) =>
            q[i].turn < q[j].turn
      /\ \A i \in 1 .. Len(ledger) :
            /\ ledger[i].turn <= Len(answered)
            /\ ledger[i].engine = "realtime" => answered[ledger[i].turn] = "realtime"
            /\ \A j \in 1 .. Len(q) : IsTurn(q[j]) => ledger[i].turn < q[j].turn
      /\ \A i, j \in 1 .. Len(ledger) : i < j => ledger[i].turn < ledger[j].turn
  BY <1>1, LenProperties DEF QueueInv, LedgerInOrder, q
<1>9. ASSUME NEW i \in 1 .. Len(l)
      PROVE  /\ l[i].turn <= Len(answered)
             /\ l[i].engine = "realtime" => answered[l[i].turn] = "realtime"
             /\ \A j \in Len(s) + 1 .. Len(q) : IsTurn(q[j]) => l[i].turn < q[j].turn
  <2>1. CASE i \in 1 .. Len(ledger) /\ l[i] = ledger[i]
    <3>1. \A j \in Len(s) + 1 .. Len(q) : j \in 1 .. Len(q)
      BY <1>1
    <3> QED
      BY <1>8, <2>1, <3>1
  <2>2. CASE i - Len(ledger) \in 1 .. Len(r) /\ l[i] = r[i - Len(ledger)]
    <3>1. PICK m \in 1 .. Len(s) : IsTurn(s[m]) /\ l[i].turn = s[m].turn
      BY <1>2a, <2>2, Zenon
    <3>2. m \in 1 .. Len(q) /\ IsTurn(q[m]) /\ l[i].turn = q[m].turn /\ l[i].engine = name
      BY <1>2, <1>7, <2>2, <3>1
    <3>3. \A j \in Len(s) + 1 .. Len(q) : m < j /\ j \in 1 .. Len(q)
      BY <1>1, <3>1
    <3>4. q[m].turn <= Len(answered) /\ answered[q[m].turn] = engine
      BY <1>8, <3>2
    <3>5. name = "realtime" => engine = "realtime"
      OBVIOUS
    <3>6. ASSUME NEW j \in Len(s) + 1 .. Len(q), IsTurn(q[j]) PROVE q[m].turn < q[j].turn
      BY <1>8, <3>2, <3>3, <3>6
    <3> QED
      BY <3>2, <3>4, <3>5, <3>6
  <2> QED
    BY <1>6, <2>1, <2>2
<1>10. ASSUME NEW i \in 1 .. Len(l), NEW j \in 1 .. Len(l), i < j
       PROVE  l[i].turn < l[j].turn
  <2>1. CASE j \in 1 .. Len(ledger) /\ l[j] = ledger[j]
    <3>1. i \in 1 .. Len(ledger) /\ l[i] = ledger[i]
      BY <1>1, <1>5, <1>10, <2>1
    <3> QED
      BY <1>8, <1>10, <2>1, <3>1
  <2>2. CASE /\ j - Len(ledger) \in 1 .. Len(r) /\ l[j] = r[j - Len(ledger)]
             /\ i \in 1 .. Len(ledger) /\ l[i] = ledger[i]
    <3>1. PICK n \in 1 .. Len(s) : IsTurn(s[n]) /\ l[j].turn = s[n].turn
      BY <1>2a, <2>2, Zenon
    <3>2. n \in 1 .. Len(q) /\ IsTurn(q[n]) /\ l[j].turn = q[n].turn
      BY <1>7, <3>1
    <3>3. ledger[i].turn < q[n].turn
      BY <1>8, <2>2, <3>2
    <3> QED
      BY <2>2, <3>2, <3>3
  <2>3. CASE /\ j - Len(ledger) \in 1 .. Len(r) /\ l[j] = r[j - Len(ledger)]
             /\ i - Len(ledger) \in 1 .. Len(r) /\ l[i] = r[i - Len(ledger)]
    <3> DEFINE a == i - Len(ledger)
               b == j - Len(ledger)
    <3>1. a \in 1 .. Len(r) /\ b \in 1 .. Len(r) /\ a < b /\ l[i] = r[a] /\ l[j] = r[b]
      BY <1>1, <1>10, <2>3
    <3> HIDE DEF a, b
    <3>2. PICK m \in 1 .. Len(s), n \in 1 .. Len(s) :
            /\ m < n /\ IsTurn(s[m]) /\ IsTurn(s[n])
            /\ r[a].turn = s[m].turn /\ r[b].turn = s[n].turn
      BY <1>2b, <3>1, Zenon
    <3>3. /\ m \in 1 .. Len(q) /\ IsTurn(q[m]) /\ l[i].turn = q[m].turn
          /\ n \in 1 .. Len(q) /\ IsTurn(q[n]) /\ l[j].turn = q[n].turn
      BY <1>7, <3>1, <3>2
    <3>4. q[m].turn < q[n].turn
      BY <1>8, <3>2, <3>3
    <3> QED
      BY <3>3, <3>4
  <2> QED
    BY <1>6, <2>1, <2>2, <2>3
<1>11. LedgerInOrder'
  <2>1. DOMAIN l = 1 .. Len(l)
    BY <1>5, LenProperties
  <2> QED
    BY <1>10, <2>1 DEF LedgerInOrder, l
<1> QED
  BY <1>5, <1>9, <1>11 DEF l, q

\* An event of the queue is only read by the pump of the engine that is on.
LEMMA PumpOfEngine ==
    ASSUME IInv, NEW e \in Engines, pc[e] = "get", e \notin cancelled
    PROVE  e = engine /\ pc[engine] # "none"
BY DEF IInv, TypeOK, Phase, Before, Cut, Over, Engines, Realtimers

LEMMA ForwardOK == ASSUME IInv, NEW e \in Engines, Forward(e) PROVE IInv'
<1> DEFINE q == queue[e]
           s == <<Head(q)>>
<1>1. e = engine
  BY PumpOfEngine DEF Forward
<1>2. /\ q # <<>> /\ queue' = [queue EXCEPT ![e] = Tail(q)]
      /\ ledger' = ledger \o Recorded(s, engine)
      /\ spend' = spend + Metered(s)
      /\ pc' \in {[pc EXCEPT ![e] = "send"], [pc EXCEPT ![e] = "switch"],
                  [pc EXCEPT ![e] = "over"]}
      /\ wire' \in {wire, Append(wire, e)}
      /\ UNCHANGED <<engine, session, open, upstream, heard, held, cancelled,
                     reader, chat, saved, answered, told, used, failures>>
  BY DEF Forward, Begin, chatVars
<1>3. q \in Seq(Event) /\ Len(q) \in Nat \ {0} /\ pc[e] = "get"
  <2>1. q \in Seq(Event)
    BY DEF IInv, TypeOK
  <2> QED
    BY <1>2, <2>1, EmptySeq DEF Forward
<1> HIDE DEF q
<1>4. /\ Head(q) \in Event /\ Tail(q) \in Seq(Event) /\ Head(q) = q[1]
      /\ Len(Tail(q)) = Len(q) - 1
      /\ \A i \in 1 .. Len(Tail(q)) : Tail(q)[i] = q[i + 1]
  BY <1>2, <1>3, HeadTailProperties
<1>5. s \in Seq(Event) /\ Len(s) = 1 /\ s[1] = q[1]
  BY <1>4
<1> HIDE DEF s
<1>6. /\ ledger' \in Seq(Record) /\ LedgerInOrder'
      /\ \A i \in 1 .. Len(ledger') :
            /\ ledger'[i].turn <= Len(answered)
            /\ ledger'[i].engine = "realtime" => answered[ledger'[i].turn] = "realtime"
            /\ \A j \in 2 .. Len(q) : IsTurn(q[j]) => ledger'[i].turn < q[j].turn
  <2>1. /\ Len(s) <= Len(queue[engine]) /\ \A m \in 1 .. Len(s) : s[m] = queue[engine][m]
        /\ Len(s) + 1 = 2 /\ queue[engine] = q
    BY <1>1, <1>3, <1>5 DEF q
  <2>2. TypeOK /\ QueueInv /\ engine \in Engines
    BY DEF IInv, TypeOK
  <2> QED
    BY <1>2, <1>5, <2>1, <2>2, LedgerGrows
<1>7. QueueInv'
  <2> DEFINE p == Tail(q)
  <2>1. queue'[engine'] = p /\ engine' = engine /\ answered' = answered
    BY <1>1, <1>2 DEF IInv, TypeOK
  <2>2. /\ \A i \in 1 .. Len(q) : IsTurn(q[i]) =>
              q[i].turn <= Len(answered) /\ answered[q[i].turn] = engine
        /\ \A i, j \in 1 .. Len(q) : (i < j /\ IsTurn(q[i]) /\ IsTurn(q[j])) =>
              q[i].turn < q[j].turn
    BY <1>1 DEF IInv, QueueInv, q
  <2>3. \A i \in 1 .. Len(p) : p[i] = q[i + 1] /\ i + 1 \in 2 .. Len(q) /\ i + 1 \in 1 .. Len(q)
    BY <1>3, <1>4
  <2> HIDE DEF p
  <2>4. \A i \in 1 .. Len(p) : IsTurn(p[i]) =>
           p[i].turn <= Len(answered) /\ answered[p[i].turn] = engine
    BY <2>2, <2>3
  <2>5. ASSUME NEW i \in 1 .. Len(p), NEW j \in 1 .. Len(p), i < j, IsTurn(p[i]), IsTurn(p[j])
        PROVE  p[i].turn < p[j].turn
    BY <2>2, <2>3, <2>5
  <2>6. ASSUME NEW i \in 1 .. Len(ledger'), NEW j \in 1 .. Len(p), IsTurn(p[j])
        PROVE  ledger'[i].turn < p[j].turn
    BY <1>6, <2>3, <2>6
  <2> QED
    BY <1>6, <2>1, <2>4, <2>5, <2>6 DEF QueueInv, IsTurn
<1>8. Phase' /\ EndInv'
  <2>1. \A t \in Tasks : pc[t] = "none" => pc'[t] = "none"
    BY <1>2, <1>3 DEF IInv, TypeOK
  <2>2. engine = "realtime" => queue'["staged"] = queue["staged"]
    BY <1>1, <1>2 DEF IInv, TypeOK, Engines
  <2> QED
    BY <1>2, <2>1, <2>2, PhaseKept, EndKept DEF IInv
<1>9. TypeOK'
  <2>1. queue' \in [Engines -> Seq(Event)]
    BY <1>2, <1>4 DEF IInv, TypeOK
  <2>2. pc' \in [Tasks -> {"none", "get", "send", "switch", "closing", "sleep", "over"}]
    BY <1>2 DEF IInv, TypeOK
  <2>3. wire' \in Seq(Tasks)
    <3>1. TypeOK /\ e \in Tasks /\ wire \in Seq(Tasks)
      BY DEF IInv, TypeOK, Tasks
    <3> QED
      BY <1>2, <3>1, WireTypes
  <2>4. spend' \in Nat
    <3>1. Metered(s) \in Nat /\ spend \in Nat
      BY <1>5, MeteredOK DEF IInv, TypeOK
    <3> QED
      BY <1>2, <3>1
  <2> QED
    BY <1>2, <1>6, <2>1, <2>2, <2>3, <2>4 DEF IInv, TypeOK
<1>10. ChatInv' /\ HeardInv'
  BY <1>2, ChatKept DEF IInv, HeardInv
<1> QED
  BY <1>7, <1>8, <1>9, <1>10 DEF IInv

-----------------------------------------------------------------------------
(* The handover and the end of the session.                                *)

\* The first task to get its frame out finds the session as it was opened, and
\* the socket still up: a teardown would have cancelled it.
LEMMA FrameIsFirst ==
    ASSUME IInv, NEW t \in Realtimers, SwitchSent(t)
    PROVE  /\ told = 0 /\ told' = 1 /\ session = "realtime" /\ engine = "realtime"
           /\ held = Realtimers /\ reader = "reading" /\ t \in Tasks
           /\ pc["staged"] = "none" /\ queue["staged"] = <<>> /\ open["staged"] = "no"
           /\ wire' \in Seq(Tasks)
<1>1. pc[t] = "switch" /\ t \notin cancelled /\ told' = told + 1
      /\ wire # <<>> /\ wire' = Tail(wire)
  BY DEF SwitchSent
<1>2. Before /\ engine = "realtime" /\ held = Realtimers
  BY <1>1 DEF IInv, Phase, Before, Cut, Over
<1>3. reader = "reading"
  BY <1>1, <1>2 DEF IInv, EndInv
<1>4. t \in Tasks
  BY DEF Realtimers, Tasks, Engines
<1>5. wire' \in Seq(Tasks)
  BY <1>1, <1>4, WireTypes DEF IInv
<1> QED
  BY <1>1, <1>2, <1>3, <1>4, <1>5 DEF Before

LEMMA InterruptedOK == ASSUME IInv, NEW t \in Realtimers, Interrupted(t) PROVE IInv'
<1>1. /\ told = 0 /\ told' = 1 /\ session = "realtime" /\ engine = "realtime"
      /\ held = Realtimers /\ reader = "reading" /\ t \in Tasks
      /\ pc["staged"] = "none" /\ queue["staged"] = <<>> /\ open["staged"] = "no"
      /\ wire' \in Seq(Tasks)
  BY FrameIsFirst DEF Interrupted
<1>2. /\ cancelled' = cancelled \cup Realtimers /\ held' = {} /\ session' = "none"
      /\ open' = CloseOld("realtime") /\ pc' = [pc EXCEPT ![t] = "closing"]
      /\ UNCHANGED <<engine, upstream, heard, queue, reader, ledger, chat, saved,
                     answered, used, spend, failures>>
  BY <1>1 DEF Interrupted, chatVars
<1>3. TypeOK
  BY DEF IInv
<1>4. open'["realtime"] = "closed" /\ open'["staged"] = "no"
      /\ open' \in [Engines -> {"no", "open", "closed"}]
  BY <1>1, <1>2, <1>3 DEF CloseOld, Engines, TypeOK
<1>5. Phase'
  <2>1. pc'["staged"] = "none"
    BY <1>1, <1>2, <1>3 DEF TypeOK, Tasks, Engines, Realtimers
  <2> QED
    BY <1>1, <1>2, <1>4, <2>1 DEF Phase, Cut
<1>6. EndInv'
  BY <1>1, <1>2 DEF EndInv, NothingOpenAfterwards
<1>7. QueueInv' /\ ChatInv'
  BY <1>2, QueueKept, ChatKept DEF IInv
<1>8. HeardInv'
  BY <1>2, <1>4 DEF IInv, HeardInv
<1>9. TypeOK'
  BY <1>1, <1>2, <1>3, <1>4 DEF TypeOK, Realtimers, Tasks
<1> QED
  BY <1>5, <1>6, <1>7, <1>8, <1>9 DEF IInv

\* The staged session starts with an empty queue, after all that was recorded.
LEMMA HandOverOK ==
    ASSUME IInv, NEW t \in Realtimers, NEW k \in 0 .. Len(queue["realtime"]), HandOver(t, k)
    PROVE  IInv'
<1> DEFINE q == queue["realtime"]
           s == SubSeq(q, 1, k)
           p == SubSeq(q, k + 1, Len(q))
<1>1. /\ told = 0 /\ told' = 1 /\ session = "realtime" /\ engine = "realtime"
      /\ held = Realtimers /\ reader = "reading" /\ t \in Tasks
      /\ pc["staged"] = "none" /\ queue["staged"] = <<>> /\ open["staged"] = "no"
      /\ wire' \in Seq(Tasks)
  BY FrameIsFirst DEF HandOver
<1>2. /\ cancelled' = cancelled \cup Realtimers /\ held' = {"staged"}
      /\ session' = "staged" /\ engine' = "staged"
      /\ open' = [CloseOld("realtime") EXCEPT !["staged"] = "open"]
      /\ pc' = [pc EXCEPT ![t] = "over", !["staged"] = "get"]
      /\ ledger' = ledger \o Recorded(s, "staged") /\ spend' = spend + Metered(s)
      /\ queue' = [queue EXCEPT !["realtime"] = p]
      /\ UNCHANGED <<upstream, heard, reader, chat, saved, answered, used, failures>>
  BY <1>1 DEF HandOver, chatVars
<1>3. TypeOK /\ QueueInv
  BY DEF IInv
<1>4. open'["realtime"] = "closed" /\ open'["staged"] = "open"
      /\ open' \in [Engines -> {"no", "open", "closed"}]
  BY <1>1, <1>2, <1>3 DEF CloseOld, Engines, TypeOK
<1>5. q \in Seq(Event) /\ Len(q) \in Nat
  <2>1. q \in Seq(Event)
    BY <1>3 DEF TypeOK, Engines
  <2> QED
    BY <2>1, LenProperties
<1>6. /\ s \in Seq(Event) /\ Len(s) = k /\ \A m \in 1 .. Len(s) : s[m] = q[m]
      /\ p \in Seq(Event)
  <2>1. /\ s \in Seq(Event) /\ Len(s) = k /\ \A m \in 1 .. k : s[m] = q[m]
    <3>1. k \in Int /\ k <= Len(q) /\ 1 \in Int
      BY <1>5
    <3>2. \A m \in 1 .. k : m \in 1 .. Len(q)
      BY <1>5
    <3> QED
      BY <1>5, <3>1, <3>2
  <2>2. p \in Seq(Event)
    BY <1>5
  <2> QED
    BY <2>1, <2>2
<1> HIDE DEF s, p
<1>7. /\ ledger' \in Seq(Record) /\ LedgerInOrder'
      /\ \A i \in 1 .. Len(ledger') :
            /\ ledger'[i].turn <= Len(answered)
            /\ ledger'[i].engine = "realtime" => answered[ledger'[i].turn] = "realtime"
  <2>1. queue[engine] = q /\ "staged" \in Engines /\ "staged" # "realtime"
    BY <1>1 DEF Engines
  <2>2. Len(s) <= Len(queue[engine]) /\ \A m \in 1 .. Len(s) : s[m] = queue[engine][m]
    BY <1>5, <1>6, <2>1
  <2> QED
    BY <1>2, <1>3, <1>6, <2>1, <2>2, LedgerGrows
<1>8. queue' \in [Engines -> Seq(Event)] /\ queue'[engine'] = <<>>
  BY <1>1, <1>2, <1>3, <1>6 DEF TypeOK, Engines
<1>9. QueueInv'
  <2>1. Len(queue'[engine']) = 0
    BY <1>8, EmptySeq
  <2> QED
    BY <1>2, <1>7, <2>1, SMTT(30) DEF QueueInv
<1>10. Phase'
  BY <1>1, <1>2, <1>4 DEF Phase, Over
<1>11. EndInv'
  BY <1>1, <1>2 DEF EndInv, NothingOpenAfterwards
<1>12. ChatInv' /\ HeardInv'
  BY <1>2, <1>4, ChatKept DEF IInv, HeardInv
<1>13. TypeOK'
  <2>1. spend' \in Nat
    <3>1. Metered(s) \in Nat /\ spend \in Nat
      BY <1>3, <1>6, MeteredOK DEF TypeOK
    <3> QED
      BY <1>2, <3>1
  <2>2. pc' \in [Tasks -> {"none", "get", "send", "switch", "closing", "sleep", "over"}]
    BY <1>2, <1>3 DEF TypeOK
  <2> QED
    BY <1>1, <1>2, <1>3, <1>4, <1>7, <1>8, <2>1, <2>2
    DEF TypeOK, Realtimers, Tasks, Engines
<1> QED
  BY <1>9, <1>10, <1>11, <1>12, <1>13 DEF IInv

LEMMA DisconnectOK == ASSUME IInv, Disconnect PROVE IInv'
<1>1. Phase'
  BY PhaseKept DEF IInv, Disconnect
<1>2. EndInv'
  BY DEF Disconnect, EndInv, NothingOpenAfterwards
<1>3. QueueInv'
  BY QueueKept DEF IInv, Disconnect, chatVars
<1>4. ChatInv'
  BY DEF IInv, Disconnect, ChatInv, ChatOnce, chatVars
<1>5. TypeOK' /\ HeardInv'
  BY DEF IInv, Disconnect, TypeOK, HeardInv, chatVars
<1> QED
  BY <1>1, <1>2, <1>3, <1>4, <1>5 DEF IInv

\* The session the runner holds is the one that may be open.
LEMMA CloseSessionOK == ASSUME IInv, CloseSession PROVE IInv'
<1> DEFINE ev == <<[kind |-> "end"]>>
<1>1. /\ reader = "flushing" /\ reader' = "closed" /\ open' = CloseOld(session)
      /\ queue' = [e \in Engines |->
                      IF e = session THEN Append(queue[e], [kind |-> "end"])
                      ELSE queue[e]]
      /\ UNCHANGED <<engine, session, upstream, heard, pc, held, cancelled, wire,
                     ledger, chat, saved, answered, told, used, spend, failures>>
  BY DEF CloseSession, chatVars
<1>2. TypeOK /\ Phase /\ QueueInv
  BY DEF IInv
<1>3. session = "none" \/ session = engine
  BY <1>2 DEF Phase, Before, Cut, Over
<1>4. \A e \in Engines : /\ open'[e] = IF e = session THEN "closed" ELSE open[e]
                         /\ open'[e] # "open"
  BY <1>1, <1>2 DEF CloseOld, TypeOK, Phase, Before, Cut, Over, Engines
<1>5. open' \in [Engines -> {"no", "open", "closed"}]
  BY <1>1, <1>2 DEF CloseOld, TypeOK
<1>6. Phase'
  BY <1>1, <1>2, <1>4 DEF Phase, Before, Cut, Over, Engines, Realtimers
<1>7. EndInv'
  BY <1>1, <1>4 DEF IInv, EndInv, NothingOpenAfterwards
<1>8. QueueInv' /\ queue' \in [Engines -> Seq(Event)]
  <2>1. CASE session = "none"
    <3>1. \A e \in Engines : queue'[e] = queue[e]
      BY <1>1, <2>1 DEF Engines
    <3>2. engine \in Engines /\ queue' \in [Engines -> Seq(Event)]
      BY <1>1, <1>2, <2>1, <3>1 DEF TypeOK
    <3> QED
      BY <1>1, <1>2, <3>1, <3>2, QueueKept
  <2>2. CASE session = engine
    <3>1. [kind |-> "end"] \in Event /\ ~IsTurn([kind |-> "end"])
      BY DEF Event, IsTurn
    <3>2. ev \in Seq(Event) /\ \A i \in 1 .. Len(ev) : ~IsTurn(ev[i])
      BY <3>1
    <3>3. queue' = [queue EXCEPT ![engine] = @ \o ev]
      <4>1. queue \in [Engines -> Seq(Event)] /\ engine \in Engines
        BY <1>2 DEF TypeOK
      <4>2. Append(queue[engine], [kind |-> "end"]) = queue[engine] \o ev
        BY <3>1, <4>1, AppendIsConcat
      <4> QED
        BY <1>1, <2>2, <4>1, <4>2
    <3>4. Grows(ev)
      BY <1>1, <3>2, <3>3 DEF Grows
    <3> QED
      BY <1>2, <3>2, <3>4, QueueGrows
  <2> QED
    BY <1>3, <2>1, <2>2
<1>9. ChatInv'
  BY <1>1 DEF IInv, ChatInv, ChatOnce
<1>10. HeardInv'
  BY <1>1, <1>4 DEF IInv, HeardInv, Engines
<1>11. TypeOK'
  BY <1>1, <1>2, <1>5, <1>8 DEF TypeOK
<1> QED
  BY <1>6, <1>7, <1>8, <1>9, <1>10, <1>11 DEF IInv

\* What the teardown would write was answered by the realtime engine, and no
\* turn of it twice.
LEMMA PendingOK ==
    ASSUME TypeOK, QueueInv
    PROVE  /\ Pending \in Seq(Turns)
           /\ \A i \in 1 .. Len(Pending) : answered[Pending[i]] = "realtime"
           /\ \A i, j \in 1 .. Len(Pending) : i < j => Pending[i] < Pending[j]
<1> DEFINE R == [turn : Turns, engine : Engines \ {"staged"}]
           k == Kept(ledger, R)
           w == Pending
<1>1. ledger \in Seq(Record) /\ Len(ledger) \in Nat
  BY LenProperties DEF TypeOK
<1>2. /\ k \in Seq(Record \cap R)
      /\ \A i \in 1 .. Len(k) : \E m \in 1 .. Len(ledger) : k[i] = ledger[m]
      /\ \A i, j \in 1 .. Len(k) : i < j =>
            \E m, n \in 1 .. Len(ledger) : m < n /\ k[i] = ledger[m] /\ k[j] = ledger[n]
  <2>1. k \in Seq(Record \cap R) /\ Ordered(k, ledger)
    BY <1>1, KeptOK
  <2> QED
    BY <2>1 DEF Ordered
<1>3. w = [i \in DOMAIN k |-> k[i].turn]
  BY DEF Pending
<1> HIDE DEF k, w
<1>3a. \A i, j \in 1 .. Len(k) : i < j =>
          \E m, n \in 1 .. Len(ledger) : m < n /\ k[i] = ledger[m] /\ k[j] = ledger[n]
  BY <1>2, Zenon
<1>4. /\ Len(k) \in Nat /\ DOMAIN k = 1 .. Len(k)
      /\ \A i \in 1 .. Len(k) : k[i] \in Record \cap R
  BY <1>2, LenProperties, ElementOfSeq
<1>5. \A i \in 1 .. Len(k) : k[i].turn \in Turns /\ k[i].engine = "realtime"
  BY <1>4 DEF Record, Engines
<1>6. w \in Seq(Turns) /\ Len(w) = Len(k) /\ \A i \in 1 .. Len(w) : w[i] = k[i].turn
  <2>1. w \in [1 .. Len(k) -> Turns]
    BY <1>3, <1>4, <1>5
  <2>2. w \in Seq(Turns) /\ Len(w) = Len(k)
    BY <1>4, <2>1, IsASeq, LenProperties
  <2> QED
    BY <1>3, <1>4, <2>2
<1>7. ASSUME NEW i \in 1 .. Len(w) PROVE answered[w[i]] = "realtime"
  <2>1. PICK m \in 1 .. Len(ledger) : k[i] = ledger[m]
    BY <1>2, <1>6
  <2> QED
    BY <1>5, <1>6, <2>1 DEF QueueInv
<1>8. ASSUME NEW i \in 1 .. Len(w), NEW j \in 1 .. Len(w), i < j
      PROVE  w[i] < w[j]
  <2>1. PICK m \in 1 .. Len(ledger), n \in 1 .. Len(ledger) :
          m < n /\ k[i] = ledger[m] /\ k[j] = ledger[n]
    <3>1. i \in 1 .. Len(k) /\ j \in 1 .. Len(k)
      BY <1>6
    <3> QED
      BY <1>3a, <1>8, <3>1, Zenon
  <2>2. m \in DOMAIN ledger /\ n \in DOMAIN ledger /\ m < n
    BY <1>1, <2>1, LenProperties
  <2>3. LedgerInOrder
    BY DEF QueueInv
  <2>4. ledger[m].turn < ledger[n].turn
    BY <2>2, <2>3 DEF LedgerInOrder
  <2> QED
    BY <1>6, <2>1, <2>4
<1> QED
  BY <1>6, <1>7, <1>8 DEF w

\* The client wrote what the staged engine answered, the teardown what the
\* realtime one did.
LEMMA PersistOK == ASSUME IInv, NEW ok \in BOOLEAN, Persist(ok) PROVE IInv'
<1> DEFINE w == Pending
<1>1. /\ reader = "closed" /\ reader' = "done" /\ saved' \in {"yes", "failed"}
      /\ chat' = chat \/ chat' = chat \o w
      /\ UNCHANGED <<engine, session, open, upstream, heard, queue, pc, held, cancelled,
                     wire, ledger, answered, told, used, spend, failures>>
  BY DEF Persist
<1>2. TypeOK /\ Phase /\ EndInv /\ QueueInv /\ ChatInv
  BY DEF IInv
<1>3. /\ w \in Seq(Turns) /\ \A i \in 1 .. Len(w) : answered[w[i]] = "realtime"
      /\ \A i, j \in 1 .. Len(w) : i < j => w[i] < w[j]
  BY <1>2, PendingOK
<1> HIDE DEF w
<1>4. Phase'
  BY <1>1, <1>2, PhaseKept
<1>5. EndInv'
  BY <1>1, <1>2 DEF EndInv, NothingOpenAfterwards
<1>6. QueueInv'
  BY <1>1, <1>2, QueueKept
<1>7. chat' \in Seq(Turns) /\ ChatInv'
  <2>1. CASE chat' = chat
    BY <1>1, <1>2, <2>1 DEF TypeOK, ChatInv, ChatOnce
  <2>2. CASE chat' = chat \o w
    <3>1. chat \in Seq(Turns) /\ Len(chat) \in Nat /\ Len(w) \in Nat
      BY <1>2, <1>3, LenProperties DEF TypeOK
    <3>2. /\ chat' \in Seq(Turns) /\ Len(chat') = Len(chat) + Len(w)
          /\ \A i \in 1 .. Len(chat') :
                chat'[i] = IF i <= Len(chat) THEN chat[i] ELSE w[i - Len(chat)]
      BY <1>3, <2>2, <3>1, ConcatProperties
    <3>3. /\ \A i \in 1 .. Len(chat) : answered[chat[i]] = "staged" /\ chat[i] \in Turns
          /\ \A i, j \in 1 .. Len(chat) : i < j => chat[i] < chat[j]
      BY <1>1, <1>2, <3>1, ElementOfSeq DEF ChatInv
    <3>4. \A i \in 1 .. Len(w) : w[i] \in Turns
      BY <1>3, ElementOfSeq
    <3>5. ASSUME NEW i \in 1 .. Len(chat'), NEW j \in 1 .. Len(chat'), i < j
          PROVE  chat'[i] # chat'[j]
      <4>1. CASE j <= Len(chat)
        <5>1. i \in 1 .. Len(chat) /\ j \in 1 .. Len(chat)
          BY <3>1, <3>2, <3>5, <4>1
        <5>2. chat'[i] < chat'[j] /\ chat'[i] \in Nat /\ chat'[j] \in Nat
          BY <3>1, <3>2, <3>3, <3>5, <5>1 DEF Turns
        <5> QED
          BY <5>2
      <4>2. CASE i <= Len(chat) /\ j > Len(chat)
        <5>1. i \in 1 .. Len(chat) /\ j - Len(chat) \in 1 .. Len(w)
          BY <3>1, <3>2, <4>2
        <5>2. chat'[i] = chat[i] /\ chat'[j] = w[j - Len(chat)]
          BY <3>1, <3>2, <4>2, <5>1
        <5>3. answered[chat'[i]] = "staged" /\ answered[chat'[j]] = "realtime"
          BY <1>3, <3>3, <5>1, <5>2
        <5> QED
          BY <5>3
      <4>3. CASE i > Len(chat)
        <5> DEFINE a == i - Len(chat)
                   b == j - Len(chat)
        <5>1. /\ a \in 1 .. Len(w) /\ b \in 1 .. Len(w) /\ a < b
              /\ chat'[i] = w[a] /\ chat'[j] = w[b]
          BY <3>1, <3>2, <3>5, <4>3
        <5> HIDE DEF a, b
        <5>2. w[a] < w[b] /\ w[a] \in Nat /\ w[b] \in Nat
          BY <1>3, <3>4, <5>1 DEF Turns
        <5> QED
          BY <5>1, <5>2
      <4> QED
        BY <3>1, <3>2, <3>5, <4>1, <4>2, <4>3
    <3>6. ChatOnce'
      <4>1. DOMAIN chat' = 1 .. Len(chat') /\ Len(chat') \in Nat
        BY <3>2, LenProperties
      <4>2. ASSUME NEW i \in 1 .. Len(chat'), NEW j \in 1 .. Len(chat'), i # j
            PROVE  chat'[i] # chat'[j]
        <5>1. i < j \/ j < i
          BY <4>1, <4>2
        <5> QED
          BY <3>5, <5>1
      <4> QED
        BY <4>1, <4>2 DEF ChatOnce
    <3> QED
      BY <1>1, <3>2, <3>6 DEF ChatInv
  <2> QED
    BY <1>1, <2>1, <2>2
<1>8. TypeOK'
  BY <1>1, <1>2, <1>7 DEF TypeOK
<1>9. HeardInv'
  BY <1>1 DEF IInv, HeardInv
<1> QED
  BY <1>4, <1>5, <1>6, <1>7, <1>8, <1>9 DEF IInv

-----------------------------------------------------------------------------
(* The theorems.                                                           *)

LEMMA StutterOK == ASSUME IInv, UNCHANGED vars PROVE IInv'
<1>1. TypeOK'
  BY DEF IInv, TypeOK, vars
<1>2. Phase' /\ EndInv'
  BY SessionOnly DEF vars
<1>3. QueueInv' /\ ChatInv' /\ HeardInv'
  BY QueueKept, ChatKept DEF IInv, HeardInv, vars
<1> QED
  BY <1>1, <1>2, <1>3 DEF IInv

LEMMA StepOK == ASSUME IInv, [Next]_vars PROVE IInv'
<1>1. CASE Upstream
  BY <1>1, HeardOK, AnsweredOK, FailureOK DEF Upstream
<1>2. CASE StagedTurn
  BY <1>2, StagedTurnOK
<1>3. ASSUME NEW e \in Engines, Pump(e) PROVE IInv'
  BY <1>3, ForwardOK, SentOK DEF Pump
<1>4. CASE Govern
  BY <1>4, GovernOK
<1>5. ASSUME NEW t \in Realtimers, HandoverStep(t) PROVE IInv'
  <2>1. CASE Interrupted(t)
    BY <2>1, InterruptedOK
  <2>2. ASSUME NEW k \in 0 .. (IF t = "realtime" THEN Len(queue["realtime"]) ELSE 0),
               HandOver(t, k)
        PROVE  IInv'
    <3>1. Len(queue["realtime"]) \in Nat
      <4>1. queue["realtime"] \in Seq(Event)
        BY DEF IInv, TypeOK, Engines
      <4> QED
        BY <4>1, LenProperties
    <3>2. k \in 0 .. Len(queue["realtime"])
      BY <3>1
    <3> QED
      BY <2>2, <3>2, HandOverOK
  <2> QED
    BY <1>5, <2>1, <2>2 DEF HandoverStep
<1>6. ASSUME NEW t \in Tasks, Die(t) PROVE IInv'
  BY <1>6, DieOK
<1>7. CASE Teardown
  BY <1>7, DisconnectOK, CloseSessionOK, PersistOK DEF Teardown
<1>8. CASE UNCHANGED vars
  BY <1>8, StutterOK
<1> QED
  BY <1>1, <1>2, <1>3, <1>4, <1>5, <1>6, <1>7, <1>8 DEF Next, Realtimers

\* Whatever the order of the reader, the pumps, the governor and the upstream,
\* every reachable state satisfies the inductive invariant.
THEOREM Invariant == Spec => []IInv
<1>1. Init => IInv
  BY InitOK
<1>2. IInv /\ [Next]_vars => IInv'
  BY StepOK
<1> QED
  BY <1>1, <1>2, PTL DEF Spec

\* The variables keep their types: every queue holds events, the ledger records.
THEOREM TypeCorrect == Spec => []TypeOK
<1>1. IInv => TypeOK
  BY DEF IInv
<1> QED
  BY <1>1, Invariant, PTL

\* The pump and the governor may both be inside _handover; the first to get its
\* frame out cancels the other, so the client is told of one switch at most.
THEOREM OneSwitch == Spec => []OneHandover
<1>1. IInv => OneHandover
  BY DEF IInv, Phase, Before, Cut, Over, OneHandover
<1> QED
  BY <1>1, Invariant, PTL

\* After _teardown no engine session is open, whichever way a handover that was
\* under way ended.
THEOREM NothingOpen == Spec => []NothingOpenAfterwards
<1>1. IInv => NothingOpenAfterwards
  BY DEF IInv, EndInv
<1> QED
  BY <1>1, Invariant, PTL

\* The turn ledger is in the order of the turns and has none twice, although the
\* old pump may still write to it after the new session opened.
THEOREM LedgerOrder == Spec => []LedgerInOrder
<1>1. IInv => LedgerInOrder
  BY DEF IInv, QueueInv
<1> QED
  BY <1>1, Invariant, PTL

\* No turn is written to the chat thread both by the client's chat pipeline and
\* by persist_ledger, and none twice by either.
THEOREM Once == Spec => []ChatOnce
<1>1. IInv => ChatOnce
  BY DEF IInv, ChatInv
<1> QED
  BY <1>1, Invariant, PTL
=============================================================================
