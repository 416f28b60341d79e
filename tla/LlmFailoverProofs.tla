------------------------- MODULE LlmFailoverProofs -------------------------
(***************************************************************************)
(* Proofs about LlmFailover: for any number of turns, models, keys, rounds *)
(* and continuations its state is well-typed, no call asks a route twice,  *)
(* a request window is overrun by fewer turns than there are, and the      *)
(* engine keeps the promise of AnswerStream.                               *)
(***************************************************************************)
EXTENDS LlmFailover, FiniteSetTheorems, TLAPS

Bounds == /\ MaxAttempts \in Nat \ {0} /\ NoRouteRetries \in Nat /\ MaxCont \in Nat
          /\ Limit \in Nat \ {0} /\ Threshold \in Nat \ {0}

\* What holds of the record of a turn between two steps: where it has a route,
\* how its answer ended, how many parts it has told, and what it has ruled out.
RanOut(rec) ==
    /\ IsFiniteSet(rec.skip) /\ rec.route \notin rec.skip
    /\ Cardinality(rec.skip) + rec.noRoute = rec.attempt
Sound(rec) ==
    /\ rec.route # None <=> rec.at \in {"await", "disable", "stream"}
    /\ rec.at = "over" <=> rec.end # None
    /\ rec.end = "told" => rec.parts > 0
    /\ rec.end = "error" /\ rec.on => rec.parts = 0
    /\ ~rec.on => rec.cont = 0 /\ rec.parts <= 1
    /\ rec.at \in {"select", "await", "disable"} => rec.parts <= rec.cont
    /\ rec.at = "stream" => rec.parts > 0 /\ rec.parts <= rec.cont + 1
    /\ rec.at # "over" => RanOut(rec)

Good(rec) == rec \in TurnRecord /\ Sound(rec)

\* The turns that were given route r and have not shown anything yet.
Waiting(r) == {t \in Turns : At(t, "await") /\ RouteOf(t) = r}
WindowInv ==
    \A r \in Routes :
        /\ r \in Limited => used[r] + Cardinality(Waiting(r)) < Limit + Cardinality(Turns)
        /\ r \notin Limited => used[r] = 0

TurnsInv ==
    /\ turns \in [Turns -> TurnRecord]
    /\ \A t \in Turns : Sound(turns[t]) /\ (turns[t].on <=> t \in Continuing)
SharedInv ==
    /\ catalog \subseteq Models /\ armed \subseteq Models /\ cold \subseteq Routes
    /\ used \in [Routes -> Nat] /\ fails \in [Models -> 0 .. Threshold]
IInv == TurnsInv /\ SharedInv /\ WindowInv

-----------------------------------------------------------------------------
(* The operators on records.                                               *)

\* The bounds and None, from the assumptions of LlmFailover.
LEMMA ConstantsOK == Bounds /\ None \notin Routes /\ None \notin {"told", "error"}
                     /\ IsFiniteSet(Turns) /\ Cardinality(Turns) \in Nat
BY BoundsAssumption, NoneAssumption, TurnsAssumption, FS_CardinalityType DEF Bounds, Routes

\* A turn that ends tells how it ended truthfully.
LEMMA OverOK ==
    ASSUME NEW rec \in TurnRecord, NEW how \in {"told", "error"},
           how = "told" => rec.parts > 0, how = "error" /\ rec.on => rec.parts = 0,
           ~rec.on => rec.parts <= 1
    PROVE  Good(Over(rec, how)) /\ Over(rec, how).at = "over" /\ Over(rec, how).on = rec.on
           /\ Over(rec, how).parts = rec.parts /\ Over(rec, how).end = how
<1> DEFINE new == Over(rec, how)
<1>1. /\ new.at = "over" /\ new.parts = rec.parts /\ new.end = how /\ new.route = None
      /\ new.on = rec.on /\ new.cont = 0
      /\ rec.parts \in Nat
  BY DEF Over, Started, TurnRecord
<1>2. new \in TurnRecord
  <2>1. 0 \in 0 .. MaxAttempts - 1 /\ 0 \in 0 .. NoRouteRetries /\ 0 \in 0 .. MaxCont
    BY ConstantsOK DEF Bounds
  <2> QED
    BY <2>1 DEF Over, Started, TurnRecord
<1>3. Sound(new)
  <2> HIDE DEF new
  <2> QED
    BY <1>1, ConstantsOK DEF Sound
<1> QED
  BY <1>1, <1>2, <1>3 DEF Good

\* A continuation starts a call with nothing ruled out.
LEMMA ContinuedOK ==
    ASSUME NEW rec \in TurnRecord, rec.end = None, MayContinue(rec), rec.parts <= rec.cont + 1
    PROVE  Good(Continued(rec)) /\ Continued(rec).at = "select" /\ rec.on /\ Continued(rec).on
           /\ Continued(rec).parts = rec.parts /\ Continued(rec).end = None
<1>1. Cardinality({}) = 0 /\ IsFiniteSet({})
  BY FS_EmptySet
<1> DEFINE new == Continued(rec)
<1>2. /\ rec.parts \in 0 .. MaxCont + 1 /\ rec.cont \in 0 .. MaxCont /\ rec.parts > 0
      /\ rec.cont < MaxCont /\ rec.on = TRUE
  BY DEF TurnRecord, MayContinue
<1>3. /\ new.at = "select" /\ new.parts = rec.parts /\ new.end = None /\ new.route = None
      /\ new.skip = {} /\ new.noRoute = 0 /\ new.attempt = 0 /\ new.cont = rec.cont + 1
      /\ new.on = rec.on
  BY DEF Continued, Fresh, TurnRecord
<1>4. new \in TurnRecord
  <2>1. 0 \in 0 .. MaxAttempts - 1 /\ 0 \in 0 .. NoRouteRetries /\ rec.cont + 1 \in 0 .. MaxCont
    BY <1>2, ConstantsOK DEF Bounds
  <2> QED
    BY <2>1 DEF Continued, Fresh, TurnRecord
<1>5. Sound(new)
  <2> HIDE DEF new
  <2> QED
    BY <1>1, <1>2, <1>3, ConstantsOK DEF Sound, RanOut
<1> QED
  BY <1>2, <1>3, <1>4, <1>5 DEF Good

\* What the caller of a record operator needs to know of its result: the turn
\* goes on without a voice, or it is over.
Settled(rec, new) ==
    /\ Good(new) /\ new.parts = rec.parts /\ (new.on <=> rec.on)
    /\ new.at \in {"select", "over"}

LEMMA RaisedOK ==
    ASSUME NEW rec \in TurnRecord, NEW noRoute \in BOOLEAN,
           rec.end = None, rec.parts <= rec.cont + 1, ~rec.on => rec.parts <= 1
    PROVE  Settled(rec, Raised(rec, noRoute))
<1>1. rec.parts \in Nat
  BY DEF TurnRecord
<1>2. CASE rec.parts = 0 \/ ~rec.on
  BY <1>1, <1>2, OverOK DEF Raised, Settled
<1>3. CASE rec.parts # 0 /\ rec.on /\ MayContinue(rec) /\ ~noRoute
  BY <1>1, <1>3, ContinuedOK DEF Raised, Settled
<1>4. CASE rec.parts # 0 /\ rec.on /\ ~(MayContinue(rec) /\ ~noRoute)
  <2>1. rec.parts > 0
    BY <1>1, <1>4
  <2> QED
    BY <2>1, <1>4, OverOK DEF Raised, Settled
<1> QED
  BY <1>2, <1>3, <1>4

LEMMA ReturnedOK ==
    ASSUME NEW rec \in TurnRecord, rec.end = None, rec.parts > 0, rec.parts <= rec.cont + 1,
           ~rec.on => rec.parts <= 1
    PROVE  Settled(rec, Returned(rec))
<1>1. CASE rec.cut /\ MayContinue(rec)
  BY <1>1, ContinuedOK DEF Returned, Settled
<1>2. CASE ~(rec.cut /\ MayContinue(rec))
  BY <1>2, OverOK DEF Returned, Settled
<1> QED
  BY <1>1, <1>2

\* A round that ruled out one more, or waited once more.
LEMMA AgainOK ==
    ASSUME NEW rec \in TurnRecord, rec.end = None, rec.parts <= rec.cont, ~rec.on => rec.cont = 0,
           IsFiniteSet(rec.skip), Cardinality(rec.skip) + rec.noRoute = rec.attempt + 1
    PROVE  Settled(rec, Again(rec))
<1>1. rec.parts \in Nat /\ rec.cont \in Nat /\ rec.attempt \in 0 .. MaxAttempts - 1
  BY DEF TurnRecord
<1>2. CASE rec.attempt + 1 = MaxAttempts
  <2>1. rec.parts <= rec.cont + 1 /\ (~rec.on => rec.parts <= 1)
    BY <1>1
  <2> QED
    BY <2>1, <1>2, RaisedOK DEF Again
<1>3. CASE rec.attempt + 1 # MaxAttempts
  <2> DEFINE new == [rec EXCEPT !.at = "select", !.attempt = @ + 1, !.route = None]
  <2>1. new \in TurnRecord
    <3>1. rec.attempt + 1 \in 0 .. MaxAttempts - 1
      BY <1>1, <1>3, ConstantsOK DEF Bounds
    <3> QED
      BY <3>1 DEF TurnRecord
  <2>2. rec.skip \subseteq Routes
    BY DEF TurnRecord
  <2>3. new.at = "select" /\ new.route = None /\ new.attempt = rec.attempt + 1
        /\ new.skip = rec.skip /\ new.parts = rec.parts /\ new.cont = rec.cont
        /\ new.end = None /\ new.noRoute = rec.noRoute /\ new.on = rec.on
    BY DEF TurnRecord
  <2>4. Sound(new)
    BY <1>1, <2>2, <2>3, ConstantsOK DEF Sound, RanOut
  <2> QED
    BY <1>3, <2>1, <2>3, <2>4 DEF Again, Settled, Good
<1> QED
  BY <1>2, <1>3

\* The route that failed is one that was not ruled out before.
LEMMA SkippedOK ==
    ASSUME NEW rec \in TurnRecord, Sound(rec), rec.at \in {"await", "disable"}
    PROVE  Settled(rec, Again(Skipped(rec)))
<1> DEFINE new == Skipped(rec)
<1>1. /\ rec.route \in Routes /\ rec.end = None /\ rec.parts <= rec.cont /\ RanOut(rec)
      /\ (~rec.on => rec.cont = 0)
  BY DEF Sound, TurnRecord
<1>2. new \in TurnRecord
  BY <1>1 DEF Skipped, TurnRecord
<1>3. new.skip = rec.skip \cup {rec.route} /\ new.noRoute = rec.noRoute
      /\ new.attempt = rec.attempt /\ new.parts = rec.parts /\ new.cont = rec.cont
      /\ new.end = rec.end /\ new.on = rec.on
  BY DEF Skipped, TurnRecord
<1>4. IsFiniteSet(new.skip) /\ Cardinality(new.skip) = Cardinality(rec.skip) + 1
  BY <1>1, <1>3, FS_AddElement DEF RanOut
<1>5. Cardinality(rec.skip) \in Nat /\ rec.noRoute \in Nat /\ rec.attempt \in Int
  BY <1>1, FS_CardinalityType DEF RanOut, TurnRecord
<1>6. Cardinality(new.skip) + new.noRoute = new.attempt + 1
  BY <1>1, <1>3, <1>4, <1>5 DEF RanOut
<1>7. Settled(new, Again(new))
  <2> HIDE DEF new
  <2> QED
    BY <1>1, <1>2, <1>3, <1>4, <1>6, AgainOK
<1> QED
  BY <1>3, <1>7 DEF Settled

-----------------------------------------------------------------------------
(* Each step of a turn: what becomes of its record.                        *)

\* The turn goes from one good record to another, and tells nothing unless its
\* step is Validate or Short.
Step1(t, rec) ==
    turns' = [turns EXCEPT ![t] = rec] /\ Good(rec) /\ (rec.on <=> turns[t].on)

\* A step that shows nothing ends without a voice, with what was told before.
Silent(t) == \E rec : Step1(t, rec) /\ Settled(turns[t], rec)

\* Facts about a turn that has not ended.
LEMMA TurnOK ==
    ASSUME TurnsInv, NEW t \in Turns
    PROVE  Good(turns[t]) /\ turns[t] \in TurnRecord
BY DEF TurnsInv, Good

LEMMA FailuresAreSilent ==
    ASSUME TurnsInv, NEW t \in Turns, TimeOut(t) \/ Garbage(t) \/ EmptyStream(t) \/ Refused(t)
                                      \/ Disabled(t)
    PROVE  Silent(t)
<1> DEFINE rec == turns[t]
<1>1. rec \in TurnRecord /\ Sound(rec) /\ rec.at \in {"await", "disable"}
  BY TurnOK DEF Good, TimeOut, Garbage, EmptyStream, Refused, Disabled, At
<1>2. Settled(rec, Again(Skipped(rec)))
  BY <1>1, SkippedOK
<1>3. turns' = [turns EXCEPT ![t] = Again(Skipped(rec))]
  BY DEF TimeOut, Garbage, EmptyStream, Refused, Disabled, Become
<1> QED
  BY <1>2, <1>3 DEF Silent, Step1, Settled

LEMMA EndsAreSilent ==
    ASSUME TurnsInv, NEW t \in Turns, Fatal(t) \/ Dropped(t) \/ Degenerate(t) \/ StreamEnd(t)
    PROVE  Silent(t)
<1> DEFINE rec == turns[t]
<1>1. rec \in TurnRecord /\ Sound(rec)
  BY TurnOK DEF Good
<1>2. rec.parts \in Nat /\ rec.cont \in Nat
  BY <1>1 DEF TurnRecord
<1>3. CASE Fatal(t)
  <2>1. rec.end = None /\ rec.parts <= rec.cont + 1 /\ (~rec.on => rec.parts <= 1)
    BY <1>1, <1>2, <1>3 DEF Fatal, At, Sound
  <2>2. Settled(rec, Raised(rec, FALSE))
    BY <1>1, <2>1, RaisedOK
  <2> QED
    BY <1>3, <2>2 DEF Fatal, Become, Silent, Step1, Settled
<1>4. CASE Dropped(t)
  <2>1. rec.end = None /\ rec.parts <= rec.cont + 1 /\ (~rec.on => rec.parts <= 1)
    BY <1>1, <1>2, <1>4 DEF Dropped, At, Sound
  <2>2. Settled(rec, Raised(rec, FALSE))
    BY <1>1, <2>1, RaisedOK
  <2> QED
    BY <1>4, <2>2 DEF Dropped, Become, Silent, Step1, Settled
<1>5. CASE Degenerate(t)
  <2>1. rec.end = None /\ rec.parts > 0 /\ rec.parts <= rec.cont + 1 /\ (~rec.on => rec.parts <= 1)
    BY <1>1, <1>2, <1>5 DEF Degenerate, At, Sound
  <2>2. Settled(rec, Returned(rec))
    BY <1>1, <2>1, ReturnedOK
  <2> QED
    BY <1>5, <2>2 DEF Degenerate, Become, Silent, Step1, Settled
<1>6. CASE StreamEnd(t)
  <2>1. rec.end = None /\ rec.parts > 0 /\ rec.parts <= rec.cont + 1 /\ (~rec.on => rec.parts <= 1)
    BY <1>1, <1>2, <1>6 DEF StreamEnd, At, Sound
  <2>2. PICK cut \in BOOLEAN : turns' = [turns EXCEPT ![t] = Finished(rec, cut)]
    BY <1>6 DEF StreamEnd, Become
  <2> DEFINE new == [rec EXCEPT !.cut = cut]
  <2>3. new \in TurnRecord /\ new.end = None /\ new.parts = rec.parts /\ new.cont = rec.cont
        /\ new.on = rec.on
    BY <1>1, <2>1 DEF TurnRecord
  <2>4. Settled(new, Returned(new))
    BY <2>1, <2>3, ReturnedOK
  <2>5. Settled(rec, Finished(rec, cut))
    BY <2>3, <2>4 DEF Settled, Finished
  <2> QED
    BY <2>2, <2>5 DEF Silent, Step1, Settled
<1> QED
  BY <1>3, <1>4, <1>5, <1>6

LEMMA NoRouteIsSilent ==
    ASSUME TurnsInv, NEW t \in Turns, NoRoute(t)
    PROVE  Silent(t)
<1> DEFINE rec == turns[t]
<1>1. rec \in TurnRecord /\ Sound(rec) /\ rec.at = "select"
  BY TurnOK DEF Good, NoRoute, At
<1>2. /\ rec.end = None /\ rec.parts <= rec.cont /\ RanOut(rec)
      /\ rec.parts \in Nat /\ rec.cont \in Nat /\ (~rec.on => rec.cont = 0 /\ rec.parts <= 1)
  BY <1>1 DEF Sound, TurnRecord
<1>3. CASE turns' = [turns EXCEPT ![t] = Raised(rec, TRUE)]
  <2>1. rec.parts <= rec.cont + 1
    BY <1>2
  <2>2. Settled(rec, Raised(rec, TRUE))
    BY <1>1, <1>2, <2>1, RaisedOK
  <2> QED
    BY <1>3, <2>2 DEF Silent, Step1, Settled
<1>4. CASE ~LastTry(rec) /\ turns' = [turns EXCEPT ![t] = Waits(rec)]
  <2> DEFINE new == [rec EXCEPT !.noRoute = @ + 1]
  <2>1. rec.noRoute \in Nat /\ rec.noRoute + 1 \in 0 .. NoRouteRetries
    BY <1>1, <1>4, ConstantsOK DEF LastTry, TurnRecord, Bounds
  <2>2. new \in TurnRecord
    BY <1>1, <2>1 DEF TurnRecord
  <2>3. /\ new.end = None /\ new.parts = rec.parts /\ new.cont = rec.cont /\ new.skip = rec.skip
        /\ new.attempt = rec.attempt /\ new.noRoute = rec.noRoute + 1 /\ new.on = rec.on
    BY <1>1, <1>2 DEF TurnRecord
  <2>4. Cardinality(rec.skip) \in Nat /\ rec.attempt \in Int
    BY <1>1, <1>2, FS_CardinalityType DEF RanOut, TurnRecord
  <2>5. IsFiniteSet(new.skip) /\ Cardinality(new.skip) + new.noRoute = new.attempt + 1
    BY <1>2, <2>1, <2>3, <2>4 DEF RanOut
  <2>6. Settled(new, Again(new))
    <3> HIDE DEF new
    <3> QED
      BY <1>2, <2>2, <2>3, <2>5, AgainOK
  <2> QED
    BY <1>4, <2>3, <2>6 DEF Waits, Silent, Step1, Settled
<1> QED
  BY <1>3, <1>4 DEF NoRoute, Become

\* A disabling turn keeps its route; a turn that selects gets one.
LEMMA DeadOK ==
    ASSUME TurnsInv, NEW t \in Turns, Dead(t)
    PROVE  \E rec : /\ Step1(t, rec) /\ rec.at = "disable"
                    /\ rec.parts = turns[t].parts /\ rec.end = turns[t].end
<1> DEFINE rec == turns[t]
           new == [rec EXCEPT !.at = "disable"]
<1>1. rec \in TurnRecord /\ Sound(rec) /\ rec.at = "await"
  BY TurnOK DEF Good, Dead, At
<1>2. /\ new \in TurnRecord /\ new.at = "disable" /\ new.end = rec.end /\ new.parts = rec.parts
      /\ new.cont = rec.cont /\ new.route = rec.route /\ new.skip = rec.skip
      /\ new.noRoute = rec.noRoute /\ new.attempt = rec.attempt /\ new.on = rec.on
  BY <1>1 DEF TurnRecord
<1>3. Sound(new)
  <2> HIDE DEF new
  <2> QED
    BY <1>1, <1>2 DEF Sound, RanOut
<1>4. turns' = [turns EXCEPT ![t] = new]
  BY DEF Dead, Become
<1> QED
  BY <1>2, <1>3, <1>4 DEF Step1, Good

LEMMA SelectOK ==
    ASSUME TurnsInv, NEW t \in Turns, Select(t)
    PROVE  \E rec : /\ Step1(t, rec) /\ rec.at = "await" /\ rec.route \in Usable(turns[t].skip)
                    /\ rec.parts = turns[t].parts /\ rec.end = turns[t].end
<1> DEFINE rec == turns[t]
<1>1. rec \in TurnRecord /\ Sound(rec) /\ rec.at = "select"
  BY TurnOK DEF Good, Select, At
<1>2. PICK r \in Usable(rec.skip) :
          turns' = [turns EXCEPT ![t] = [rec EXCEPT !.at = "await", !.route = r]]
  BY DEF Select, Become
<1> DEFINE new == [rec EXCEPT !.at = "await", !.route = r]
<1>3. r \in Routes /\ r # None /\ r \notin rec.skip
  BY <1>2, ConstantsOK DEF Usable, Candidates
<1>4. /\ new \in TurnRecord /\ new.at = "await" /\ new.end = rec.end /\ new.parts = rec.parts
      /\ new.cont = rec.cont /\ new.route = r /\ new.skip = rec.skip
      /\ new.noRoute = rec.noRoute /\ new.attempt = rec.attempt /\ new.on = rec.on
  BY <1>1, <1>3 DEF TurnRecord
<1>5. Sound(new)
  <2> HIDE DEF new
  <2> QED
    BY <1>1, <1>3, <1>4 DEF Sound, RanOut
<1> QED
  BY <1>2, <1>4, <1>5 DEF Step1, Good

\* Validate and Short show one more part.
Tells(t) == \E rec : /\ Step1(t, rec) /\ rec.parts = turns[t].parts + 1
                     /\ rec.at \in {"stream", "select", "over"}
LEMMA ValidateTells ==
    ASSUME TurnsInv, NEW t \in Turns, Validate(t) \/ Short(t)
    PROVE  Tells(t) /\ turns[t].at = "await" /\ turns[t].parts < MaxCont + 1 /\ turns[t].end = None
<1> DEFINE rec == turns[t]
           shown == [rec EXCEPT !.parts = @ + 1]
<1>1. rec \in TurnRecord /\ Sound(rec) /\ rec.at = "await"
  BY TurnOK DEF Good, Validate, Short, At
<1>2. /\ rec.end = None /\ rec.route # None /\ rec.parts <= rec.cont /\ RanOut(rec)
      /\ rec.parts \in Nat /\ rec.cont \in 0 .. MaxCont
      /\ (~rec.on => rec.cont = 0 /\ rec.parts = 0)
  BY <1>1 DEF Sound, TurnRecord
<1>3. rec.parts + 1 \in 0 .. MaxCont + 1 /\ rec.parts < MaxCont + 1
  BY <1>2, ConstantsOK DEF Bounds
<1>4. /\ shown \in TurnRecord /\ shown.parts = rec.parts + 1 /\ shown.end = None
      /\ shown.cont = rec.cont /\ shown.on = rec.on
  BY <1>1, <1>2, <1>3 DEF TurnRecord
<1>5. CASE Validate(t)
  <2> DEFINE new == [rec EXCEPT !.parts = @ + 1, !.at = "stream"]
  <2>1. turns' = [turns EXCEPT ![t] = new]
    BY <1>1, <1>5 DEF Validate, Become, Shown, TurnRecord
  <2>2. /\ new \in TurnRecord /\ new.at = "stream" /\ new.end = None /\ new.parts = rec.parts + 1
        /\ new.cont = rec.cont /\ new.route = rec.route /\ new.skip = rec.skip
        /\ new.noRoute = rec.noRoute /\ new.attempt = rec.attempt /\ new.on = rec.on
    BY <1>1, <1>2, <1>3 DEF TurnRecord
  <2>3. Sound(new)
    <3> HIDE DEF new
    <3>1. new.parts > 0 /\ new.parts <= new.cont + 1 /\ (~new.on => new.cont = 0 /\ new.parts <= 1)
      BY <1>2, <2>2
    <3>2. RanOut(new) /\ new.route # None
      <4> HIDE DEF rec
      <4> QED
        BY <1>2, <2>2 DEF RanOut
    <3>3. new.end = None /\ new.at = "stream"
      BY <2>2
    <3> QED
      BY <3>1, <3>2, <3>3, ConstantsOK DEF Sound
  <2> QED
    BY <1>1, <1>2, <1>3, <2>1, <2>2, <2>3 DEF Tells, Step1, Good
<1>6. CASE Short(t)
  <2>1. PICK cut \in BOOLEAN : turns' = [turns EXCEPT ![t] = Finished(shown, cut)]
    BY <1>6 DEF Short, Become, Shown
  <2> DEFINE new == [shown EXCEPT !.cut = cut]
  <2>2. /\ new \in TurnRecord /\ new.end = None /\ new.parts = rec.parts + 1 /\ new.cont = rec.cont
        /\ new.on = rec.on
    <3> HIDE DEF shown
    <3> QED
      BY <1>4 DEF TurnRecord
  <2>3. new.parts > 0 /\ new.parts <= new.cont + 1 /\ (~new.on => new.parts <= 1)
    <3> HIDE DEF new, shown
    <3> QED
      BY <1>2, <2>2
  <2>4. Settled(new, Returned(new))
    <3> HIDE DEF new
    <3> QED
      BY <2>2, <2>3, ReturnedOK
  <2> QED
    BY <1>1, <1>2, <1>3, <2>1, <2>2, <2>4 DEF Finished, Tells, Step1, Settled
<1> QED
  BY <1>5, <1>6

-----------------------------------------------------------------------------
(* The invariant.                                                          *)

LEMMA InitOK == ASSUME Init PROVE IInv
<1>1. Cardinality({}) = 0 /\ IsFiniteSet({})
  BY FS_EmptySet
<1>2. ASSUME NEW on \in BOOLEAN PROVE Good(Started(on)) /\ Started(on).on = on
  <2>1. 0 \in 0 .. MaxAttempts - 1 /\ 0 \in 0 .. NoRouteRetries /\ 0 \in 0 .. MaxCont
        /\ 0 \in 0 .. MaxCont + 1
    BY ConstantsOK DEF Bounds
  <2>2. Started(on) \in TurnRecord
    BY <2>1 DEF Started, TurnRecord
  <2>3. Sound(Started(on))
    BY <1>1, ConstantsOK DEF Started, Sound, RanOut
  <2> QED
    BY <2>2, <2>3 DEF Good, Started
<1>3. TurnsInv
  <2>1. ASSUME NEW t \in Turns
        PROVE  /\ turns[t] \in TurnRecord /\ Sound(turns[t])
               /\ (turns[t].on <=> t \in Continuing)
    <3> DEFINE on == t \in Continuing
    <3>1. turns[t] = Started(on) /\ on \in BOOLEAN /\ (on <=> t \in Continuing)
      BY DEF Init
    <3> HIDE DEF on
    <3> QED
      BY <3>1, <1>2 DEF Good
  <2> QED
    BY <2>1 DEF Init, TurnsInv
<1>4. SharedInv
  BY ConstantsOK DEF Init, SharedInv, Bounds
<1>5. WindowInv
  <2> SUFFICES ASSUME NEW r \in Routes
               PROVE  /\ r \in Limited => used[r] + Cardinality(Waiting(r)) < Limit + Cardinality(Turns)
                      /\ r \notin Limited => used[r] = 0
    BY DEF WindowInv
  <2>1. Waiting(r) = {} /\ used[r] = 0
    BY DEF Init, Waiting, At, Started
  <2> QED
    BY <2>1, <1>1, ConstantsOK DEF Bounds
<1> QED
  BY <1>3, <1>4, <1>5 DEF IInv

\* A turn that moves to a good record keeps the invariant of the turns.
LEMMA TurnsStep ==
    ASSUME TurnsInv, NEW t \in Turns, NEW rec, Step1(t, rec)
    PROVE  TurnsInv'
BY DEF TurnsInv, Step1, Good

\* What a step of a turn does with the turns, in one place.
Moves(t) ==
    \/ Silent(t) \/ Tells(t)
    \/ \E rec : /\ Step1(t, rec) /\ rec.at \in {"await", "disable"}
                /\ rec.parts = turns[t].parts /\ rec.end = turns[t].end

LEMMA StepMoves ==
    ASSUME TurnsInv, NEW t \in Turns, Step(t)
    PROVE  Moves(t)
<1>1. CASE Select(t)
  BY <1>1, SelectOK DEF Moves
<1>2. CASE NoRoute(t)
  BY <1>2, NoRouteIsSilent DEF Moves
<1>3. CASE Validate(t) \/ Short(t)
  BY <1>3, ValidateTells DEF Moves
<1>4. CASE TimeOut(t) \/ Garbage(t) \/ EmptyStream(t) \/ Refused(t) \/ Disabled(t)
  BY <1>4, FailuresAreSilent DEF Moves
<1>5. CASE Fatal(t) \/ Dropped(t) \/ Degenerate(t) \/ StreamEnd(t)
  BY <1>5, EndsAreSilent DEF Moves
<1>6. CASE Dead(t)
  BY <1>6, DeadOK DEF Moves
<1> QED
  BY <1>1, <1>2, <1>3, <1>4, <1>5, <1>6 DEF Step, Refusal

LEMMA StepTurns ==
    ASSUME TurnsInv, NEW t \in Turns, Step(t)
    PROVE  TurnsInv'
BY StepMoves, TurnsStep DEF Moves, Silent, Tells

\* The routes and models a step works on are in their sets.
LEMMA RouteOK ==
    ASSUME TurnsInv, NEW t \in Turns, turns[t].at \in {"await", "disable", "stream"}
    PROVE  RouteOf(t) \in Routes /\ ModelOf(t) \in Models
<1>1. turns[t].route \in Routes
  BY TurnOK DEF TurnsInv, Sound, TurnRecord
<1> QED
  BY <1>1 DEF RouteOf, ModelOf, Routes

LEMMA HardFailureOK ==
    ASSUME SharedInv, NEW m \in Models, HardFailure(m)
    PROVE  fails' \in [Models -> 0 .. Threshold] /\ armed' \subseteq Models
BY ConstantsOK DEF SharedInv, HardFailure, Bounds

LEMMA StepShared ==
    ASSUME TurnsInv, SharedInv, NEW t \in Turns, Step(t)
    PROVE  SharedInv'
<1>1. CASE Select(t) \/ NoRoute(t) \/ EmptyStream(t) \/ StreamEnd(t)
  BY <1>1 DEF Select, NoRoute, EmptyStream, StreamEnd, shared, SharedInv
<1>2. CASE Validate(t) \/ Short(t)
  <2>1. RouteOf(t) \in Routes /\ ModelOf(t) \in Models
    BY <1>2, RouteOK DEF Validate, Short, At
  <2>2. Commit(t)
    BY <1>2 DEF Validate, Short
  <2>3. fails' \in [Models -> 0 .. Threshold] /\ armed' \subseteq Models
    BY <2>1, <2>2, ConstantsOK DEF Commit, Success, SharedInv, Bounds
  <2>4. used' \in [Routes -> Nat]
    BY <2>1, <2>2 DEF Commit, SharedInv
  <2> QED
    BY <2>2, <2>3, <2>4 DEF Commit, SharedInv
<1>3. CASE TimeOut(t) \/ Garbage(t) \/ Refused(t)
  <2>1. RouteOf(t) \in Routes /\ ModelOf(t) \in Models
    BY <1>3, RouteOK DEF TimeOut, Garbage, Refused, At
  <2>2. fails' \in [Models -> 0 .. Threshold] /\ armed' \subseteq Models
    BY <1>3, <2>1, HardFailureOK DEF TimeOut, Garbage, Refused, SharedInv
  <2>3. cold' \subseteq Routes
    BY <1>3, <2>1 DEF TimeOut, Garbage, Refused, SetCooldown, SharedInv
  <2> QED
    BY <1>3, <2>2, <2>3 DEF TimeOut, Garbage, Refused, SharedInv
<1>4. CASE Fatal(t) \/ Dead(t) \/ Dropped(t) \/ Degenerate(t)
  <2>1. ModelOf(t) \in Models
    BY <1>4, RouteOK DEF Fatal, Dead, Dropped, Degenerate, At
  <2>2. fails' \in [Models -> 0 .. Threshold] /\ armed' \subseteq Models
    BY <1>4, <2>1, HardFailureOK DEF Fatal, Dead, Dropped, Degenerate
  <2> QED
    BY <1>4, <2>2 DEF Fatal, Dead, Dropped, Degenerate, SharedInv
<1>5. CASE Disabled(t)
  <2>1. RouteOf(t) \in Routes
    BY <1>5, RouteOK DEF Disabled, At
  <2> QED
    BY <1>5, <2>1 DEF Disabled, SetCooldown, SharedInv
<1> QED
  BY <1>1, <1>2, <1>3, <1>4, <1>5 DEF Step, Refusal

-----------------------------------------------------------------------------
(* The request windows.                                                    *)

LEMMA WaitingFinite ==
    ASSUME NEW r
    PROVE  /\ IsFiniteSet(Waiting(r)) /\ Cardinality(Waiting(r)) \in Nat
           /\ Cardinality(Waiting(r)) <= Cardinality(Turns)
BY ConstantsOK, FS_Subset, FS_CardinalityType DEF Waiting

\* The turn of a step is the only one whose waiting changes.
LEMMA WaitingStep ==
    ASSUME TurnsInv, NEW t \in Turns, NEW rec, turns' = [turns EXCEPT ![t] = rec], NEW r
    PROVE  Waiting(r)' = IF rec.at = "await" /\ rec.route = r
                         THEN Waiting(r) \cup {t} ELSE Waiting(r) \ {t}
BY DEF TurnsInv, Waiting, At, RouteOf

\* A turn that leaves, or stays away, leaves room in every window.
LEMMA LeavesRoom ==
    ASSUME TurnsInv, SharedInv, WindowInv, NEW t \in Turns, NEW rec,
           turns' = [turns EXCEPT ![t] = rec], rec.at # "await", used' = used
    PROVE  WindowInv'
<1> SUFFICES ASSUME NEW r \in Routes
             PROVE  /\ r \in Limited => used[r] + Cardinality(Waiting(r)') < Limit + Cardinality(Turns)
                    /\ r \notin Limited => used[r] = 0
  BY DEF WindowInv
<1>1. Waiting(r)' = Waiting(r) \ {t}
  BY WaitingStep
<1>2. Cardinality(Waiting(r)') <= Cardinality(Waiting(r)) /\ Cardinality(Waiting(r)') \in Nat
  BY <1>1, WaitingFinite, FS_Subset, FS_CardinalityType
<1> QED
  BY <1>2, WaitingFinite, ConstantsOK DEF WindowInv, SharedInv, Bounds

\* A turn is given a limited route only when its window is not full.
LEMMA SelectWindow ==
    ASSUME TurnsInv, SharedInv, WindowInv, NEW t \in Turns, Select(t)
    PROVE  WindowInv'
<1> SUFFICES ASSUME NEW r \in Routes
             PROVE  /\ r \in Limited => used[r] + Cardinality(Waiting(r)') < Limit + Cardinality(Turns)
                    /\ r \notin Limited => used[r] = 0
  BY DEF WindowInv, Select, shared
<1>1. PICK rec : Step1(t, rec) /\ rec.at = "await" /\ rec.route \in Usable(turns[t].skip)
  BY SelectOK
<1>2. Waiting(r)' = IF rec.route = r THEN Waiting(r) \cup {t} ELSE Waiting(r) \ {t}
  BY <1>1, WaitingStep DEF Step1
<1>3. CASE rec.route = r
  <2>1. r \in Limited => used[r] < Limit
    BY <1>1, <1>3 DEF Usable, CanMakeRequest
  <2>2. Waiting(r)' \subseteq Turns
    BY <1>2, <1>3 DEF Waiting
  <2>3. Cardinality(Waiting(r)') <= Cardinality(Turns) /\ Cardinality(Waiting(r)') \in Nat
    BY <2>2, ConstantsOK, FS_Subset, FS_CardinalityType
  <2> QED
    BY <2>1, <2>3, ConstantsOK DEF WindowInv, SharedInv, Bounds
<1>4. CASE rec.route # r
  <2>1. Cardinality(Waiting(r)') <= Cardinality(Waiting(r)) /\ Cardinality(Waiting(r)') \in Nat
    BY <1>2, <1>4, WaitingFinite, FS_Subset, FS_CardinalityType
  <2> QED
    BY <2>1, WaitingFinite, ConstantsOK DEF WindowInv, SharedInv, Bounds
<1> QED
  BY <1>3, <1>4

\* A request is counted when the turn that made it stops waiting.
LEMMA CommitWindow ==
    ASSUME TurnsInv, SharedInv, WindowInv, NEW t \in Turns, Validate(t) \/ Short(t)
    PROVE  WindowInv'
<1> DEFINE s == RouteOf(t)
<1>1. PICK rec : Step1(t, rec) /\ rec.at # "await"
  BY ValidateTells DEF Tells
<1>2. used' = [used EXCEPT ![s] = IF s \in Limited THEN @ + 1 ELSE @]
  BY DEF Validate, Short, Commit
<1>3. t \in Waiting(s) /\ s \in Routes
  BY RouteOK DEF Validate, Short, Waiting, At
<1> SUFFICES ASSUME NEW r \in Routes
             PROVE  /\ r \in Limited => used'[r] + Cardinality(Waiting(r)') < Limit + Cardinality(Turns)
                    /\ r \notin Limited => used'[r] = 0
  BY DEF WindowInv
<1>4. Waiting(r)' = Waiting(r) \ {t}
  BY <1>1, WaitingStep DEF Step1
<1>5. CASE r = s
  <2>1. Cardinality(Waiting(r)') = Cardinality(Waiting(r)) - 1
    BY <1>3, <1>4, <1>5, WaitingFinite, FS_RemoveElement
  <2> QED
    BY <1>2, <1>3, <1>5, <2>1, WaitingFinite, ConstantsOK DEF WindowInv, SharedInv, Bounds
<1>6. CASE r # s
  <2>1. Cardinality(Waiting(r)') <= Cardinality(Waiting(r)) /\ Cardinality(Waiting(r)') \in Nat
    BY <1>4, WaitingFinite, FS_Subset, FS_CardinalityType
  <2>2. used'[r] = used[r]
    BY <1>2, <1>6 DEF SharedInv
  <2> QED
    BY <2>1, <2>2, WaitingFinite, ConstantsOK DEF WindowInv, SharedInv, Bounds
<1> QED
  BY <1>5, <1>6

LEMMA StepWindow ==
    ASSUME TurnsInv, SharedInv, WindowInv, NEW t \in Turns, Step(t)
    PROVE  WindowInv'
<1>1. CASE Select(t)
  BY <1>1, SelectWindow
<1>2. CASE Validate(t) \/ Short(t)
  BY <1>2, CommitWindow
<1>3. CASE Dead(t)
  <2>1. used' = used
    BY <1>3 DEF Dead
  <2>2. PICK rec : Step1(t, rec) /\ rec.at = "disable"
    BY <1>3, DeadOK
  <2> QED
    BY <2>1, <2>2, LeavesRoom DEF Step1
<1>4. CASE NoRoute(t) \/ TimeOut(t) \/ Garbage(t) \/ EmptyStream(t) \/ Refused(t) \/ Disabled(t)
           \/ Fatal(t) \/ Dropped(t) \/ Degenerate(t) \/ StreamEnd(t)
  <2>1. used' = used
    BY <1>4 DEF NoRoute, TimeOut, Garbage, EmptyStream, Refused, Disabled, Fatal, Dropped,
                Degenerate, StreamEnd, shared
  <2>2. Silent(t)
    BY <1>4, NoRouteIsSilent, FailuresAreSilent, EndsAreSilent
  <2>3. PICK rec : Step1(t, rec) /\ Settled(turns[t], rec)
    BY <2>2 DEF Silent
  <2> QED
    BY <2>1, <2>3, LeavesRoom DEF Step1, Settled
<1> QED
  BY <1>1, <1>2, <1>3, <1>4 DEF Step, Refusal

\* Time only makes room.
LEMMA TimeOK ==
    ASSUME IInv, NEW r \in Routes, NEW m \in Models, Expire(r) \/ Slide(r) \/ HalfOpen(m)
    PROVE  IInv'
<1>1. turns' = turns
  BY DEF Expire, Slide, HalfOpen
<1>2. TurnsInv'
  BY <1>1 DEF IInv, TurnsInv
<1>3. SharedInv'
  BY DEF IInv, SharedInv, Expire, Slide, HalfOpen
<1>4. \A s \in Routes : used'[s] \in Nat /\ used'[s] <= used[s]
  BY DEF IInv, SharedInv, Expire, Slide, HalfOpen
<1>5. ASSUME NEW s \in Routes
      PROVE  /\ s \in Limited => used'[s] + Cardinality(Waiting(s)') < Limit + Cardinality(Turns)
             /\ s \notin Limited => used'[s] = 0
  <2>1. Waiting(s)' = Waiting(s)
    BY <1>1 DEF Waiting, At, RouteOf
  <2> QED
    BY <1>4, <2>1, WaitingFinite, ConstantsOK DEF IInv, SharedInv, WindowInv, Bounds
<1> QED
  BY <1>2, <1>3, <1>5 DEF IInv, WindowInv

LEMMA NextOK == ASSUME IInv, [Next]_vars PROVE IInv'
<1>1. ASSUME NEW t \in Turns, Step(t) PROVE IInv'
  BY <1>1, StepTurns, StepShared, StepWindow DEF IInv
<1>2. ASSUME NEW r \in Routes, Expire(r) \/ Slide(r) PROVE IInv'
  <2>1. \E m : m \in Models
    BY <1>2 DEF Routes
  <2> QED
    BY <1>2, <2>1, TimeOK
<1>3. ASSUME NEW m \in Models, HalfOpen(m) PROVE IInv'
  <2>1. turns' = turns /\ used' = used /\ UNCHANGED <<catalog, cold, fails>> /\ armed' = armed \ {m}
    BY <1>3 DEF HalfOpen
  <2>2. \A r : Waiting(r)' = Waiting(r)
    BY <2>1 DEF Waiting, At, RouteOf
  <2> QED
    BY <2>1, <2>2 DEF IInv, TurnsInv, SharedInv, WindowInv
<1>4. CASE UNCHANGED vars
  <2>1. \A r : Waiting(r)' = Waiting(r)
    BY <1>4 DEF vars, Waiting, At, RouteOf
  <2> QED
    BY <1>4, <2>1 DEF vars, shared, IInv, TurnsInv, SharedInv, WindowInv
<1> QED
  BY <1>1, <1>2, <1>3, <1>4 DEF Next

-----------------------------------------------------------------------------
(* The theorems.                                                           *)

LEMMA Inductive == Spec => []IInv
<1>1. Init => IInv
  BY InitOK
<1>2. IInv /\ [Next]_vars => IInv'
  BY NextOK
<1> QED
  BY <1>1, <1>2, PTL DEF Spec

\* The state of the turns and of what they share is well-typed for any number
\* of each: in particular the rounds, waits and continuations of a turn stay
\* within their limits (engine.py:797-832, 850-905).
THEOREM TypeCorrect == Spec => []TypeOK
<1>1. IInv => TypeOK
  BY DEF IInv, TurnsInv, SharedInv, Sound, TypeOK
<1> QED
  BY <1>1, Inductive, PTL

\* In one call no route is asked twice (skip, engine.py:861-1095).
THEOREM NeverTwice == Spec => []NoRouteTwice
<1>1. IInv => NoRouteTwice
  BY DEF IInv, TurnsInv, Sound, RanOut, NoRouteTwice, At, RouteOf
<1> QED
  BY <1>1, Inductive, PTL

\* However many turns are between the check of a window and its count, the
\* window is overrun by fewer than there are (ratelimit.py:56-88).
THEOREM Overrun == Spec => []WindowOverrun
<1>1. ASSUME IInv PROVE WindowOverrun
  <2> SUFFICES ASSUME NEW r \in Routes PROVE used[r] < Limit + Cardinality(Turns)
    BY DEF WindowOverrun
  <2>1. used[r] \in Nat /\ (r \in Limited => used[r] + Cardinality(Waiting(r)) < Limit + Cardinality(Turns))
        /\ (r \notin Limited => used[r] = 0)
    BY <1>1 DEF IInv, SharedInv, WindowInv
  <2> QED
    BY <2>1, WaitingFinite, ConstantsOK DEF Bounds
<1> QED
  BY <1>1, Inductive, PTL

-----------------------------------------------------------------------------
(* The engine implements AnswerStream: a step of one turn is a step of its *)
(* answer, or changes nothing the caller sees.                             *)

VoiceOf(rec) == IF rec.at = "stream" THEN rec.route ELSE None
Told == [t \in Turns |-> turns[t].parts]
Voices == [t \in Turns |-> Voice(t)]
Ends == [t \in Turns |-> turns[t].end]

\* How the caller's view follows the record of the turn that moved.
LEMMA Views ==
    ASSUME TurnsInv, NEW t \in Turns, NEW rec, turns' = [turns EXCEPT ![t] = rec]
    PROVE  /\ Told' = [Told EXCEPT ![t] = rec.parts]
           /\ Voices' = [Voices EXCEPT ![t] = VoiceOf(rec)]
           /\ Ends' = [Ends EXCEPT ![t] = rec.end]
<1>1. turns'[t] = rec /\ \A u \in Turns \ {t} : turns'[u] = turns[u]
  BY DEF TurnsInv
<1>2. Told' = [Told EXCEPT ![t] = rec.parts]
  <2>1. Told' = [u \in Turns |-> turns'[u].parts]
    BY DEF Told
  <2>2. [Told EXCEPT ![t] = rec.parts] = [u \in Turns |-> IF u = t THEN rec.parts ELSE turns[u].parts]
    BY DEF Told
  <2> QED
    BY <1>1, <2>1, <2>2
<1>3. Ends' = [Ends EXCEPT ![t] = rec.end]
  <2>1. Ends' = [u \in Turns |-> turns'[u].end]
    BY DEF Ends
  <2>2. [Ends EXCEPT ![t] = rec.end] = [u \in Turns |-> IF u = t THEN rec.end ELSE turns[u].end]
    BY DEF Ends
  <2> QED
    BY <1>1, <2>1, <2>2
<1>4. Voice(t)' = VoiceOf(rec)
  BY <1>1 DEF Voice, VoiceOf, At, RouteOf
<1>5. \A u \in Turns \ {t} : Voice(u)' = Voice(u)
  BY <1>1 DEF Voice, At, RouteOf
<1>6. Voices' = [Voices EXCEPT ![t] = VoiceOf(rec)]
  BY <1>4, <1>5 DEF Voices
<1> QED
  BY <1>2, <1>3, <1>6

\* A part begins.
LEMMA TellsMaps ==
    ASSUME TurnsInv, NEW t \in Turns, Validate(t) \/ Short(t)
    PROVE  Answer!Next
<1>1. PICK rec : /\ Step1(t, rec) /\ rec.parts = turns[t].parts + 1
                 /\ rec.at \in {"stream", "select", "over"}
  BY ValidateTells DEF Tells
<1>2. turns[t].at = "await" /\ turns[t].parts < MaxCont + 1 /\ turns[t].end = None
      /\ turns[t].parts \in Nat
  BY ValidateTells, TurnOK DEF TurnRecord
<1>3. /\ Told' = [Told EXCEPT ![t] = rec.parts] /\ Voices' = [Voices EXCEPT ![t] = VoiceOf(rec)]
      /\ Ends' = [Ends EXCEPT ![t] = rec.end]
  BY <1>1, Views DEF Step1
<1>4. Told[t] = turns[t].parts /\ Voices[t] = None /\ Ends[t] = None
  BY <1>2 DEF Told, Voices, Ends, Voice, At
<1>5. rec \in TurnRecord /\ Sound(rec) /\ (rec.on <=> t \in Continuing)
  BY <1>1 DEF Step1, Good, TurnsInv
<1>6. Told' = [Told EXCEPT ![t] = @ + 1] /\ Told[t] < Answer!Most(t) /\ Told'[t] > 0
  <2>1. Told' = [Told EXCEPT ![t] = @ + 1] /\ Told[t] < MaxCont + 1 /\ Told'[t] > 0
    BY <1>1, <1>2, <1>3, <1>4 DEF Told
  <2>2. t \notin Continuing => Told[t] < 1
    BY <1>1, <1>2, <1>4, <1>5 DEF Sound
  <2> QED
    BY <2>1, <2>2 DEF Answer!Most
<1>7. CASE rec.at # "over"
  <2>1. rec.end = None /\ VoiceOf(rec) \in Routes \cup {None}
    BY <1>5, <1>7 DEF Sound, TurnRecord, VoiceOf
  <2>2. Ends' = Ends
    BY <1>3, <1>4, <2>1 DEF Ends
  <2>3. Answer!Begin(t, VoiceOf(rec))
    BY <1>3, <1>4, <1>6, <2>2 DEF Answer!Begin, Told, Voices, Ends
  <2> QED
    BY <2>1, <2>3 DEF Answer!Next
<1>8. CASE rec.at = "over"
  <2>1. /\ rec.end \in {"told", "error"} /\ VoiceOf(rec) = None
        /\ (rec.end = "told" => rec.parts > 0) /\ (rec.end = "error" /\ rec.on => rec.parts = 0)
    BY <1>1, <1>2, <1>5, <1>8 DEF Sound, TurnRecord, VoiceOf
  <2>2. /\ rec.end = "told" => Told'[t] > 0
        /\ rec.end = "error" => Told'[t] = 0 \/ t \notin Continuing
    BY <1>3, <1>5, <2>1 DEF Told
  <2>3. Answer!End(t, rec.end)
    BY <1>3, <1>4, <1>6, <2>1, <2>2 DEF Answer!End, Told, Voices, Ends
  <2> QED
    BY <2>1, <2>3 DEF Answer!Next
<1> QED
  BY <1>7, <1>8

\* A step that shows nothing: the part is over, or the answer, or nothing.
LEMMA SilentMaps ==
    ASSUME TurnsInv, NEW t \in Turns, turns[t].end = None, Silent(t)
    PROVE  Answer!Next \/ UNCHANGED <<Told, Voices, Ends>>
<1>1. PICK rec : Step1(t, rec) /\ Settled(turns[t], rec)
  BY DEF Silent
<1>2. /\ Told' = [Told EXCEPT ![t] = rec.parts] /\ Voices' = [Voices EXCEPT ![t] = VoiceOf(rec)]
      /\ Ends' = [Ends EXCEPT ![t] = rec.end]
  BY <1>1, Views DEF Step1
<1>3. /\ rec \in TurnRecord /\ Sound(rec) /\ rec.parts = turns[t].parts
      /\ rec.at \in {"select", "over"} /\ VoiceOf(rec) = None
  BY <1>1 DEF Settled, Good, VoiceOf
<1>4. Told' = Told /\ Told[t] = rec.parts /\ Told'[t] = rec.parts /\ Ends[t] = None
  BY <1>2, <1>3 DEF Told, Ends
<1>5. rec.on <=> t \in Continuing
  BY <1>1 DEF Step1, TurnsInv
<1>6. CASE rec.at = "select" /\ Voices[t] = None
  BY <1>2, <1>3, <1>4, <1>6 DEF Sound, Voices, Ends
<1>7. CASE rec.at = "select" /\ Voices[t] # None
  <2>1. Ends' = Ends
    BY <1>2, <1>3, <1>4, <1>7 DEF Sound, Ends
  <2>2. t \in Continuing
    <3>1. turns[t].at = "stream" /\ turns[t].parts > 0
      BY <1>7 DEF Voices, Voice, At, TurnsInv, Sound
    <3>2. rec.parts > 0 /\ rec.parts <= rec.cont /\ rec.parts \in Nat /\ rec.cont \in Nat
      BY <1>3, <1>7, <3>1 DEF Sound, TurnRecord
    <3> QED
      BY <1>3, <1>5, <3>2 DEF Sound
  <2>3. Answer!Resume(t)
    BY <1>2, <1>3, <1>4, <1>7, <2>1, <2>2 DEF Answer!Resume, Told, Voices, Ends
  <2> QED
    BY <2>3 DEF Answer!Next
<1>8. CASE rec.at = "over"
  <2>1. /\ rec.end \in {"told", "error"} /\ (rec.end = "told" => rec.parts > 0)
        /\ (rec.end = "error" /\ rec.on => rec.parts = 0)
    BY <1>3, <1>8 DEF Sound, TurnRecord
  <2>2. /\ rec.end = "told" => Told'[t] > 0
        /\ rec.end = "error" => Told'[t] = 0 \/ t \notin Continuing
    BY <1>4, <1>5, <2>1
  <2>3. Answer!End(t, rec.end)
    BY <1>2, <1>3, <1>4, <2>1, <2>2 DEF Answer!End, Told, Voices, Ends
  <2> QED
    BY <2>1, <2>3 DEF Answer!Next
<1> QED
  BY <1>3, <1>6, <1>7, <1>8

\* A turn gets a route, or waits for a model to be deleted: the caller sees
\* nothing of it.
LEMMA HiddenMaps ==
    ASSUME TurnsInv, NEW t \in Turns, Select(t) \/ Dead(t)
    PROVE  UNCHANGED <<Told, Voices, Ends>>
<1>1. PICK rec : /\ Step1(t, rec) /\ rec.at \in {"await", "disable"}
                 /\ rec.parts = turns[t].parts /\ rec.end = turns[t].end
  BY SelectOK, DeadOK
<1>2. turns[t].at \in {"select", "await"}
  BY DEF Select, Dead, At
<1>3. /\ Told' = [Told EXCEPT ![t] = rec.parts] /\ Voices' = [Voices EXCEPT ![t] = VoiceOf(rec)]
      /\ Ends' = [Ends EXCEPT ![t] = rec.end]
  BY <1>1, Views DEF Step1
<1>4. Voices[t] = None /\ VoiceOf(rec) = None
  BY <1>1, <1>2 DEF Voices, Voice, VoiceOf, At
<1> QED
  BY <1>1, <1>3, <1>4 DEF Told, Voices, Ends

LEMMA NextMaps ==
    ASSUME IInv, [Next]_vars
    PROVE  Answer!Next \/ UNCHANGED <<Told, Voices, Ends>>
<1>1. ASSUME NEW t \in Turns, Step(t)
      PROVE  Answer!Next \/ UNCHANGED <<Told, Voices, Ends>>
  <2>1. turns[t].end = None
    BY <1>1 DEF IInv, TurnsInv, Sound, Step, Refusal, Select, NoRoute, Validate, Short, TimeOut,
                Garbage, EmptyStream, Refused, Fatal, Dead, Disabled, StreamEnd, Dropped,
                Degenerate, At
  <2>2. CASE Select(t) \/ Dead(t)
    BY <2>2, HiddenMaps DEF IInv
  <2>3. CASE Validate(t) \/ Short(t)
    BY <2>3, TellsMaps DEF IInv
  <2>4. CASE NoRoute(t) \/ TimeOut(t) \/ Garbage(t) \/ EmptyStream(t) \/ Refused(t)
             \/ Disabled(t) \/ Fatal(t) \/ Dropped(t) \/ Degenerate(t) \/ StreamEnd(t)
    <3>1. Silent(t)
      BY <2>4, NoRouteIsSilent, FailuresAreSilent, EndsAreSilent DEF IInv
    <3> QED
      BY <2>1, <3>1, SilentMaps DEF IInv
  <2> QED
    BY <1>1, <2>2, <2>3, <2>4 DEF Step, Refusal
<1>2. CASE \/ \E r \in Routes : Expire(r) \/ Slide(r)
           \/ \E m \in Models : HalfOpen(m)
           \/ UNCHANGED vars
  <2>1. turns' = turns
    BY <1>2 DEF Expire, Slide, HalfOpen, vars
  <2> QED
    BY <2>1 DEF Told, Voices, Ends, Voice, At, RouteOf
<1> QED
  BY <1>1, <1>2 DEF Next

LEMMA InitMaps == ASSUME Init PROVE Answer!Init
BY DEF Init, Started, Answer!Init, Voice, At

\* For all constants the engine keeps the promise of AnswerStream, continuing
\* some answers and passing others through: a part has one voice from its first
\* shown byte on, and an answer ends once, never empty, and, if it is continued,
\* never as an error once begun (engine.py:701-806, 920-1095).
THEOREM Refinement == Spec => Implements
<1>1. Init => Answer!Init
  BY InitMaps
<1>2. IInv /\ [Next]_vars => [Answer!Next]_<<Told, Voices, Ends>>
  BY NextMaps
<1>3. <<Told, Voices, Ends>> = Answer!vars
  BY DEF Answer!vars, Told, Voices, Ends
<1>4. IInv /\ [Next]_vars => [Answer!Next]_Answer!vars
  BY <1>2, <1>3 DEF Answer!vars, Told, Voices, Ends
<1> QED
  BY <1>1, <1>4, Inductive, PTL DEF Spec, Implements, Answer!Spec
=============================================================================
