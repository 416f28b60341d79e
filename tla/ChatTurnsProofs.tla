--------------------------- MODULE ChatTurnsProofs ---------------------------
(***************************************************************************)
(* What TLAPS proves of ChatTurns, for every number of requests, keys,     *)
(* restarts and pieces of an answer.                                       *)
(*                                                                         *)
(* The four invariants of the runs are not inductive: that a key has one   *)
(* answer rests on who owns a key (Owned) and on the table agreeing with   *)
(* it for the turns of this life; that an answer is saved once rests on    *)
(* how much is saved at each place a turn can be (Good).                   *)
(***************************************************************************)
EXTENDS ChatTurns, TLAPS

\* What holds of one turn by itself, in life n of the server.
Good(r, n) ==
    /\ r.at = "unborn" => r = Fresh
    /\ r.at # "unborn" => r.key \in Keys /\ r.life <= n
    /\ r.at \notin {"unborn", "over"} => r.life = n /\ r.told = "nothing" /\ ~r.pending
    /\ r.at \in {"prelude", "ready", "stream", "retry", "empty", "fallback", "verify", "commit"} =>
          r.saved = 0 /\ ~r.unsure
    /\ r.at = "partial" => r.saved <= 1
    /\ r.at = "again" => r.saved = 0 \/ (r.saved = 1 /\ r.unsure)
    /\ r.at = "tail" => r.saved = 1
    /\ r.at \notin {"unborn", "prelude", "over"} => r.asked
    /\ r.at \in {"retry", "empty", "partial"} => r.kind = "upload"
    /\ r.pending => r.saved = 0 \/ (r.saved = 1 /\ r.unsure)
    /\ r.saved <= 1 \/ r.unsure
    /\ r.shown + r.held <= MaxShown
    /\ r.held # 0 => r.kind = "text" /\ r.at = "stream"
    /\ r.stop => r.kind = "text" /\ r.cancelled
    /\ r.told = "done" => r.saved > 0 /\ r.asked
    /\ r.kind = "text" /\ r.told = "duplicate" => ~r.asked

\* The turn a key belongs to: for a text turn once and for all, for an upload
\* while it answers and after its done frame.
Owned(r) ==
    IF r.kind = "text" THEN r.at # "unborn" /\ r.told # "duplicate"
    ELSE r.at \notin {"unborn", "prelude", "over"} \/ r.told = "done"

OneOwner ==
    \A t, u \in Turns :
        (t # u /\ Owned(turns[t]) /\ Owned(turns[u]) /\ turns[t].life = turns[u].life)
            => turns[t].key # turns[u].key
OwnedIsKept ==
    \A t \in Turns : (Owned(turns[t]) /\ turns[t].life = life) => keys[turns[t].key] # "free"
ScopeIsText ==
    scope # None => scope \in Turns /\ turns[scope].kind = "text" /\ turns[scope].at # "unborn"

IInv ==
    /\ TypeOK
    /\ \A t \in Turns : Good(turns[t], life)
    /\ OneOwner /\ OwnedIsKept /\ ScopeIsText

-----------------------------------------------------------------------------
(* The three ways a step can treat the key of the turn it changes.         *)

\* The key stays as it is: the turn must not come to own it.
LEMMA KeyKept ==
    ASSUME IInv, NEW t \in Turns, NEW r \in TurnRecord, Good(r, life), Change(t, r),
           r.at # "unborn", r.kind = turns[t].kind \/ turns[t].at = "unborn",
           Owned(r) => Owned(turns[t]) /\ r.life = turns[t].life /\ r.key = turns[t].key,
           scope' = scope \/ (scope' = t /\ r.kind = "text"),
           keys' = keys, flag' \in BOOLEAN, life' = life
    PROVE  IInv'
<1>1. TypeOK'  BY DEF IInv, TypeOK, Change
<1>2. \A u \in Turns : turns'[u] = IF u = t THEN r ELSE turns[u]
  BY DEF IInv, TypeOK, Change
<1>3. \A u \in Turns : Good(turns[u], life)'
  <2> SUFFICES ASSUME NEW u \in Turns PROVE Good(turns'[u], life)  BY DEF Good
  <2> QED  BY <1>2 DEF IInv
<1>4. OneOwner'  BY <1>2 DEF IInv, OneOwner, Owned
<1>5. OwnedIsKept'  BY <1>2 DEF IInv, OwnedIsKept, Owned
<1>6. ScopeIsText'  BY <1>2 DEF IInv, ScopeIsText
<1> QED  BY <1>1, <1>3, <1>4, <1>5, <1>6 DEF IInv

\* The turn claims a key that is free.
LEMMA KeyClaimed ==
    ASSUME IInv, NEW t \in Turns, NEW r \in TurnRecord, Good(r, life), Change(t, r),
           r.at # "unborn", r.kind = turns[t].kind \/ turns[t].at = "unborn",
           r.life = life, r.key \in Keys, keys[r.key] = "free",
           keys' = [keys EXCEPT ![r.key] = "held"],
           flag' = flag, scope' = scope, life' = life
    PROVE  IInv'
<1>1. TypeOK'  BY DEF IInv, TypeOK, Change
<1>2. \A u \in Turns : turns'[u] = IF u = t THEN r ELSE turns[u]
  BY DEF IInv, TypeOK, Change
<1>3. \A u \in Turns : Good(turns[u], life)'
  <2> SUFFICES ASSUME NEW u \in Turns PROVE Good(turns'[u], life)  BY DEF Good
  <2> QED  BY <1>2 DEF IInv
<1>4. OneOwner'
  <2>1. \A u \in Turns : Owned(turns[u]) /\ turns[u].life = life => turns[u].key # r.key
    BY DEF IInv, OwnedIsKept
  <2> QED  BY <1>2, <2>1 DEF IInv, OneOwner, Owned
<1>5. OwnedIsKept'
  <2>1. \A k \in Keys : keys'[k] = IF k = r.key THEN "held" ELSE keys[k]
    BY DEF IInv, TypeOK
  <2>2. \A u \in Turns : Owned(turns[u]) => turns[u].key \in Keys
    BY NoneAssumption DEF IInv, Good, Owned, Fresh
  <2> QED  BY <1>2, <2>1, <2>2 DEF IInv, OwnedIsKept, Owned
<1>6. ScopeIsText'  BY <1>2 DEF IInv, ScopeIsText
<1> QED  BY <1>1, <1>3, <1>4, <1>5, <1>6 DEF IInv

\* What a turn is when it has ended.
LEMMA Ended ==
    ASSUME NEW rec \in TurnRecord, NEW frame \in {"nothing", "duplicate", "error", "done"}
    PROVE  LET r == EndedWith(rec, frame)
           IN  /\ r \in TurnRecord /\ r.at = "over" /\ r.told = frame /\ ~r.stop
               /\ r.shown = 0 /\ r.held = 0 /\ r.kind = rec.kind /\ r.key = rec.key
               /\ r.life = rec.life /\ r.asked = rec.asked /\ r.saved = rec.saved
               /\ r.unsure = rec.unsure /\ r.pending = rec.pending
<1>1. 0 \in 0 .. MaxShown /\ 0 \in 0 .. MaxTiers  BY BoundsAssumption
<1> QED  BY <1>1, ZenonT(30) DEF EndedWith, TurnRecord

\* The turn ends: an upload gives its key up, or keeps it for good.
LEMMA TurnEnded ==
    ASSUME IInv, NEW t \in Turns, NEW rec \in TurnRecord,
           NEW frame \in {"nothing", "error", "done"},
           Good(EndedWith(rec, frame), life), Ends(t, rec, frame),
           Owned(turns[t]), turns[t].at # "unborn", turns[t].life = life,
           rec.kind = turns[t].kind, rec.life = turns[t].life, rec.key = turns[t].key,
           flag' = flag, scope' = scope, life' = life
    PROVE  IInv'
<1> DEFINE r == EndedWith(rec, frame)
<1>0. /\ r \in TurnRecord /\ r.at = "over" /\ r.told = frame /\ r.kind = turns[t].kind
      /\ r.life = life /\ r.key = turns[t].key /\ r.key \in Keys
  BY Ended DEF TurnRecord, Good, IInv
<1>1. CASE IsText(t)
  <2>1. keys' = keys  BY <1>1 DEF Ends, Freed
  <2> QED  BY <1>0, <2>1, KeyKept DEF Ends, IInv, TypeOK
<1>2. CASE ~IsText(t)
  <2> DEFINE v == IF frame = "done" THEN "done" ELSE "free"
  <2>1. keys' = [keys EXCEPT ![r.key] = v]  BY <1>0, <1>2 DEF Ends, Freed
  <2>2. \A u \in Turns : turns'[u] = IF u = t THEN r ELSE turns[u]
    BY DEF IInv, TypeOK, Ends, Change
  <2>3. \A u \in Turns \ {t} : Owned(turns[u]) /\ turns[u].life = life => turns[u].key # r.key
    BY <1>0 DEF IInv, OneOwner
  <2>4. TypeOK'  BY <1>0, <2>1 DEF IInv, TypeOK, Ends, Change
  <2>5. \A u \in Turns : Good(turns[u], life)'
    <3> SUFFICES ASSUME NEW u \in Turns PROVE Good(turns'[u], life)  BY DEF Good
    <3> QED  BY <2>2 DEF IInv
  <2>6. OneOwner'  BY <1>0, <2>2 DEF IInv, OneOwner, Owned
  <2>7. OwnedIsKept'
    <3>1. \A k \in Keys : keys'[k] = IF k = r.key THEN v ELSE keys[k]
      BY <2>1 DEF IInv, TypeOK
    <3>2. \A u \in Turns : Owned(turns[u]) => turns[u].key \in Keys
      BY NoneAssumption DEF IInv, Good, Owned, Fresh
    <3>3. Owned(r) => frame = "done"  BY <1>0, <1>2 DEF Owned, IsText, TurnRecord
    <3> QED  BY <1>0, <2>2, <2>3, <3>1, <3>2, <3>3 DEF IInv, OwnedIsKept, Owned
  <2>8. ScopeIsText'  BY <1>0, <2>2 DEF IInv, ScopeIsText
  <2> QED  BY <2>4, <2>5, <2>6, <2>7, <2>8 DEF IInv
<1> QED  BY <1>1, <1>2

-----------------------------------------------------------------------------
(* The steps.                                                              *)

LEMMA AboutTurn ==
    ASSUME IInv, NEW t \in Turns
    PROVE  /\ turns[t] \in TurnRecord /\ Good(turns[t], life) /\ turns[t].life \in Nat
           /\ life \in 1 .. MaxLives /\ keys \in [Keys -> {"free", "held", "done"}]
           /\ flag \in BOOLEAN
BY BoundsAssumption DEF IInv, TypeOK, TurnRecord

LEMMA FreshOK ==
    /\ Fresh \in TurnRecord /\ Fresh.at = "unborn" /\ Fresh.told = "nothing"
    /\ Fresh.saved = 0 /\ Fresh.kind = "text" /\ ~Fresh.unsure /\ ~Fresh.pending
    /\ ~Fresh.stop /\ ~Fresh.asked /\ Fresh.shown = 0 /\ Fresh.held = 0
BY BoundsAssumption, NoneAssumption DEF Fresh, TurnRecord

\* A key claimed, a request refused, a question written, a response begun.
LEMMA PostTextStep ==
    ASSUME IInv, NEW t \in Turns, NEW k \in Keys, PostText(t, k) PROVE IInv'
<1>a. PICK c : c = Fresh  OBVIOUS
<1>b. /\ c \in TurnRecord /\ c.saved = 0 /\ c.told = "nothing" /\ ~c.unsure /\ ~c.pending
      /\ ~c.stop /\ ~c.asked /\ c.shown = 0 /\ c.held = 0 /\ MaxShown \in Nat /\ life \in Nat /\ life \in 1 .. MaxLives /\ flag \in BOOLEAN
      /\ turns[t].at = "unborn" /\ flag' = flag /\ scope' = scope /\ life' = life
  BY <1>a, FreshOK, AboutTurn, BoundsAssumption DEF PostText, control, At
<1> DEFINE rec == [c EXCEPT !.kind = "text", !.key = k, !.life = life]
<1>1. /\ rec \in TurnRecord /\ rec.kind = "text" /\ rec.key = k /\ rec.life = life
      /\ rec.saved = 0 /\ rec.told = "nothing" /\ ~rec.unsure /\ ~rec.pending
      /\ ~rec.stop /\ ~rec.asked /\ rec.shown = 0 /\ rec.held = 0
  BY <1>b DEF TurnRecord
<1>2. CASE Claims(k)
  <2> DEFINE r == [rec EXCEPT !.at = "prelude"]
  <2>1. Change(t, r) /\ keys' = [keys EXCEPT ![k] = "held"] /\ keys[k] = "free"
    BY <1>a, <1>2 DEF PostText, Claims
  <2> HIDE DEF rec
  <2>2. /\ r \in TurnRecord /\ r.key = k /\ r.at = "prelude" /\ r.life = life /\ r.kind = "text"
    BY <1>1 DEF TurnRecord
  <2>3. Good(r, life)  BY <1>1, <1>b DEF TurnRecord, Good
  <2> HIDE DEF r
  <2> QED  BY <1>b, <2>1, <2>2, <2>3, KeyClaimed
<1>3. CASE ~Claims(k)
  <2> DEFINE r == EndedWith(rec, "duplicate")
  <2>1. Change(t, r) /\ keys' = keys  BY <1>a, <1>3 DEF PostText
  <2> HIDE DEF rec
  <2>2. r \in TurnRecord  BY <1>1, Ended
  <2>3. r.at = "over" /\ r.told = "duplicate" /\ r.kind = "text"
    BY <1>1, Ended DEF TurnRecord
  <2>4. ~Owned(r)  BY <2>3 DEF Owned
  <2>5. Good(r, life)  BY <1>1, <1>b DEF TurnRecord, Good, EndedWith
  <2> HIDE DEF r
  <2> QED  BY <1>b, <2>1, <2>2, <2>3, <2>4, <2>5, KeyKept
<1> QED  BY <1>2, <1>3

LEMMA PostUploadStep ==
    ASSUME IInv, NEW t \in Turns, NEW k \in Keys, PostUpload(t, k) PROVE IInv'
<1>a. PICK c : c = Fresh  OBVIOUS
<1>b. /\ c \in TurnRecord /\ c.saved = 0 /\ c.told = "nothing" /\ ~c.unsure /\ ~c.pending
      /\ ~c.stop /\ ~c.asked /\ c.shown = 0 /\ c.held = 0 /\ MaxShown \in Nat /\ life \in Nat /\ life \in 1 .. MaxLives /\ flag \in BOOLEAN
  BY <1>a, FreshOK, AboutTurn, BoundsAssumption
<1> DEFINE r == [c EXCEPT !.kind = "upload", !.key = k, !.life = life, !.at = "prelude"]
<1>1. /\ Change(t, r) /\ keys' = keys
      /\ flag' = flag /\ scope' = scope /\ life' = life /\ turns[t].at = "unborn"
  BY <1>a DEF PostUpload, control, At
<1>2. r \in TurnRecord  BY <1>b DEF TurnRecord
<1>3. r.at = "prelude" /\ r.kind = "upload" /\ r.told = "nothing"  BY <1>b DEF TurnRecord
<1>4. ~Owned(r)  BY <1>3 DEF Owned
<1>5. Good(r, life)  BY <1>b DEF TurnRecord, Good
<1> HIDE DEF r
<1> QED  BY <1>b, <1>1, <1>2, <1>3, <1>4, <1>5, KeyKept

LEMMA ClaimStep ==
    ASSUME IInv, NEW t \in Turns, Claim(t) PROVE IInv'
<1>a. PICK c : c = turns[t]  OBVIOUS
<1>b. /\ c \in TurnRecord /\ Good(c, life) /\ life \in Nat /\ life \in 1 .. MaxLives
      /\ flag \in BOOLEAN
  BY <1>a, AboutTurn, BoundsAssumption
<1> USE <1>b
<1>1. /\ c.at = "prelude" /\ c.kind = "upload" /\ c.asked
      /\ c.key \in Keys /\ c.life = life
      /\ flag' = flag /\ life' = life /\ scope' = scope
  BY <1>a DEF Claim, At, IsText, control, TurnRecord, Good
<1>2. CASE Claims(c.key)
  <2> DEFINE r == [c EXCEPT !.at = "ready"]
  <2>1. Change(t, r) /\ keys' = [keys EXCEPT ![c.key] = "held"] /\ keys[c.key] = "free"
    BY <1>a, <1>2 DEF Claim, Claims
  <2>2. r \in TurnRecord  BY <1>1 DEF TurnRecord
  <2>3. Good(r, life)  BY <1>1 DEF TurnRecord, Good
  <2>4. r.kind = c.kind /\ r.at = "ready" /\ r.key = c.key /\ r.life = life
    BY <1>1 DEF TurnRecord
  <2> HIDE DEF r
  <2> QED  BY <1>a, <1>1, <2>1, <2>2, <2>3, <2>4, KeyClaimed
<1>3. CASE ~Claims(c.key)
  <2> DEFINE r == EndedWith(c, "duplicate")
  <2>1. Change(t, r) /\ keys' = keys  BY <1>a, <1>3 DEF Claim
  <2>2. r \in TurnRecord  BY <1>1, Ended
  <2>3. r.kind = c.kind /\ r.at = "over" /\ r.told = "duplicate"
    BY <1>1, Ended DEF TurnRecord
  <2>4. ~Owned(r)  BY <1>1, <2>3 DEF Owned
  <2>5. Good(r, life)  BY <1>1 DEF TurnRecord, EndedWith, Good
  <2> HIDE DEF r
  <2> QED  BY <1>a, <1>1, <2>1, <2>2, <2>3, <2>4, <2>5, KeyKept
<1> QED  BY <1>2, <1>3

LEMMA HandlerSteps ==
    ASSUME IInv, NEW t \in Turns, Handler(t) \/ Fails(t) PROVE IInv'
<1>a. PICK c : c = turns[t]  OBVIOUS
<1>b. /\ c \in TurnRecord /\ Good(c, life) /\ life \in Nat /\ life \in 1 .. MaxLives
      /\ flag \in BOOLEAN
  BY <1>a, AboutTurn, BoundsAssumption
<1> USE <1>b
<1>1. CASE Begin(t)
  <2> DEFINE r == [c EXCEPT !.at = "ready", !.asked = TRUE]
  <2>1. /\ Change(t, r) /\ keys' = keys /\ flag' \in BOOLEAN /\ life' = life
        /\ scope' = t
        /\ c.at = "prelude" /\ c.kind = "text"
    BY <1>a, <1>1 DEF Begin, At, IsText, Change
  <2>2. r \in TurnRecord  BY <2>1 DEF TurnRecord
  <2>3. Good(r, life)  BY <2>1 DEF TurnRecord, Good
  <2>4. r.at # "unborn" /\ r.kind = "text"
    BY <2>1 DEF TurnRecord
  <2>5. Owned(r) => Owned(c) /\ r.life = c.life /\ r.key = c.key
    BY <2>1 DEF TurnRecord, Good, Owned
  <2> HIDE DEF r
  <2> QED  BY <1>a, <2>1, <2>2, <2>3, <2>4, <2>5, KeyKept
<1>2. CASE Write(t)
  <2> DEFINE r == [c EXCEPT !.asked = TRUE]
  <2>1. /\ Change(t, r) /\ keys' = keys /\ flag' \in BOOLEAN /\ life' = life
        /\ scope' = scope
        /\ c.at = "prelude" /\ c.kind = "upload"
    BY <1>a, <1>2 DEF Write, At, IsText, control, TurnRecord
  <2>2. r \in TurnRecord  BY <2>1 DEF TurnRecord
  <2>3. Good(r, life)  BY <2>1 DEF TurnRecord, Good
  <2>4. r.at # "unborn" /\ r.kind = c.kind
    BY <2>1 DEF TurnRecord
  <2>5. Owned(r) => Owned(c) /\ r.life = c.life /\ r.key = c.key
    BY <2>1 DEF TurnRecord, Good, Owned
  <2> HIDE DEF r
  <2> QED  BY <1>a, <2>1, <2>2, <2>3, <2>4, <2>5, KeyKept
<1>3. CASE Claim(t)  BY <1>3, ClaimStep
<1>4. CASE Fails(t)
  <2> DEFINE r == EndedWith(c, "error")
  <2>1. /\ Change(t, r) /\ keys' = keys /\ flag' \in BOOLEAN /\ life' = life
        /\ scope' = scope
        /\ c.at = "prelude"
    BY <1>a, <1>4 DEF Fails, At, control
  <2>2. r \in TurnRecord  BY <2>1, Ended
  <2>3. Good(r, life)  BY <2>1 DEF TurnRecord, Good, EndedWith
  <2>4. r.at # "unborn" /\ r.kind = c.kind
    BY <2>1, Ended DEF TurnRecord
  <2>5. Owned(r) => Owned(c) /\ r.life = c.life /\ r.key = c.key
    BY <2>1 DEF TurnRecord, Good, Owned, EndedWith
  <2> HIDE DEF r
  <2> QED  BY <1>a, <2>1, <2>2, <2>3, <2>4, <2>5, KeyKept
<1>5. CASE Start(t)
  <2> DEFINE r == [c EXCEPT !.at = "stream"]
  <2>1. /\ Change(t, r) /\ keys' = keys /\ flag' \in BOOLEAN /\ life' = life
        /\ scope' = scope
        /\ c.at = "ready"
    BY <1>a, <1>5 DEF Start, At
  <2>2. r \in TurnRecord  BY <2>1 DEF TurnRecord
  <2>3. Good(r, life)  BY <2>1 DEF TurnRecord, Good
  <2>4. r.at # "unborn" /\ r.kind = c.kind
    BY <2>1 DEF TurnRecord
  <2>5. Owned(r) => Owned(c) /\ r.life = c.life /\ r.key = c.key
    BY <2>1 DEF TurnRecord, Good, Owned
  <2> HIDE DEF r
  <2> QED  BY <1>a, <2>1, <2>2, <2>3, <2>4, <2>5, KeyKept
<1>6. CASE NeverStarts(t)
  <2> DEFINE r == EndedWith(c, "nothing")
  <2>1. /\ Change(t, r) /\ keys' = keys /\ flag' \in BOOLEAN /\ life' = life
        /\ scope' = scope
        /\ c.at = "ready"
    BY <1>a, <1>6 DEF NeverStarts, At, control
  <2>2. r \in TurnRecord  BY <2>1, Ended
  <2>3. Good(r, life)  BY <2>1 DEF TurnRecord, Good, EndedWith
  <2>4. r.at # "unborn" /\ r.kind = c.kind
    BY <2>1, Ended DEF TurnRecord
  <2>5. Owned(r) => Owned(c) /\ r.life = c.life /\ r.key = c.key
    BY <2>1 DEF TurnRecord, Good, Owned, EndedWith
  <2> HIDE DEF r
  <2> QED  BY <1>a, <2>1, <2>2, <2>3, <2>4, <2>5, KeyKept
<1> QED  BY <1>1, <1>2, <1>3, <1>4, <1>5, <1>6 DEF Handler

\* A turn that answers goes on: it still owns its key.
Inside == {"stream", "retry", "empty", "fallback", "partial", "verify", "commit", "again", "tail"}

LEMMA GoesOn ==
    ASSUME IInv, NEW t \in Turns, NEW r \in TurnRecord, Good(r, life), Change(t, r),
           turns[t].at \in Inside, r.at # "unborn",
           r.kind = turns[t].kind, r.key = turns[t].key, r.life = turns[t].life,
           keys' = keys, UNCHANGED control
    PROVE  IInv'
<1>1. turns[t] \in TurnRecord /\ Good(turns[t], life) /\ flag \in BOOLEAN  BY AboutTurn
<1>2. Owned(turns[t])  BY <1>1 DEF Owned, Good, Inside, TurnRecord
<1> QED  BY <1>1, <1>2, KeyKept DEF control

\* An answer that is there goes to its verification or to the database.
LEMMA OnwardOK ==
    ASSUME IInv, NEW t \in Turns, NEW rec \in TurnRecord, Onward(t, rec),
           turns[t].at \in {"stream", "retry", "empty", "fallback"},
           rec.at = turns[t].at, rec.held = 0, Good(rec, life), rec.kind = turns[t].kind,
           rec.key = turns[t].key, rec.life = turns[t].life, keys' = keys, UNCHANGED control
    PROVE  IInv'
<1>1. PICK place \in {"verify", "commit"} : Change(t, [rec EXCEPT !.at = place])
  BY DEF Onward
<1> DEFINE r == [rec EXCEPT !.at = place]
<1>2. /\ r \in TurnRecord /\ r.at = place /\ r.kind = rec.kind /\ r.key = rec.key
      /\ r.life = rec.life
  BY DEF TurnRecord
<1>3. Good(r, life)  BY DEF TurnRecord, Good
<1>4. turns[t].at \in Inside  BY DEF Inside
<1> HIDE DEF r
<1> QED  BY <1>1, <1>2, <1>3, <1>4, GoesOn DEF r

\* A piece taken up, a stream that goes on elsewhere, an answer saved.
LEMMA StreamSteps ==
    ASSUME IInv, NEW t \in Turns,
           \/ Token(t) \/ RetryToken(t) \/ SaveLeft(t) \/ StreamEnds(t) \/ StartOver(t)
           \/ Retried(t) \/ PartialCommits(t) \/ FallbackAnswers(t) \/ Verified(t)
           \/ Committed(t) \/ Disconnect(t)
    PROVE  IInv'
<1>a. PICK c : c = turns[t]  OBVIOUS
<1>b. /\ c \in TurnRecord /\ Good(c, life) /\ life \in Nat /\ life \in 1 .. MaxLives
      /\ flag \in BOOLEAN
  BY <1>a, AboutTurn, BoundsAssumption
<1> USE <1>b
<1>0. ASSUME NEW r, Change(t, r), r \in TurnRecord, Good(r, life), c.at \in Inside,
             r.at \in Inside, r.kind = c.kind, r.key = c.key, r.life = c.life,
             keys' = keys, UNCHANGED control
      PROVE  IInv'
  <2>1. r.at # "unborn"  BY <1>0 DEF Inside
  <2> QED  BY <1>a, <1>0, <2>1, GoesOn
<1>1. CASE Token(t)
  <2>0. c.at = "stream" /\ c.shown + c.held < MaxShown /\ keys' = keys /\ UNCHANGED control
    BY <1>a, <1>1 DEF Token, Shows, Collected, At
  <2> DEFINE h == [c EXCEPT !.held = @ + 1]
             f == [h EXCEPT !.shown = c.shown + (c.held + 1), !.held = 0]
  <2>a. /\ c.held + 1 \in 0 .. MaxShown /\ c.shown + (c.held + 1) \in 0 .. MaxShown
        /\ 0 \in 0 .. MaxShown
    BY <2>0, BoundsAssumption DEF TurnRecord
  <2>1. h \in TurnRecord /\ h.shown = c.shown /\ h.held = c.held + 1
    BY <2>a DEF TurnRecord
  <2>2. Flushed(h) = f  BY <2>1 DEF Flushed, Collected
  <2>3. Change(t, f) \/ (c.kind = "text" /\ Change(t, h))
    BY <1>a, <1>1, <2>2 DEF Token, IsText
  <2>4. f \in TurnRecord  BY <2>a, <2>1 DEF TurnRecord
  <2>5. Good(f, life) /\ (c.kind = "text" => Good(h, life))  BY <2>0, <2>a DEF TurnRecord, Good
  <2>6. /\ h.at = "stream" /\ h.kind = c.kind /\ h.key = c.key /\ h.life = c.life
        /\ f.at = "stream" /\ f.kind = c.kind /\ f.key = c.key /\ f.life = c.life
    BY <2>0 DEF TurnRecord
  <2>7. "stream" \in Inside  BY DEF Inside
  <2> HIDE DEF h, f
  <2> QED  BY <1>0, <2>0, <2>1, <2>3, <2>4, <2>5, <2>6, <2>7
<1>2. CASE SaveLeft(t)
  <2>0. PICK n \in {0, 1} : Change(t, [c EXCEPT !.pending = FALSE, !.saved = @ + n])
    BY <1>a, <1>2 DEF SaveLeft
  <2> DEFINE r == [c EXCEPT !.pending = FALSE, !.saved = @ + n]
  <2>1. /\ Change(t, r) /\ keys' = keys /\ flag' \in BOOLEAN /\ life' = life
        /\ scope' = scope
        /\ c.pending /\ c.at = "over" /\ (c.saved = 0 \/ (c.saved = 1 /\ c.unsure))
    BY <1>a, <1>2, <2>0, FreshOK DEF SaveLeft, control, Good
  <2>2. r \in TurnRecord
    <3>1. c.saved + n \in 0 .. 2  BY <2>1
    <3> QED  BY <3>1 DEF TurnRecord
  <2>3. Good(r, life)  BY <2>1 DEF TurnRecord, Good
  <2>4. r.at # "unborn" /\ r.kind = c.kind
    BY <2>1 DEF TurnRecord
  <2>5. Owned(r) => Owned(c) /\ r.life = c.life /\ r.key = c.key
    BY <2>1 DEF TurnRecord, Good, Owned
  <2> HIDE DEF r
  <2> QED  BY <1>a, <2>1, <2>2, <2>3, <2>4, <2>5, KeyKept
<1>3. CASE StreamEnds(t)
  <2> DEFINE r == [c EXCEPT !.shown = c.shown + c.held, !.held = 0]
  <2>1. c.at = "stream" /\ Onward(t, r) /\ keys' = keys /\ UNCHANGED control
    BY <1>a, <1>3 DEF StreamEnds, Flushed, Collected, At
  <2>2. c.shown + c.held \in 0 .. MaxShown /\ 0 \in 0 .. MaxShown
    BY BoundsAssumption DEF Good, TurnRecord
  <2>3. r \in TurnRecord  BY <2>2 DEF TurnRecord
  <2>4. /\ Good(r, life) /\ r.at = c.at /\ r.kind = c.kind /\ r.key = c.key /\ r.life = c.life
        /\ r.held = 0
    BY <2>1, BoundsAssumption DEF TurnRecord, Good
  <2> HIDE DEF r
  <2> QED  BY <1>a, <2>1, <2>3, <2>4, OnwardOK
<1>4. CASE StartOver(t)
  <2> DEFINE r == [c EXCEPT !.at = "retry", !.shown = 0]
  <2>1. Change(t, r) /\ c.at = "stream" /\ c.kind = "upload" /\ keys' = keys /\ UNCHANGED control
    BY <1>a, <1>4 DEF StartOver, At, IsText, TurnRecord
  <2>2. r \in TurnRecord
    <3>1. 0 \in 0 .. MaxShown  BY BoundsAssumption
    <3> QED  BY <3>1 DEF TurnRecord
  <2>3. Good(r, life)  BY <2>1 DEF TurnRecord, Good
  <2>4. r.at = "retry" /\ r.kind = c.kind /\ r.key = c.key /\ r.life = c.life
    BY DEF TurnRecord
  <2>5. {"stream", "retry"} \subseteq Inside  BY DEF Inside
  <2> HIDE DEF r
  <2> QED  BY <1>0, <2>1, <2>2, <2>3, <2>4, <2>5
<1>5. CASE RetryToken(t)
  <2> DEFINE r == [c EXCEPT !.shown = @ + 1]
  <2>1. /\ Change(t, r) /\ c.at \in {"retry", "empty"} /\ c.shown + c.held < MaxShown
        /\ keys' = keys /\ UNCHANGED control
    BY <1>a, <1>5 DEF RetryToken, Shows, Collected, At
  <2>a. c.shown + 1 \in 0 .. MaxShown /\ c.held = 0
    BY <2>1, BoundsAssumption DEF TurnRecord, Good
  <2>2. r \in TurnRecord /\ r.shown = c.shown + 1 /\ r.held = 0  BY <2>a DEF TurnRecord
  <2>3. Good(r, life)  BY <2>1, <2>2, <2>a DEF TurnRecord, Good
  <2>4. r.at = c.at /\ r.kind = c.kind /\ r.key = c.key /\ r.life = c.life
    BY DEF TurnRecord
  <2>5. c.at \in Inside  BY <2>1 DEF Inside
  <2> HIDE DEF r
  <2> QED  BY <1>0, <2>1, <2>2, <2>3, <2>4, <2>5
<1>6. CASE Retried(t)
  <2>1. /\ c.at \in {"retry", "empty"} /\ Onward(t, c) /\ keys' = keys /\ UNCHANGED control
        /\ c.held = 0
    BY <1>a, <1>6 DEF Retried, Good
  <2> QED  BY <1>a, <2>1, OnwardOK
<1>7. CASE PartialCommits(t)
  <2> DEFINE r == [c EXCEPT !.saved = 1]
  <2>1. Change(t, r) /\ c.at = "partial" /\ c.saved = 0 /\ keys' = keys /\ UNCHANGED control
    BY <1>a, <1>7 DEF PartialCommits, At
  <2>2. r \in TurnRecord  BY DEF TurnRecord
  <2>3. Good(r, life)  BY <2>1 DEF TurnRecord, Good
  <2>4. r.at = "partial" /\ r.kind = c.kind /\ r.key = c.key /\ r.life = c.life
    BY <2>1 DEF TurnRecord
  <2>5. "partial" \in Inside  BY DEF Inside
  <2> HIDE DEF r
  <2> QED  BY <1>0, <2>1, <2>2, <2>3, <2>4, <2>5
<1>8. CASE FallbackAnswers(t)
  <2> DEFINE r == [c EXCEPT !.shown = 1, !.tier = 0]
  <2>1. c.at = "fallback" /\ Onward(t, r) /\ keys' = keys /\ UNCHANGED control
    BY <1>a, <1>8 DEF FallbackAnswers, At
  <2>2. 1 \in 0 .. MaxShown /\ 0 \in 0 .. MaxTiers  BY BoundsAssumption
  <2>3. r \in TurnRecord  BY <2>2 DEF TurnRecord
  <2>4. /\ r.at = c.at /\ r.kind = c.kind /\ r.key = c.key /\ r.life = c.life
        /\ r.shown = 1 /\ r.held = 0 /\ 1 <= MaxShown
    BY <2>1, <2>2, BoundsAssumption DEF TurnRecord, Good
  <2>5. Good(r, life)  BY <2>1, <2>4 DEF TurnRecord, Good
  <2> HIDE DEF r
  <2> QED  BY <1>a, <2>1, <2>3, <2>4, <2>5, OnwardOK
<1>9. CASE Verified(t)
  <2>0. PICK n \in {0, 1} : /\ n = 1 => Shows(t)
                            /\ Change(t, [c EXCEPT !.at = "commit", !.shown = @ + n])
    BY <1>a, <1>9 DEF Verified
  <2> DEFINE r == [c EXCEPT !.at = "commit", !.shown = @ + n]
  <2>1. Change(t, r) /\ c.at = "verify" /\ keys' = keys /\ UNCHANGED control
    BY <1>a, <1>9, <2>0 DEF Verified, At
  <2>2. c.shown + n \in 0 .. MaxShown /\ c.held = 0
    BY <1>a, <2>0, <2>1, BoundsAssumption DEF Shows, Collected, TurnRecord, Good
  <2>3. r \in TurnRecord  BY <2>2, ZenonT(60) DEF TurnRecord
  <2>a. r.shown = c.shown + n /\ r.held = 0  BY <2>2 DEF TurnRecord
  <2>4. Good(r, life)  BY <2>1, <2>2, <2>a DEF TurnRecord, Good
  <2>5. r.at = "commit" /\ r.kind = c.kind /\ r.key = c.key /\ r.life = c.life
    BY DEF TurnRecord
  <2>6. {"verify", "commit"} \subseteq Inside  BY DEF Inside
  <2> HIDE DEF r
  <2> QED  BY <1>0, <2>1, <2>3, <2>4, <2>5, <2>6
<1>10. CASE Committed(t)
  <2> DEFINE r == [c EXCEPT !.at = "tail", !.saved = @ + 1]
  <2>1. Change(t, r) /\ c.at = "commit" /\ c.saved = 0 /\ keys' = keys /\ UNCHANGED control
    BY <1>a, <1>10 DEF Committed, At, Good
  <2>2. r \in TurnRecord
    <3>1. c.saved + 1 \in 0 .. 2  BY <2>1
    <3> QED  BY <3>1 DEF TurnRecord
  <2>3. Good(r, life)  BY <2>1 DEF TurnRecord, Good
  <2>4. r.at = "tail" /\ r.kind = c.kind /\ r.key = c.key /\ r.life = c.life
    BY DEF TurnRecord
  <2>5. {"tail", "commit"} \subseteq Inside  BY DEF Inside
  <2> HIDE DEF r
  <2> QED  BY <1>0, <2>1, <2>2, <2>3, <2>4, <2>5
<1>11. CASE Disconnect(t)
  <2> DEFINE r == [c EXCEPT !.gone = TRUE]
  <2>1. /\ Change(t, r) /\ keys' = keys /\ flag' \in BOOLEAN /\ life' = life
        /\ scope' = scope
        /\ c.at \notin {"unborn", "over"}
    BY <1>a, <1>11 DEF Disconnect, Over, At, control
  <2>2. r \in TurnRecord  BY <2>1 DEF TurnRecord
  <2>3. Good(r, life)  BY <2>1 DEF TurnRecord, Good
  <2>4. r.at # "unborn" /\ r.kind = c.kind
    BY <2>1 DEF TurnRecord
  <2>5. Owned(r) => Owned(c) /\ r.life = c.life /\ r.key = c.key
    BY <2>1 DEF TurnRecord, Good, Owned
  <2> HIDE DEF r
  <2> QED  BY <1>a, <2>1, <2>2, <2>3, <2>4, <2>5, KeyKept
<1> QED  BY <1>1, <1>2, <1>3, <1>4, <1>5, <1>6, <1>7, <1>8, <1>9, <1>10, <1>11

\* What TurnEnded asks of the record a turn ends with.
Last(r, n) ==
    /\ r.key \in Keys /\ r.life = n
    /\ r.saved <= 1 \/ r.unsure
    /\ r.pending => r.saved = 0 \/ (r.saved = 1 /\ r.unsure)

LEMMA EndOK ==
    ASSUME IInv, NEW t \in Turns, NEW rec \in TurnRecord, Last(rec, life),
           NEW frame \in {"nothing", "error", "done"}, Ends(t, rec, frame),
           frame = "done" => rec.saved > 0 /\ rec.asked,
           turns[t].at \in Inside,
           rec.kind = turns[t].kind, UNCHANGED control,
           rec.key = turns[t].key
    PROVE  IInv'
<1>0. PICK c : c = turns[t]  OBVIOUS
<1>1. c \in TurnRecord /\ Good(c, life) /\ life \in Nat  BY <1>0, AboutTurn, BoundsAssumption
<1>2. Owned(c) /\ c.at # "unborn" /\ c.life = life
  BY <1>0, <1>1 DEF Owned, Good, Inside, TurnRecord
<1>3. Good(EndedWith(rec, frame), life)
  <2> DEFINE e == EndedWith(rec, frame)
  <2>1. /\ e \in TurnRecord /\ e.at = "over" /\ e.told = frame /\ ~e.stop
        /\ e.shown = 0 /\ e.held = 0 /\ e.key = rec.key /\ e.life = rec.life
        /\ e.asked = rec.asked /\ e.saved = rec.saved /\ e.unsure = rec.unsure
        /\ e.pending = rec.pending /\ MaxShown \in Nat
    BY Ended, BoundsAssumption
  <2> HIDE DEF e
  <2>2. Good(e, life)  BY <1>1, <2>1 DEF Good, Last
  <2> QED  BY <2>2 DEF e
<1> QED  BY <1>0, <1>2, <1>3, TurnEnded DEF Last, control

LEMMA CommitFailsStep ==
    ASSUME IInv, NEW t \in Turns, CommitFails(t) PROVE IInv'
<1>a. PICK c : c = turns[t]  OBVIOUS
<1>b. /\ c \in TurnRecord /\ Good(c, life) /\ life \in Nat /\ life \in 1 .. MaxLives
      /\ flag \in BOOLEAN
  BY <1>a, AboutTurn, BoundsAssumption
<1> USE <1>b
<1>0. c.at = "commit" /\ UNCHANGED control  BY <1>a, SMTT(30) DEF CommitFails, At
<1>1. PICK lost \in BOOLEAN :
         LET rec == [turns[t] EXCEPT !.saved = IF lost THEN @ ELSE @ + 1, !.unsure = ~lost]
         IN  IF IsText(t)
             THEN Change(t, [rec EXCEPT !.at = "again"]) /\ UNCHANGED keys
             ELSE Ends(t, rec, "nothing")
  BY DEF CommitFails
<1> DEFINE rec == [c EXCEPT !.saved = IF lost THEN @ ELSE @ + 1, !.unsure = ~lost]
<1>2. rec \in TurnRecord
  <2>1. (IF lost THEN c.saved ELSE c.saved + 1) \in 0 .. 2 /\ (~lost) \in BOOLEAN
    BY <1>0 DEF Good
  <2> QED  BY <2>1 DEF TurnRecord
<1>3. /\ rec.key = c.key /\ rec.kind = c.kind /\ rec.at = "commit" /\ rec.life = life
      /\ rec.saved = (IF lost THEN 0 ELSE 1) /\ rec.unsure = ~lost /\ rec.asked /\ ~rec.pending
      /\ rec.told = c.told /\ rec.stop = c.stop /\ rec.cancelled = c.cancelled /\ rec.key \in Keys
      /\ rec.shown = c.shown /\ rec.held = 0 /\ c.shown <= MaxShown /\ c.held = 0
  BY <1>0 DEF TurnRecord, Good
<1>4. CASE IsText(t)
  <2> DEFINE r == [rec EXCEPT !.at = "again"]
  <2>1. Change(t, r) /\ keys' = keys  BY <1>a, <1>1, <1>4
  <2> HIDE DEF rec
  <2>2. r \in TurnRecord  BY <1>2 DEF TurnRecord
  <2>3. r.kind = c.kind /\ r.at = "again" /\ r.life = c.life /\ r.key = c.key
    BY <1>0, <1>2, <1>3 DEF TurnRecord, Good
  <2>4. Owned(c)  BY <1>0 DEF Owned, TurnRecord, Good
  <2>a. c.shown \in Nat /\ MaxShown \in Nat  BY BoundsAssumption DEF TurnRecord
  <2>b. r.shown = c.shown /\ r.held = 0  BY <1>2, <1>3 DEF TurnRecord
  <2>5. Good(r, life)  BY <1>0, <1>2, <1>3, <2>a, <2>b DEF TurnRecord, Good
  <2> HIDE DEF r
  <2> QED  BY <1>a, <1>0, <2>1, <2>2, <2>3, <2>4, <2>5, KeyKept DEF control
<1>5. CASE ~IsText(t)
  <2>1. Ends(t, rec, "nothing")  BY <1>a, <1>1, <1>5
  <2> HIDE DEF rec
  <2>2. Last(rec, life)  BY <1>3 DEF Last
  <2>3. turns[t].at \in Inside  BY <1>a, <1>0 DEF Inside
  <2> QED  BY <1>a, <1>0, <1>2, <1>3, <2>1, <2>2, <2>3, EndOK
<1> QED  BY <1>4, <1>5

\* Another tier is asked, or none after Stop.
LEMMA AskStep ==
    ASSUME IInv, NEW t \in Turns, NEW tier \in 0 .. MaxTiers, Ask(t, tier),
           turns[t].at \in {"stream", "retry", "empty", "fallback"}, turns[t].held = 0
    PROVE  IInv'
<1>a. PICK c : c = turns[t]  OBVIOUS
<1>b. /\ c \in TurnRecord /\ Good(c, life) /\ life \in Nat /\ UNCHANGED control
      /\ turns[t].at \in Inside
  BY <1>a, AboutTurn, BoundsAssumption DEF Ask, Inside
<1> USE <1>b
<1>1. CASE IsStopped(t)
  <2>1. Ends(t, c, "nothing")  BY <1>a, <1>1 DEF Ask
  <2>2. Last(c, life)  BY <1>a DEF Last, Good, TurnRecord
  <2> QED  BY <1>a, <2>1, <2>2, EndOK
<1>2. CASE ~IsStopped(t)
  <2> DEFINE r == [c EXCEPT !.at = "fallback", !.shown = 0, !.tier = tier]
  <2>1. Change(t, r) /\ keys' = keys  BY <1>a, <1>2 DEF Ask
  <2>2. r \in TurnRecord
    <3>1. 0 \in 0 .. MaxShown /\ tier \in 0 .. MaxTiers  BY BoundsAssumption
    <3> QED  BY <3>1, ZenonT(60) DEF TurnRecord
  <2>3. r.at = "fallback" /\ r.kind = c.kind /\ r.key = c.key /\ r.life = c.life
    BY DEF TurnRecord
  <2>4. r.held = 0 /\ r.shown = 0 /\ MaxShown \in Nat  BY <1>a, BoundsAssumption DEF TurnRecord
  <2>5. /\ c.life = life /\ c.told = "nothing" /\ ~c.pending /\ c.saved = 0 /\ ~c.unsure
        /\ c.asked /\ c.key \in Keys /\ (c.stop => c.kind = "text" /\ c.cancelled)
    BY <1>a DEF Good
  <2>6. /\ r.told = c.told /\ r.pending = c.pending /\ r.saved = c.saved /\ r.unsure = c.unsure
        /\ r.asked = c.asked /\ r.stop = c.stop /\ r.cancelled = c.cancelled
    BY DEF TurnRecord
  <2> HIDE DEF r
  <2>7. Good(r, life)  BY <2>3, <2>4, <2>5, <2>6 DEF Good
  <2> QED  BY <1>a, <2>1, <2>2, <2>3, <2>7, GoesOn
<1> QED  BY <1>1, <1>2

\* An empty stream, and a fallback that failed.
LEMMA EmptySteps ==
    ASSUME IInv, NEW t \in Turns, EmptyStream(t) \/ EmptyAgain(t) \/ FallbackFails(t)
    PROVE  IInv'
<1>a. PICK c : c = turns[t]  OBVIOUS
<1>b. c \in TurnRecord /\ Good(c, life) /\ life \in Nat
  BY <1>a, AboutTurn, BoundsAssumption
<1> USE <1>b
<1>0. 1 \in 0 .. MaxTiers  BY BoundsAssumption
<1>1. CASE EmptyStream(t)
  <2>1. CASE IsText(t)
    <3>1. turns[t].held = 0
      BY <1>a, <1>1, BoundsAssumption DEF EmptyStream, Collected, TurnRecord
    <3> QED  BY <1>0, <1>1, <2>1, <3>1, AskStep DEF EmptyStream
  <2>2. CASE ~IsText(t)
    <3> DEFINE r == [c EXCEPT !.at = "empty"]
    <3>1. /\ Change(t, r) /\ keys' = keys /\ UNCHANGED control /\ c.kind = "upload"
          /\ c.at \in {"stream", "retry"}
      BY <1>a, <1>1, <2>2 DEF EmptyStream, IsText, TurnRecord
    <3>2. /\ r \in TurnRecord /\ r.at = "empty" /\ r.kind = c.kind /\ r.key = c.key
          /\ r.life = c.life
      BY DEF TurnRecord
    <3>3. Good(r, life)  BY <3>1 DEF TurnRecord, Good
    <3>4. c.at \in Inside  BY <3>1 DEF Inside
    <3> HIDE DEF r
    <3> QED  BY <1>a, <3>1, <3>2, <3>3, <3>4, GoesOn
  <2> QED  BY <2>1, <2>2
<1>2. CASE EmptyAgain(t)  BY <1>a, <1>0, <1>2, AskStep DEF EmptyAgain, At, Good
<1>3. CASE FallbackFails(t)
  <2>0. c.at = "fallback" /\ turns[t].at \in Inside /\ c.held = 0
    BY <1>a, <1>3 DEF FallbackFails, At, Inside, Good
  <2>1. CASE turns[t].tier < MaxTiers
    <3>1. turns[t].tier + 1 \in 0 .. MaxTiers
      BY <1>a, <2>1, BoundsAssumption DEF TurnRecord
    <3> QED  BY <1>a, <1>3, <2>0, <2>1, <3>1, AskStep DEF FallbackFails
  <2>2. CASE ~(turns[t].tier < MaxTiers) /\ IsText(t)
    <3>1. Ends(t, c, "error") /\ UNCHANGED control  BY <1>a, <1>3, <2>2 DEF FallbackFails
    <3>2. Last(c, life)  BY <2>0 DEF Last, Good, TurnRecord
    <3> QED  BY <1>a, <2>0, <3>1, <3>2, EndOK
  <2>3. CASE ~(turns[t].tier < MaxTiers) /\ ~IsText(t)
    <3> DEFINE r == [c EXCEPT !.at = "commit", !.tier = 0]
    <3>1. Change(t, r) /\ keys' = keys /\ UNCHANGED control
      BY <1>a, <1>3, <2>3 DEF FallbackFails
    <3>2. r \in TurnRecord
      <4>1. 0 \in 0 .. MaxTiers  BY BoundsAssumption
      <4> QED  BY <4>1 DEF TurnRecord
    <3>3. r.at = "commit" /\ r.kind = c.kind /\ r.key = c.key /\ r.life = c.life
      BY DEF TurnRecord
    <3>4. Good(r, life)  BY <2>0 DEF TurnRecord, Good
    <3> HIDE DEF r
    <3> QED  BY <1>a, <2>0, <3>1, <3>2, <3>3, <3>4, GoesOn
  <2> QED  BY <2>1, <2>2, <2>3
<1> QED  BY <1>1, <1>2, <1>3

\* The ways a turn ends.
LEMMA EndingSteps ==
    ASSUME IInv, NEW t \in Turns,
           \/ Stopped(t) \/ EndsEmpty(t) \/ OverBudget(t) \/ BreaksOff(t) \/ PartialEnds(t)
           \/ StoppedLate(t) \/ CommitFails(t) \/ Rescued(t) \/ Done(t) \/ Abandoned(t)
    PROVE  IInv'
<1>a. PICK c : c = turns[t]  OBVIOUS
<1>b. /\ c \in TurnRecord /\ Good(c, life) /\ life \in Nat /\ life \in 1 .. MaxLives
      /\ flag \in BOOLEAN
  BY <1>a, AboutTurn, BoundsAssumption
<1> USE <1>b
<1>0. ASSUME NEW b \in BOOLEAN, c.at \in {"stream", "retry"} \/ (c.at = "partial" /\ b)
      PROVE  LET rec == Left([c EXCEPT !.unsure = b])
             IN  rec \in TurnRecord /\ rec.key = c.key /\ rec.kind = c.kind /\ Last(rec, life)
  <2> DEFINE d == [c EXCEPT !.unsure = b]
             p == Collected(d) > 0
             rec == [d EXCEPT !.pending = p]
  <2>1. p \in BOOLEAN  OBVIOUS
  <2> HIDE DEF p
  <2>2. /\ rec \in TurnRecord /\ rec.key = c.key /\ rec.kind = c.kind /\ rec.life = c.life
        /\ rec.saved = c.saved /\ rec.unsure = b
    BY <2>1 DEF TurnRecord
  <2>3. c.key \in Keys /\ c.life = life /\ (c.saved = 0 \/ (c.saved = 1 /\ b))
    BY <1>0 DEF Good, TurnRecord
  <2>4. Left(d) = rec  BY DEF Left, p
  <2> HIDE DEF d, rec
  <2>5. Last(rec, life)  BY <2>2, <2>3 DEF Last
  <2> QED  BY <2>2, <2>4, <2>5 DEF d
<1>c. c.at \in Inside => Last(c, life)  BY DEF Last, TurnRecord, Good, Inside
<1>d. {"stream", "retry", "empty", "fallback", "partial", "verify", "commit", "again", "tail"}
        \subseteq Inside
  BY DEF Inside
<1>e. c.at \in {"stream", "retry"} => [c EXCEPT !.unsure = FALSE] = c
  BY DEF TurnRecord, Good
<1>2. CASE Stopped(t)
  <2>1. CASE c.at = "stream"
    <3>1. Ends(t, Left(c), "nothing") /\ UNCHANGED control
      BY <1>a, <1>2, <2>1 DEF Stopped, At
    <3> DEFINE l == Left(c)
    <3>2. l \in TurnRecord /\ l.key = c.key /\ l.kind = c.kind /\ Last(l, life)
      BY <1>0, <1>e, <2>1
    <3> HIDE DEF l
    <3> QED  BY <1>a, <1>d, <2>1, <3>1, <3>2, EndOK DEF l
  <2>2. CASE c.at = "empty"
    BY <1>a, <1>c, <1>d, <1>2, <2>2, EndOK DEF Stopped, At
  <2> QED  BY <1>a, <1>2, <2>1, <2>2 DEF Stopped, At
<1>3. CASE EndsEmpty(t) \/ OverBudget(t) \/ PartialEnds(t) \/ StoppedLate(t)
  BY <1>a, <1>c, <1>d, <1>3, EndOK DEF EndsEmpty, OverBudget, PartialEnds, StoppedLate, At
<1>4. CASE BreaksOff(t)
  <2>1. /\ c.at \in {"stream", "retry"} /\ c.kind = "upload" /\ UNCHANGED control
        /\ turns[t].at \in Inside
    BY <1>a, <1>d, <1>4 DEF BreaksOff, At, IsText, TurnRecord, Good
  <2> DEFINE r == [c EXCEPT !.at = "partial"]
  <2>2. CASE Change(t, r) /\ keys' = keys
    <3>1. /\ r \in TurnRecord /\ r.at = "partial" /\ r.kind = c.kind /\ r.key = c.key
          /\ r.life = c.life
      BY DEF TurnRecord
    <3>2. Good(r, life)  BY <2>1 DEF TurnRecord, Good
    <3> HIDE DEF r
    <3> QED  BY <1>a, <2>1, <2>2, <3>1, <3>2, GoesOn
  <2>3. CASE Ends(t, c, "error")
    <3>1. Last(c, life)  BY <1>a, <1>c, <2>1
    <3> QED  BY <1>a, <2>1, <2>3, <3>1, EndOK
  <2> QED  BY <1>a, <1>4, <2>2, <2>3 DEF BreaksOff
<1>5. CASE CommitFails(t)  BY <1>5, CommitFailsStep
<1>6. CASE Rescued(t)
  <2>0. /\ c.at = "again" /\ UNCHANGED control /\ turns[t].at \in Inside
        /\ c.saved = 0 \/ (c.saved = 1 /\ c.unsure)
    BY <1>a, <1>d, <1>6 DEF Rescued, At, Good
  <2>1. PICK n \in {0, 1}, frame \in {"done", "error"} :
           Ends(t, [c EXCEPT !.saved = @ + n], frame) /\ (frame = "done" => n = 1)
    BY <1>a, <1>6 DEF Rescued
  <2> DEFINE rec == [c EXCEPT !.saved = @ + n]
  <2>2. rec \in TurnRecord /\ rec.saved = c.saved + n /\ rec.key = c.key /\ rec.kind = c.kind
    <3>1. c.saved + n \in 0 .. 2  BY <2>0
    <3> QED  BY <3>1 DEF TurnRecord
  <2>3. Last(rec, life) /\ rec.asked  BY <2>0 DEF Last, TurnRecord, Good
  <2>4. Ends(t, rec, frame)  BY <2>1
  <2>5. frame = "done" => rec.saved > 0  BY <2>0, <2>1, <2>2
  <2> HIDE DEF rec
  <2> QED  BY <1>a, <2>0, <2>2, <2>3, <2>4, <2>5, EndOK
<1>7. CASE Done(t)
  <2>1. /\ c.at = "tail" /\ c.saved > 0 /\ c.asked /\ UNCHANGED control
        /\ turns[t].at \in Inside
    BY <1>a, <1>d, <1>7 DEF Done, At, Good, TurnRecord
  <2>2. PICK frame \in {"error", "done"} : Ends(t, turns[t], frame)  BY <1>7 DEF Done
  <2> QED  BY <1>a, <1>c, <2>1, <2>2, EndOK
<1>8. CASE Abandoned(t)
  <2>1. UNCHANGED control /\ turns[t].at \in Inside  BY <1>a, <1>d, <1>8 DEF Abandoned
  <2>2. CASE Ends(t, turns[t], "nothing")  BY <1>a, <1>c, <2>1, <2>2, EndOK
  <2>3. CASE /\ c.at \in {"stream", "retry", "partial"}
             /\ Ends(t, Left([c EXCEPT !.unsure = At(t, "partial")]), "nothing")
    <3> DEFINE b == At(t, "partial")
               l == Left([c EXCEPT !.unsure = b])
    <3>1. b \in BOOLEAN /\ (c.at = "partial" => b)  BY <1>a DEF At
    <3> HIDE DEF b
    <3>2. l \in TurnRecord /\ l.key = c.key /\ l.kind = c.kind /\ Last(l, life)
      BY <1>0, <2>3, <3>1
    <3>3. Ends(t, l, "nothing")  BY <2>3 DEF b
    <3> HIDE DEF l
    <3> QED  BY <1>a, <2>1, <3>2, <3>3, EndOK
  <2> QED  BY <1>a, <1>8, <2>2, <2>3 DEF Abandoned, At
<1> QED  BY <1>2, <1>3, <1>4, <1>5, <1>6, <1>7, <1>8

\* Stop, its expiry, and a restart.
LEMMA StopSteps == ASSUME IInv, Stop \/ StopExpires PROVE IInv'
<1>1. CASE Stop
  <2> DEFINE S(c) == [c EXCEPT !.cancelled = TRUE, !.stop = TRUE]
  <2>1. /\ keys' = keys /\ scope' = scope /\ life' = life /\ flag' \in BOOLEAN
        /\ turns' = [t \in Turns |-> IF t = scope /\ Answering(t) THEN S(turns[t])
                                     ELSE turns[t]]
    BY <1>1 DEF Stop
  <2>2. ASSUME NEW c \in TurnRecord
        PROVE  /\ S(c) \in TurnRecord /\ S(c).kind = c.kind /\ S(c).at = c.at
               /\ S(c).key = c.key /\ S(c).life = c.life /\ S(c).told = c.told
    BY DEF TurnRecord
  <2>3. ASSUME NEW c \in TurnRecord, Good(c, life), c.kind = "text", c.at # "unborn"
        PROVE  Good(S(c), life)
    BY <2>3 DEF TurnRecord, Good
  <2> HIDE DEF S
  <2>4. \A t \in Turns : /\ turns[t] \in TurnRecord /\ Good(turns[t], life)
                         /\ turns'[t] \in {turns[t], S(turns[t])}
                         /\ turns'[t] \in TurnRecord /\ turns'[t].kind = turns[t].kind
                         /\ turns'[t].at = turns[t].at /\ turns'[t].key = turns[t].key
                         /\ turns'[t].life = turns[t].life /\ turns'[t].told = turns[t].told
    BY <2>1, <2>2 DEF IInv, TypeOK
  <2>5. TypeOK'  BY <2>1, <2>4 DEF IInv, TypeOK
  <2>6. \A t \in Turns : Good(turns[t], life)'
    <3> SUFFICES ASSUME NEW t \in Turns PROVE Good(turns'[t], life)  BY <2>1 DEF Good
    <3>1. CASE t = scope
      <4>1. turns[t].kind = "text" /\ turns[t].at # "unborn"
        BY <3>1, NoneAssumption DEF IInv, ScopeIsText
      <4> QED  BY <2>3, <2>4, <4>1
    <3> QED  BY <2>1, <2>4, <3>1
  <2>7. OneOwner' /\ OwnedIsKept'
    BY <2>1, <2>4 DEF IInv, OneOwner, OwnedIsKept, Owned
  <2>8. ScopeIsText'  BY <2>1, <2>4 DEF IInv, ScopeIsText
  <2> QED  BY <2>5, <2>6, <2>7, <2>8 DEF IInv
<1>2. CASE StopExpires
  BY <1>2 DEF StopExpires, IInv, TypeOK, OneOwner, OwnedIsKept, ScopeIsText
<1> QED  BY <1>1, <1>2

LEMMA RestartStep == ASSUME IInv, Restart PROVE IInv'
<1> DEFINE S(c) == [EndedWith(c, c.told) EXCEPT !.pending = FALSE]
<1>1. /\ keys' = [k \in Keys |-> "free"] /\ scope' = None /\ life' = life + 1 /\ flag' = FALSE
      /\ life' \in 1 .. MaxLives /\ life \in Nat
      /\ turns' = [t \in Turns |-> IF turns[t].at = "unborn" THEN turns[t] ELSE S(turns[t])]
  BY BoundsAssumption DEF Restart, At, IInv, TypeOK
<1>2. ASSUME NEW c \in TurnRecord
      PROVE  /\ S(c) \in TurnRecord /\ S(c).kind = c.kind /\ S(c).at = "over"
             /\ S(c).key = c.key /\ S(c).life = c.life /\ S(c).told = c.told
  <2> DEFINE e == EndedWith(c, c.told)
  <2>1. c.told \in {"nothing", "duplicate", "error", "done"}  BY DEF TurnRecord
  <2>2. /\ e \in TurnRecord /\ e.kind = c.kind /\ e.at = "over" /\ e.key = c.key
        /\ e.life = c.life /\ e.told = c.told
    BY <2>1, Ended
  <2> HIDE DEF e
  <2> DEFINE d == [e EXCEPT !.pending = FALSE]
  <2>3. d \in TurnRecord  BY <2>2 DEF TurnRecord
  <2>4. /\ d.kind = e.kind /\ d.at = e.at /\ d.key = e.key /\ d.life = e.life
        /\ d.told = e.told
    BY <2>2 DEF TurnRecord
  <2>5. S(c) = d  BY DEF e
  <2> HIDE DEF d, S
  <2> QED  BY <2>2, <2>3, <2>4, <2>5
<1>3. ASSUME NEW c \in TurnRecord, Good(c, life), c.at # "unborn" PROVE Good(S(c), life')
  <2> DEFINE r == S(c)
  <2>1. /\ r.kind = c.kind /\ r.at = "over" /\ r.key = c.key /\ r.life = c.life
        /\ r.told = c.told /\ r.saved = c.saved /\ r.unsure = c.unsure /\ r.asked = c.asked
        /\ ~r.stop /\ ~r.pending
    BY DEF TurnRecord, EndedWith
  <2>2. /\ c.key \in Keys /\ c.life <= life' /\ (c.saved <= 1 \/ c.unsure)
    BY <1>1, <1>3 DEF Good, TurnRecord
  <2>a. MaxShown \in Nat /\ r.shown = 0 /\ r.held = 0
    BY BoundsAssumption DEF TurnRecord, EndedWith
  <2>3. c.told = "done" => c.saved > 0 /\ c.asked  BY <1>3 DEF Good
  <2>4. c.kind = "text" /\ c.told = "duplicate" => ~c.asked  BY <1>3 DEF Good
  <2> HIDE DEF r
  <2>5. Good(r, life')  BY <2>1, <2>2, <2>a, <2>3, <2>4 DEF Good
  <2> QED  BY <2>5 DEF r
<1>4. ASSUME NEW c \in TurnRecord, Good(c, life), c.at = "unborn" PROVE Good(c, life')
  BY <1>4 DEF Good
<1> HIDE DEF S
<1>5. \A t \in Turns : /\ turns[t] \in TurnRecord /\ Good(turns[t], life)
                       /\ turns'[t] = IF turns[t].at = "unborn" THEN turns[t] ELSE S(turns[t])
  BY <1>1 DEF IInv, TypeOK
<1>6. \A t \in Turns : /\ turns'[t] \in TurnRecord /\ Good(turns'[t], life')
                       /\ turns'[t].kind = turns[t].kind
                       /\ turns'[t].key = turns[t].key /\ turns'[t].life = turns[t].life
                       /\ turns'[t].told = turns[t].told
                       /\ turns'[t].at \in {"unborn", "over"}
                       /\ (turns'[t].at = "unborn" <=> turns[t].at = "unborn")
  BY <1>2, <1>3, <1>4, <1>5
<1>7. TypeOK'  BY <1>1, <1>6 DEF IInv, TypeOK
<1>8. \A t \in Turns : Good(turns[t], life)'
  <2> SUFFICES ASSUME NEW t \in Turns PROVE Good(turns'[t], life')  BY DEF Good
  <2> QED  BY <1>6
<1>9. OneOwner'
  <2>1. \A t \in Turns : Owned(turns'[t]) => Owned(turns[t])  BY <1>6 DEF Owned
  <2> SUFFICES ASSUME NEW t \in Turns, NEW u \in Turns, t # u, Owned(turns'[t]),
                      Owned(turns'[u]), turns'[t].life = turns'[u].life
               PROVE  turns'[t].key # turns'[u].key
    BY DEF OneOwner, Owned
  <2> QED  BY <1>6, <2>1 DEF IInv, OneOwner
<1>10. OwnedIsKept'
  <2> SUFFICES ASSUME NEW t \in Turns, Owned(turns'[t]), turns'[t].life = life' PROVE FALSE
    BY DEF OwnedIsKept, Owned
  <2>1. turns[t].at # "unborn"  BY <1>5, <1>6, FreshOK DEF Owned, Good
  <2>2. turns[t].life <= life /\ turns[t].life \in Nat
    BY <2>1, <1>5, AboutTurn DEF Good
  <2> QED  BY <1>1, <1>6, <2>2
<1>11. ScopeIsText'  BY <1>1 DEF ScopeIsText
<1> QED  BY <1>7, <1>8, <1>9, <1>10, <1>11 DEF IInv

-----------------------------------------------------------------------------
(* What follows.                                                           *)

LEMMA Invariant == Spec => []IInv
<1>1. Init => IInv
  <2> SUFFICES ASSUME Init PROVE IInv  OBVIOUS
  <2>1. \A t \in Turns : turns[t] = Fresh  BY DEF Init
  <2>2. Good(Fresh, life)  BY FreshOK, BoundsAssumption DEF Good
  <2>3. ~Owned(Fresh)  BY FreshOK DEF Owned
  <2>4. TypeOK
    <3>1. turns \in [Turns -> TurnRecord]  BY FreshOK DEF Init
    <3>2. life \in 1 .. MaxLives  BY BoundsAssumption DEF Init
    <3> QED  BY <3>1, <3>2 DEF Init, TypeOK
  <2>5. OneOwner /\ OwnedIsKept /\ ScopeIsText
    BY <2>1, <2>3 DEF Init, OneOwner, OwnedIsKept, ScopeIsText
  <2> QED  BY <2>1, <2>2, <2>4, <2>5 DEF IInv
<1>2. IInv /\ [Next]_vars => IInv'
  <2> SUFFICES ASSUME IInv, [Next]_vars PROVE IInv'  OBVIOUS
  <2>1. CASE Next
    <3>1. ASSUME NEW t \in Turns, NEW k \in Keys, PostText(t, k) \/ PostUpload(t, k)
          PROVE  IInv'
      BY <3>1, PostTextStep, PostUploadStep
    <3>2. ASSUME NEW t \in Turns, Handler(t) \/ Fails(t) PROVE IInv'
      BY <3>2, HandlerSteps
    <3>3. ASSUME NEW t \in Turns,
                 Model(t) \/ SaveLeft(t) \/ PartialCommits(t) \/ Disconnect(t)
          PROVE  IInv'
      BY <3>3, StreamSteps, EndingSteps, EmptySteps DEF Model
    <3>4. ASSUME NEW t \in Turns, Ending(t) PROVE IInv'
      BY <3>4, StreamSteps, EndingSteps, EmptySteps DEF Ending
    <3>5. CASE Stop \/ StopExpires \/ Restart  BY <3>5, StopSteps, RestartStep
    <3> QED  BY <2>1, <3>1, <3>2, <3>3, <3>4, <3>5 DEF Next
  <2>2. CASE UNCHANGED vars
    BY <2>2 DEF vars, IInv, TypeOK, OneOwner, OwnedIsKept, ScopeIsText
  <2> QED  BY <2>1, <2>2
<1> QED  BY <1>1, <1>2, PTL DEF Spec

\* However requests, stops, failures and restarts interleave, the state is
\* well-typed: above all, nothing is saved more than twice.
THEOREM ChatTypes == Spec => []TypeOK
BY Invariant, PTL DEF IInv

\* A composed message is answered by one turn (idempotency.py:1-7).
THEOREM KeysAnsweredOnce == Spec => []OneAnswerPerKey
<1>1. IInv => OneAnswerPerKey
  <2> SUFFICES ASSUME IInv, NEW t \in Turns, NEW u \in Turns, t # u,
                      turns[t].key = turns[u].key, turns[t].life = turns[u].life
               PROVE  /\ Answering(t) => ~Answering(u) /\ turns[u].told # "done"
                      /\ IsText(t) /\ IsText(u) => ~(turns[t].asked /\ turns[u].asked)
    BY DEF OneAnswerPerKey
  <2>1. ~(Owned(turns[t]) /\ Owned(turns[u]))  BY DEF IInv, OneOwner
  <2>2. ASSUME NEW v \in Turns, Answering(v) PROVE Owned(turns[v])
    BY <2>2 DEF Answering, Owned, IInv, Good
  <2>3. ASSUME NEW v \in Turns, turns[v].told = "done" PROVE Owned(turns[v])
    BY <2>3, FreshOK DEF Owned, IInv, Good
  <2>4. ASSUME NEW v \in Turns, IsText(v), turns[v].asked PROVE Owned(turns[v])
    BY <2>4, FreshOK DEF Owned, IsText, IInv, Good
  <2> QED  BY <2>1, <2>2, <2>3, <2>4
<1> QED  BY <1>1, Invariant, PTL

\* An answer is saved once, unless the turn did not see the first save end: a
\* commit that failed after the fact (routes_agents.py:3171-3204), or a client that
\* left while a broken-off upload was being saved (routes_attachments.py:1558-1559).
THEOREM AnswersSavedOnce == Spec => []SavedOnce
<1>1. IInv => SavedOnce  BY DEF IInv, Good, SavedOnce
<1> QED  BY <1>1, Invariant, PTL

\* A done frame is only sent for a question and an answer that are saved.
THEOREM DoneMeansSaved == Spec => []DoneIsSaved
<1>1. IInv => DoneIsSaved  BY DEF IInv, Good, DoneIsSaved
<1> QED  BY <1>1, Invariant, PTL

\* What a text turn that was told to stop has at hand only dwindles, whatever the
\* next turn does to the flag (cancel_scope.py:3-17, routes_agents.py:948-961).
LEMMA StoppedTakesNoMore ==
    ASSUME IInv, Next, NEW t \in Turns, turns[t].stop
    PROVE  AtHand(turns'[t]) <= AtHand(turns[t])
<1>a. PICK c : c = turns[t]  OBVIOUS
<1>b. /\ c \in TurnRecord /\ Good(c, life) /\ c.stop /\ c.kind = "text" /\ c.cancelled
      /\ c.at \notin {"retry", "empty", "partial"} /\ turns \in [Turns -> TurnRecord]
  BY <1>a, AboutTurn DEF Good, IInv, TypeOK
<1>c. /\ c.at # "unborn" /\ IsText(t) /\ IsStopped(t)
      /\ c.shown \in Nat /\ c.held \in Nat
  BY <1>a, <1>b, FreshOK, BoundsAssumption DEF Good, IsText, IsStopped, TurnRecord
<1> USE <1>b
<1> SUFFICES AtHand(turns'[t]) <= AtHand(c)  BY <1>a
<1>2. ASSUME NEW r, Change(t, r), r.shown \in Nat, r.held \in Nat,
             \/ r.at = c.at /\ r.shown + r.held <= c.shown + c.held
             \/ r.at \notin {"fallback", "verify"} /\ r.shown + r.held <= c.shown + c.held
             \/ /\ c.at \in {"fallback", "verify"} /\ r.at \notin {"fallback", "verify"}
                /\ r.shown + r.held <= c.shown + c.held + 1
      PROVE  AtHand(turns'[t]) <= AtHand(c)
  <2>1. turns'[t] = r  BY <1>2 DEF Change
  <2>2. AtHand(r) <= AtHand(c)  BY <1>2, <1>c DEF AtHand, Collected
  <2> QED  BY <2>1, <2>2
<1>3. ASSUME NEW rec \in TurnRecord, NEW frame, Ends(t, rec, frame)
      PROVE  AtHand(turns'[t]) <= AtHand(c)
  <2> DEFINE r == EndedWith(rec, frame)
  <2>1. r.shown = 0 /\ r.held = 0 /\ r.at = "over"  BY DEF EndedWith, TurnRecord
  <2>2. Change(t, r)  BY <1>3 DEF Ends
  <2> HIDE DEF r
  <2> QED  BY <1>2, <1>c, <2>1, <2>2
<1>4. ASSUME NEW rec \in TurnRecord, rec.at = c.at, rec.shown + rec.held <= AtHand(c), Onward(t, rec)
      PROVE  AtHand(turns'[t]) <= AtHand(c)
  <2> DEFINE r == [rec EXCEPT !.at = "commit"]
  <2>1. Change(t, r)  BY <1>4, <1>c DEF Onward
  <2>2. /\ r.at = "commit" /\ r.shown = rec.shown /\ r.held = rec.held
        /\ r.shown \in Nat /\ r.held \in Nat
    BY BoundsAssumption DEF TurnRecord
  <2> HIDE DEF r
  <2> QED  BY <1>2, <1>4, <1>c, <2>1, <2>2 DEF AtHand, Collected
<1>5. ASSUME NEW u \in Turns, u # t,
             \/ \E k \in Keys : PostText(u, k) \/ PostUpload(u, k)
             \/ Handler(u) \/ Fails(u) \/ Model(u) \/ SaveLeft(u) \/ PartialCommits(u)
             \/ Ending(u) \/ Disconnect(u)
      PROVE  turns'[t] = turns[t]
  <2>1. CASE \/ \E k \in Keys : PostText(u, k) \/ PostUpload(u, k)
             \/ Handler(u) \/ Fails(u) \/ SaveLeft(u) \/ PartialCommits(u) \/ Disconnect(u)
    <3>1. \E r : turns' = [turns EXCEPT ![u] = r]
      BY <2>1, ZenonT(30) DEF PostText, PostUpload, Handler, Begin, Write, Claim, Start,
         NeverStarts, Fails, SaveLeft, PartialCommits, Disconnect, Change
    <3> QED  BY <1>5, <3>1, SMTT(30)
  <2>2. CASE Model(u)
    <3>1. \E r : turns' = [turns EXCEPT ![u] = r]
      BY <2>2 DEF Model, Token, RetryToken, EndsEmpty, StreamEnds, Retried, EmptyStream,
         FallbackAnswers, Onward, Ask, Change, Ends
    <3> QED  BY <1>5, <3>1, SMTT(30)
  <2>3. CASE Ending(u)
    <3>1. \E r : turns' = [turns EXCEPT ![u] = r]
      BY <2>3 DEF Ending, Stopped, OverBudget, StartOver, BreaksOff, PartialEnds, EmptyAgain,
         FallbackFails, Ask, StoppedLate, Verified, Committed, CommitFails, Rescued, Done,
         Abandoned, Change, Ends
    <3> QED  BY <1>5, <3>1, SMTT(30)
  <2> QED  BY <1>5, <2>1, <2>2, <2>3
<1>d. turns'[t] = turns[t] => AtHand(turns'[t]) <= AtHand(c)
  <2>1. AtHand(c) \in Int  BY <1>c DEF AtHand, Collected
  <2> QED  BY <1>a, <2>1
<1>6. CASE \E k \in Keys : PostText(t, k) \/ PostUpload(t, k)
  BY <1>a, <1>c, <1>6 DEF PostText, PostUpload, At
<1>7. CASE Handler(t) \/ Fails(t)
  <2>1. ASSUME NEW r \in {[c EXCEPT !.at = "ready", !.asked = TRUE], [c EXCEPT !.at = "stream"]}
        PROVE  r.at \in {"ready", "stream"} /\ r.shown = c.shown /\ r.held = c.held
    BY ZenonT(30) DEF TurnRecord
  <2>2. ASSUME NEW r \in {[c EXCEPT !.at = "ready", !.asked = TRUE], [c EXCEPT !.at = "stream"]},
               Change(t, r)
        PROVE  AtHand(turns'[t]) <= AtHand(c)
    <3>1. r.at \in {"ready", "stream"} /\ r.shown = c.shown /\ r.held = c.held  BY <2>1
    <3> QED  BY <1>2, <1>c, <2>2, <3>1
  <2>3. CASE Begin(t)
    <3>1. Change(t, [c EXCEPT !.at = "ready", !.asked = TRUE])
      BY <1>a, <2>3 DEF Begin, Change
    <3> QED  BY <2>2, <3>1
  <2>4. CASE Write(t) \/ Claim(t)  BY <1>a, <2>4 DEF Write, Claim, IsText
  <2>5. CASE Start(t)  BY <1>a, <2>2, <2>5 DEF Start
  <2>6. CASE NeverStarts(t) \/ Fails(t)
    <3>1. PICK frame : Change(t, EndedWith(c, frame))
      BY <1>a, <2>6 DEF NeverStarts, Fails
    <3>2. EndedWith(c, frame).at = "over" /\ EndedWith(c, frame).shown = 0 /\ EndedWith(c, frame).held = 0
      BY DEF EndedWith, TurnRecord
    <3> QED  BY <1>2, <1>c, <3>1, <3>2
  <2> QED  BY <1>7, <2>3, <2>4, <2>5, <2>6 DEF Handler
<1>8. CASE Token(t) \/ RetryToken(t) \/ Retried(t) \/ StartOver(t) \/ PartialCommits(t)
           \/ PartialEnds(t) \/ EmptyAgain(t) \/ BreaksOff(t)
  BY <1>a, <1>c, <1>8 DEF Token, RetryToken, Retried, StartOver, PartialCommits, PartialEnds,
     EmptyAgain, BreaksOff, At
<1>9. CASE SaveLeft(t)
  <2>1. PICK n \in {0, 1} : Change(t, [c EXCEPT !.pending = FALSE, !.saved = @ + n])
    BY <1>a, <1>9 DEF SaveLeft
  <2> DEFINE r == [c EXCEPT !.pending = FALSE, !.saved = @ + n]
  <2>2. r.shown = c.shown /\ r.held = c.held /\ r.at = c.at  BY DEF TurnRecord
  <2>3. Change(t, r)  BY <2>1
  <2> HIDE DEF r
  <2> QED  BY <1>2, <1>c, <2>2, <2>3
<1>10. CASE StreamEnds(t)
  <2> DEFINE r == [c EXCEPT !.shown = c.shown + c.held, !.held = 0]
  <2>1. c.at = "stream" /\ Onward(t, r)
    BY <1>a, <1>10 DEF StreamEnds, Flushed, Collected, At
  <2>2. r.shown = c.shown + c.held /\ r.held = 0 /\ r.at = c.at  BY DEF TurnRecord
  <2>3. PICK place \in {"commit"} : Change(t, [r EXCEPT !.at = place])
    BY <1>c, <2>1 DEF Onward
  <2> DEFINE q == [r EXCEPT !.at = place]
  <2>4. q.shown = c.shown + c.held /\ q.held = 0 /\ q.at = "commit"  BY DEF TurnRecord
  <2>5. Change(t, q)  BY <2>3
  <2> HIDE DEF q
  <2> QED  BY <1>2, <1>c, <2>4, <2>5
<1>11. CASE FallbackAnswers(t)
  <2> DEFINE r == [c EXCEPT !.shown = 1, !.tier = 0]
  <2>1. c.at = "fallback" /\ Onward(t, r)  BY <1>a, <1>11 DEF FallbackAnswers, At
  <2>2. 1 \in 0 .. MaxShown /\ 0 \in 0 .. MaxTiers  BY BoundsAssumption
  <2>3. r \in TurnRecord /\ r.shown = 1 /\ r.held = c.held /\ r.at = c.at
    BY <2>2 DEF TurnRecord
  <2>4. r.shown + r.held <= AtHand(c)  BY <1>c, <2>1, <2>3 DEF AtHand, Collected
  <2> HIDE DEF r
  <2> QED  BY <1>4, <2>1, <2>3, <2>4
<1>12. ASSUME NEW tier, Ask(t, tier) PROVE AtHand(turns'[t]) <= AtHand(c)
  BY <1>a, <1>c, <1>3, <1>12 DEF Ask
<1>13. CASE EmptyStream(t)  BY <1>c, <1>12, <1>13 DEF EmptyStream
<1>14. CASE FallbackFails(t)  BY <1>a, <1>c, <1>3, <1>12, <1>14 DEF FallbackFails
<1>15. CASE Verified(t)
  <2>1. PICK n \in {0, 1} : Change(t, [c EXCEPT !.at = "commit", !.shown = @ + n])
    BY <1>a, <1>15 DEF Verified
  <2> DEFINE r == [c EXCEPT !.at = "commit", !.shown = @ + n]
  <2>2. c.at = "verify"  BY <1>a, <1>15 DEF Verified, At
  <2>3. r.shown = c.shown + n /\ r.held = c.held /\ r.at = "commit"  BY DEF TurnRecord
  <2>4. Change(t, r)  BY <2>1
  <2> HIDE DEF r
  <2> QED  BY <1>2, <1>c, <2>2, <2>3, <2>4
<1>16. CASE Committed(t) \/ Disconnect(t)
  <2>1. ASSUME NEW r \in {[c EXCEPT !.at = "tail", !.saved = @ + 1], [c EXCEPT !.gone = TRUE]}
        PROVE  r.shown = c.shown /\ r.held = c.held /\ (r.at = "tail" \/ r.at = c.at)
    BY ZenonT(30) DEF TurnRecord
  <2>2. PICK r \in {[c EXCEPT !.at = "tail", !.saved = @ + 1], [c EXCEPT !.gone = TRUE]} :
           Change(t, r)
    BY <1>a, <1>16 DEF Committed, Disconnect
  <2>3. r.shown = c.shown /\ r.held = c.held /\ (r.at = "tail" \/ r.at = c.at)  BY <2>1
  <2> QED  BY <1>2, <1>c, <2>2, <2>3
<1>17. CASE \/ Stopped(t) \/ EndsEmpty(t) \/ OverBudget(t) \/ StoppedLate(t) \/ Done(t)
            \/ Abandoned(t)
  <2>1. ASSUME NEW d \in {c, [c EXCEPT !.unsure = At(t, "partial")]} PROVE Left(d) \in TurnRecord
    <3>1. d \in TurnRecord
      <4>1. At(t, "partial") \in BOOLEAN  BY DEF At
      <4> QED  BY <4>1 DEF TurnRecord
    <3>2. (Collected(d) > 0) \in BOOLEAN  OBVIOUS
    <3> QED  BY <3>1, <3>2 DEF Left, TurnRecord
  <2>2. CASE Stopped(t)  BY <1>a, <1>3, <2>1, <2>2 DEF Stopped
  <2>3. CASE EndsEmpty(t) \/ OverBudget(t) \/ StoppedLate(t) \/ Done(t)
    BY <1>a, <1>3, <2>3 DEF EndsEmpty, OverBudget, StoppedLate, Done
  <2>4. CASE Abandoned(t)  BY <1>a, <1>3, <2>1, <2>4 DEF Abandoned
  <2> QED  BY <1>17, <2>2, <2>3, <2>4
<1>18. CASE CommitFails(t)
  <2>0. c.saved = 0  BY <1>a, <1>18 DEF CommitFails, At, Good
  <2>1. PICK lost \in BOOLEAN :
          LET rec == [turns[t] EXCEPT !.saved = IF lost THEN @ ELSE @ + 1, !.unsure = ~lost]
          IN  IF IsText(t)
              THEN Change(t, [rec EXCEPT !.at = "again"]) /\ UNCHANGED keys
              ELSE Ends(t, rec, "nothing")
    BY <1>18 DEF CommitFails
  <2> DEFINE rec == [c EXCEPT !.saved = IF lost THEN @ ELSE @ + 1, !.unsure = ~lost]
             r == [rec EXCEPT !.at = "again"]
  <2>2. Change(t, r)  BY <1>a, <1>c, <2>1
  <2>3. r.shown = c.shown /\ r.held = c.held /\ r.at = "again"  BY DEF TurnRecord
  <2> HIDE DEF r
  <2> QED  BY <1>2, <1>c, <2>2, <2>3
<1>19. CASE Rescued(t)
  <2>1. PICK n \in {0, 1}, frame \in {"done", "error"} : Ends(t, [c EXCEPT !.saved = @ + n], frame)
    BY <1>a, <1>19 DEF Rescued
  <2> DEFINE rec == [c EXCEPT !.saved = @ + n]
  <2>2. rec \in TurnRecord
    <3>1. c.at = "again"  BY <1>a, <1>19 DEF Rescued, At
    <3>2. c.saved + n \in 0 .. 2  BY <3>1 DEF Good
    <3> QED  BY <3>2 DEF TurnRecord
  <2> HIDE DEF rec
  <2> QED  BY <1>3, <2>1, <2>2 DEF rec
<1>20. CASE Stop
  <2> DEFINE r == [c EXCEPT !.cancelled = TRUE, !.stop = TRUE]
  <2>1. r.shown = c.shown /\ r.held = c.held /\ r.at = c.at  BY DEF TurnRecord
  <2>2. turns'[t] \in {c, r}  BY <1>a, <1>20 DEF Stop
  <2> HIDE DEF r
  <2> QED  BY <1>a, <1>c, <1>d, <2>1, <2>2 DEF AtHand, Collected
<1>21. CASE StopExpires  BY <1>d, <1>21 DEF StopExpires
<1>22. CASE Restart
  <2> DEFINE r == [EndedWith(c, c.told) EXCEPT !.pending = FALSE]
  <2>1. r.shown = 0 /\ r.held = 0 /\ r.at = "over"  BY DEF EndedWith, TurnRecord
  <2>2. turns'[t] = r  BY <1>a, <1>c, <1>22 DEF Restart, At
  <2> HIDE DEF r
  <2> QED  BY <1>c, <2>1, <2>2 DEF AtHand, Collected
<1>23. CASE \E u \in Turns : u # t /\
              (\/ \E k \in Keys : PostText(u, k) \/ PostUpload(u, k)
               \/ Handler(u) \/ Fails(u) \/ Model(u) \/ SaveLeft(u) \/ PartialCommits(u)
               \/ Ending(u) \/ Disconnect(u))
  BY <1>5, <1>23, <1>d
<1> QED
  <2>1. CASE \/ \E k \in Keys : PostText(t, k) \/ PostUpload(t, k)
             \/ Handler(t) \/ Fails(t) \/ Model(t) \/ SaveLeft(t) \/ PartialCommits(t)
             \/ Ending(t) \/ Disconnect(t)
    BY <1>a, <2>1, <1>6, <1>7, <1>8, <1>9, <1>10, <1>11, <1>13, <1>14, <1>15, <1>16, <1>17, <1>18,
       <1>19 DEF Model, Ending
  <2> QED  BY <1>a, <1>20, <1>21, <1>22, <1>23, <2>1 DEF Next

THEOREM StoppedStaysSilent == Spec => StopHolds
<1>1. IInv /\ [Next]_vars
        => [\A t \in Turns : turns[t].stop => AtHand(turns'[t]) <= AtHand(turns[t])]_turns
  BY StoppedTakesNoMore DEF vars
<1> QED  BY <1>1, Invariant, PTL DEF Spec, StopHolds
=============================================================================
