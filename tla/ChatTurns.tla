------------------------------ MODULE ChatTurns ------------------------------
(***************************************************************************)
(* The turns of one chat conversation, from the POST to the row in the     *)
(* database: a text turn (agents_stream, app/api/routes_agents.py) or one  *)
(* with files (chat_upload_stream, app/api/routes_attachments.py), the     *)
(* idempotency keys of composed messages (app/api/idempotency.py), Stop    *)
(* (app/api/cancel_scope.py and the flag of app/api/replay.py), a client   *)
(* that taps twice, retries, disconnects and sends the next message while  *)
(* the last is still answered, a database that fails, and a restart.       *)
(*                                                                         *)
(* One event loop: an action is the code between two awaits or yields.     *)
(* What is said is left out: an answer is how many pieces of it were       *)
(* shown.  Keys are followed within their ten minutes.                     *)
(***************************************************************************)
EXTENDS Integers, FiniteSets

CONSTANTS
    Turns,          \* bound: requests of the conversation
    Keys,           \* idempotency keys
    Kinds,          \* kinds of turn: "text", "upload"
    MaxShown,       \* bound: pieces of an answer
    MaxTiers,       \* tiers of models an empty answer falls back on (3 in the code)
    MaxLives,       \* bound: 1 + restarts of the server
    None

ASSUME KindsAssumption == Kinds \subseteq {"text", "upload"}
ASSUME BoundsAssumption == {MaxShown, MaxTiers, MaxLives} \subseteq Nat \ {0}
ASSUME NoneAssumption == None \notin Turns /\ None \notin Keys

VARIABLES
    turns,          \* turns[t]: the request, see TurnRecord
    keys,           \* idempotency._STORE: "free", "held" (in flight), "done"
    flag,           \* the Stop flag of the conversation (replay._cancels)
    scope,          \* the turn whose scope cancel_scope._SCOPES holds, or None
    life            \* which life of the server this is

vars == <<turns, keys, flag, scope, life>>
control == <<flag, scope, life>>

-----------------------------------------------------------------------------
(* at: "unborn", "prelude" (the handler), "ready" (the response is not     *)
(* started), "stream", "retry" and "empty" (an upload starts over, after an *)
(* early break or an empty stream), "fallback" (another tier is asked for  *)
(* the whole answer), "partial" (a broken-off upload is being saved),      *)
(* "verify", "commit", "again" (the rescue of a failed commit), "tail"     *)
(* (saved, done frame to come), "over".  held: pieces the coalescer keeps  *)
(* back for a larger frame; unsure: a save was begun whose end the turn    *)
(* did not see.                                                            *)

Fresh == [kind |-> "text", key |-> None, at |-> "unborn", life |-> 1, gone |-> FALSE,
          cancelled |-> FALSE, stop |-> FALSE, shown |-> 0, held |-> 0, tier |-> 0,
          asked |-> FALSE, saved |-> 0, unsure |-> FALSE, pending |-> FALSE, told |-> "nothing"]

At(t, place) == turns[t].at = place
IsText(t) == turns[t].kind = "text"
Over(t) == At(t, "unborn") \/ At(t, "over")
Answering(t) == turns[t].at \notin {"unborn", "prelude", "over"}

Change(t, rec) == turns' = [turns EXCEPT ![t] = rec]
EndedWith(rec, frame) ==
    [rec EXCEPT !.at = "over", !.told = frame, !.shown = 0, !.held = 0, !.tier = 0,
                !.gone = FALSE, !.cancelled = FALSE, !.stop = FALSE]

\* The end of a turn for its key: an upload's guard completes it once the done
\* frame was sent and releases it otherwise; a text turn leaves it as it is.
Freed(t, frame) ==
    IF IsText(t) THEN keys
    ELSE [keys EXCEPT ![turns[t].key] = IF frame = "done" THEN "done" ELSE "free"]
Ends(t, rec, frame) == Change(t, EndedWith(rec, frame)) /\ keys' = Freed(t, frame)

\* A text turn asks its own scope as well as the flag, an upload only the flag.
\* Mutant: only the flag, for both.
FlagOnly(t) == flag
IsStopped(t) == flag \/ (IsText(t) /\ turns[t].cancelled)

-----------------------------------------------------------------------------
(* The requests.                                                           *)

\* Mutant: keys are looked at when a message is through, not when it begins.
ClaimsDone(k) == keys[k] # "done"
Claims(k) == keys[k] = "free"

\* A text turn claims its key before it writes anything ...
PostText(t, k) ==
    /\ "text" \in Kinds /\ At(t, "unborn")
    /\ LET rec == [Fresh EXCEPT !.kind = "text", !.key = k, !.life = life]
       IN  IF Claims(k)
           THEN /\ Change(t, [rec EXCEPT !.at = "prelude"])
                /\ keys' = [keys EXCEPT ![k] = "held"]
           ELSE Change(t, EndedWith(rec, "duplicate")) /\ UNCHANGED keys
    /\ UNCHANGED control

\* ... then writes the question, and drops what an earlier Stop left behind.
Begin(t) ==
    /\ At(t, "prelude") /\ IsText(t)
    /\ turns' = [turns EXCEPT ![t].at = "ready", ![t].asked = TRUE]
    /\ flag' = FALSE /\ scope' = t
    /\ UNCHANGED <<keys, life>>

\* An upload writes the question first, reads its files, and claims the key
\* when the answer is to begin.
PostUpload(t, k) ==
    /\ "upload" \in Kinds /\ At(t, "unborn")
    /\ Change(t, [Fresh EXCEPT !.kind = "upload", !.key = k, !.life = life, !.at = "prelude"])
    /\ UNCHANGED <<keys, control>>
Write(t) ==
    /\ At(t, "prelude") /\ ~IsText(t) /\ ~turns[t].asked
    /\ Change(t, [turns[t] EXCEPT !.asked = TRUE])
    /\ UNCHANGED <<keys, control>>
Claim(t) ==
    /\ At(t, "prelude") /\ ~IsText(t) /\ turns[t].asked
    /\ IF Claims(turns[t].key)
       THEN /\ Change(t, [turns[t] EXCEPT !.at = "ready"])
            /\ keys' = [keys EXCEPT ![turns[t].key] = "held"]
       ELSE Change(t, EndedWith(turns[t], "duplicate")) /\ UNCHANGED keys
    /\ UNCHANGED control

\* The handler fails: an unknown conversation, a database error.
Fails(t) ==
    /\ At(t, "prelude")
    /\ Change(t, EndedWith(turns[t], "error"))
    /\ UNCHANGED <<keys, control>>

\* The response starts; an upload drops the flag only now.
Start(t) ==
    /\ At(t, "ready") /\ ~turns[t].gone
    /\ Change(t, [turns[t] EXCEPT !.at = "stream"])
    /\ flag' = (flag /\ IsText(t))
    /\ UNCHANGED <<keys, scope, life>>

\* The client went away before: the generator never runs, nor its guard.
NeverStarts(t) ==
    /\ At(t, "ready") /\ turns[t].gone
    /\ Change(t, EndedWith(turns[t], "nothing"))
    /\ UNCHANGED <<keys, control>>

-----------------------------------------------------------------------------
(* The stream.                                                             *)

Collected(rec) == rec.shown + rec.held
Flushed(rec) == [rec EXCEPT !.shown = Collected(rec), !.held = 0]
Shows(t) == Collected(turns[t]) < MaxShown /\ ~turns[t].gone

\* A piece is shown, with what was held back, or held back in its turn: frames
\* of a text turn may be larger than pieces (TokenCoalescer).
Token(t) ==
    /\ At(t, "stream") /\ ~IsStopped(t) /\ Shows(t)
    /\ LET rec == [turns[t] EXCEPT !.held = @ + 1]
       IN  Change(t, Flushed(rec)) \/ (IsText(t) /\ Change(t, rec))
    /\ UNCHANGED <<keys, control>>

\* The part that was collected is saved by a task of its own.
Left(rec) == [rec EXCEPT !.pending = Collected(rec) > 0]
SaveLeft(t) ==
    /\ turns[t].pending
    /\ \E n \in {0, 1} : Change(t, [turns[t] EXCEPT !.pending = FALSE, !.saved = @ + n])
    /\ UNCHANGED <<keys, control>>

\* Stop is seen: at a poll every 0.6 s, and before each piece is taken up.  What
\* an upload has of a second stream is not saved: its first is complete.
Stopped(t) ==
    /\ At(t, "stream") \/ At(t, "empty")
    /\ IsStopped(t)
    /\ Ends(t, IF At(t, "stream") THEN Left(turns[t]) ELSE turns[t], "nothing")
    /\ UNCHANGED control

\* Nothing was shown: a clarifying question, an error.
EndsEmpty(t) ==
    /\ At(t, "stream") /\ Collected(turns[t]) = 0
    /\ Ends(t, turns[t], "error")
    /\ UNCHANGED control

\* The answer is there.  Its code is verified, that of a text turn unless Stop
\* came, or there is none to verify.
Onward(t, rec) ==
    \/ (IsText(t) => ~IsStopped(t)) /\ Change(t, [rec EXCEPT !.at = "verify"])
    \/ Change(t, [rec EXCEPT !.at = "commit"])

\* The model's stream is through, or breaks off with something shown: what was
\* held back is shown, stopped or not.
StreamEnds(t) ==
    /\ At(t, "stream") /\ Collected(turns[t]) > 0
    /\ turns[t].held > 0 => ~turns[t].gone
    /\ Onward(t, Flushed(turns[t]))
    /\ UNCHANGED <<keys, control>>

\* A text turn has a budget of wall-clock time, looked at while its model is
\* silent.  Mutant: looked at when a piece has come.
OverBudgetAtPiece(t) ==
    /\ At(t, "stream") /\ IsText(t) /\ Collected(turns[t]) > 0
    /\ Ends(t, turns[t], "error")
    /\ UNCHANGED control
OverBudget(t) ==
    /\ At(t, "stream") /\ IsText(t)
    /\ Ends(t, turns[t], "error")
    /\ UNCHANGED control

\* An upload that broke off early takes back what it has shown, and tries
\* again, without a look at the flag; one that broke off late, or for good,
\* waits until what there is is saved (reasoning alone is not), and says so.
StartOver(t) ==
    /\ At(t, "stream") /\ ~IsText(t)
    /\ Change(t, [turns[t] EXCEPT !.at = "retry", !.shown = 0])
    /\ UNCHANGED <<keys, control>>
RetryToken(t) ==
    /\ At(t, "retry") \/ (At(t, "empty") /\ ~IsStopped(t))
    /\ Shows(t)
    /\ Change(t, [turns[t] EXCEPT !.shown = @ + 1])
    /\ UNCHANGED <<keys, control>>
Retried(t) ==
    /\ turns[t].at \in {"retry", "empty"} /\ turns[t].shown > 0
    /\ Onward(t, turns[t])
    /\ UNCHANGED <<keys, control>>
BreaksOff(t) ==
    /\ (At(t, "stream") /\ ~IsText(t)) \/ At(t, "retry")
    /\ \/ /\ turns[t].shown > 0
          /\ Change(t, [turns[t] EXCEPT !.at = "partial"]) /\ UNCHANGED keys
       \/ Ends(t, turns[t], "error")
    /\ UNCHANGED control
PartialCommits(t) ==
    /\ At(t, "partial") /\ turns[t].saved = 0
    /\ Change(t, [turns[t] EXCEPT !.saved = 1])
    /\ UNCHANGED <<keys, control>>
PartialEnds(t) ==
    /\ At(t, "partial")
    /\ Ends(t, turns[t], "error")
    /\ UNCHANGED control

-----------------------------------------------------------------------------
(* The stream was empty: the turn asks again for the whole answer.         *)

\* The next tier is asked, unless Stop came before: the only look at it.
Ask(t, tier) ==
    /\ IF IsStopped(t) THEN Ends(t, turns[t], "nothing")
       ELSE /\ Change(t, [turns[t] EXCEPT !.at = "fallback", !.shown = 0, !.tier = tier])
            /\ UNCHANGED keys
    /\ UNCHANGED control

\* An upload first streams it again.
EmptyStream(t) ==
    /\ turns[t].at \in {"stream", "retry"} /\ Collected(turns[t]) = 0
    /\ IF IsText(t) THEN Ask(t, 1)
       ELSE Change(t, [turns[t] EXCEPT !.at = "empty"]) /\ UNCHANGED <<keys, control>>
EmptyAgain(t) == At(t, "empty") /\ Ask(t, 1)

FallbackAnswers(t) ==
    /\ At(t, "fallback") /\ ~turns[t].gone
    /\ Onward(t, [turns[t] EXCEPT !.shown = 1, !.tier = 0])
    /\ UNCHANGED <<keys, control>>
\* When every tier failed a text turn says so in an error, an upload in the answer.
FallbackFails(t) ==
    /\ At(t, "fallback")
    /\ IF turns[t].tier < MaxTiers THEN Ask(t, turns[t].tier + 1)
       ELSE /\ IF IsText(t) THEN Ends(t, turns[t], "error")
               ELSE Change(t, [turns[t] EXCEPT !.at = "commit", !.tier = 0]) /\ UNCHANGED keys
            /\ UNCHANGED control

-----------------------------------------------------------------------------
(* The answer is there: checked, saved, and closed with the done frame.    *)

\* An upload polls the flag while its code is verified; what it has shown is
\* then not saved, for the stream is complete.
StoppedLate(t) ==
    /\ At(t, "verify") /\ ~IsText(t) /\ flag
    /\ Ends(t, turns[t], "nothing")
    /\ UNCHANGED control
\* The verdict of a text turn is shown if it is there when Stop is looked at.
Verified(t) ==
    /\ At(t, "verify")
    /\ \E n \in {0, 1} :
          /\ n = 1 => Shows(t)
          /\ Change(t, [turns[t] EXCEPT !.at = "commit", !.shown = @ + n])
    /\ UNCHANGED <<keys, control>>

\* The commit succeeds, fails, or succeeds and the row cannot be read back.
Committed(t) ==
    /\ At(t, "commit")
    /\ Change(t, [turns[t] EXCEPT !.at = "tail", !.saved = @ + 1])
    /\ UNCHANGED <<keys, control>>
CommitFails(t) ==
    /\ At(t, "commit")
    /\ \E lost \in BOOLEAN :
          LET rec == [turns[t] EXCEPT !.saved = IF lost THEN @ ELSE @ + 1, !.unsure = ~lost]
          IN  IF IsText(t)
              THEN Change(t, [rec EXCEPT !.at = "again"]) /\ UNCHANGED keys
              ELSE Ends(t, rec, "nothing")
    /\ UNCHANGED control

\* A text turn saves in a fresh session what could not be saved in its own.
\* Mutant: done, saved or not.
RescuedAnyhow(t) ==
    /\ At(t, "again")
    /\ \E n \in {0, 1} : Ends(t, [turns[t] EXCEPT !.saved = @ + n], "done")
    /\ UNCHANGED control
Rescued(t) ==
    /\ At(t, "again")
    /\ \/ Ends(t, [turns[t] EXCEPT !.saved = @ + 1], "done")
       \/ \E n \in {0, 1} : Ends(t, [turns[t] EXCEPT !.saved = @ + n], "error")
    /\ UNCHANGED control

\* The rest of the bookkeeping; when it fails a text turn says so.
\* Mutant: whether the answer is saved already is not asked.
DoneTwice(t) ==
    /\ At(t, "tail")
    /\ \/ Ends(t, turns[t], "done")
       \/ IsText(t) /\ Ends(t, [turns[t] EXCEPT !.saved = @ + 1], "done")
    /\ UNCHANGED control
Done(t) ==
    /\ At(t, "tail")
    /\ \/ Ends(t, turns[t], "done")
       \/ IsText(t) /\ Ends(t, turns[t], "error")
    /\ UNCHANGED control

-----------------------------------------------------------------------------
(* The client, the clock and the server.                                   *)

\* cancel_scope.cancel: the flag, and the scope of the turn begun last.  stop
\* remembers it, for StopHolds.
Stop ==
    /\ ~flag /\ flag' = TRUE
    /\ turns' = [t \in Turns |->
          IF t = scope /\ Answering(t) THEN [turns[t] EXCEPT !.cancelled = TRUE, !.stop = TRUE]
          ELSE turns[t]]
    /\ UNCHANGED <<keys, scope, life>>
StopExpires ==
    /\ flag /\ flag' = FALSE
    /\ UNCHANGED <<turns, keys, scope, life>>

Disconnect(t) ==
    /\ ~Over(t) /\ ~turns[t].gone
    /\ Change(t, [turns[t] EXCEPT !.gone = TRUE])
    /\ UNCHANGED <<keys, control>>

\* The generator of a client that is gone is not resumed from its next yield:
\* a text turn is behind a keepalive pump that nobody pulls any more, and saves
\* nothing; an upload is cancelled at its await, and saves what it has shown
\* of an unfinished stream, even if that is being saved, or dropped at its yield.
Abandoned(t) ==
    /\ turns[t].gone
    /\ \/ /\ turns[t].at \in {"stream", "retry", "empty", "fallback", "verify", "tail"}
          /\ Ends(t, turns[t], "nothing")
       \/ /\ ~IsText(t) /\ turns[t].at \in {"stream", "retry", "partial"}
          /\ Ends(t, Left([turns[t] EXCEPT !.unsure = At(t, "partial")]), "nothing")
    /\ UNCHANGED control

\* The server is restarted: its tasks, its keys and its flags are gone.
Restart ==
    /\ life < MaxLives /\ life' = life + 1
    /\ turns' = [t \in Turns |-> IF At(t, "unborn") THEN turns[t]
                 ELSE [EndedWith(turns[t], turns[t].told) EXCEPT !.pending = FALSE]]
    /\ keys' = [k \in Keys |-> "free"] /\ flag' = FALSE /\ scope' = None

-----------------------------------------------------------------------------
Init ==
    /\ turns = [t \in Turns |-> Fresh]
    /\ keys = [k \in Keys |-> "free"]
    /\ flag = FALSE /\ scope = None /\ life = 1

Handler(t) == Begin(t) \/ Write(t) \/ Claim(t) \/ Start(t) \/ NeverStarts(t)
\* What a model does when it answers.
Model(t) ==
    \/ Token(t) \/ RetryToken(t) \/ EndsEmpty(t) \/ StreamEnds(t) \/ Retried(t)
    \/ EmptyStream(t) \/ FallbackAnswers(t)
\* What a turn does whether its model answers or hangs.
Ending(t) ==
    \/ Stopped(t) \/ OverBudget(t) \/ StartOver(t) \/ BreaksOff(t) \/ PartialEnds(t)
    \/ EmptyAgain(t) \/ FallbackFails(t) \/ StoppedLate(t) \/ Verified(t)
    \/ Committed(t) \/ CommitFails(t) \/ Rescued(t) \/ Done(t) \/ Abandoned(t)
Next ==
    \/ \E t \in Turns :
          \/ \E k \in Keys : PostText(t, k) \/ PostUpload(t, k)
          \/ Handler(t) \/ Fails(t) \/ Model(t) \/ SaveLeft(t) \/ PartialCommits(t) \/ Ending(t)
          \/ Disconnect(t)
    \/ Stop \/ StopExpires \/ Restart

Spec == Init /\ [][Next]_vars
\* Every await of a handler ends.  A model may hang: what ends its stream is the
\* budget of a text turn, or the read timeout of an upload's provider, which
\* breaks the stream off; a fallback call and a verification have deadlines.
FairSpec == Spec /\ \A t \in Turns : WF_vars(Handler(t)) /\ WF_vars(Ending(t))

-----------------------------------------------------------------------------
TurnRecord ==
    [kind : {"text", "upload"}, key : Keys \cup {None},
     at : {"unborn", "prelude", "ready", "stream", "retry", "empty", "fallback", "partial",
           "verify", "commit", "again", "tail", "over"},
     life : 1 .. MaxLives, gone : BOOLEAN, cancelled : BOOLEAN, stop : BOOLEAN,
     shown : 0 .. MaxShown, held : 0 .. MaxShown, tier : 0 .. MaxTiers,
     asked : BOOLEAN, saved : 0 .. 2, unsure : BOOLEAN,
     pending : BOOLEAN, told : {"nothing", "duplicate", "error", "done"}]
TypeOK ==
    /\ turns \in [Turns -> TurnRecord]
    /\ keys \in [Keys -> {"free", "held", "done"}]
    /\ flag \in BOOLEAN /\ scope \in Turns \cup {None} /\ life \in 1 .. MaxLives

\* A key is answered by one turn at a time and, once it was answered with a done
\* frame, by no other; two text turns of a key never both leave a question
\* (idempotency.py:1-7).
OneAnswerPerKey ==
    \A t, u \in Turns :
        (t # u /\ turns[t].key = turns[u].key /\ turns[t].life = turns[u].life) =>
            /\ Answering(t) => ~Answering(u) /\ turns[u].told # "done"
            /\ IsText(t) /\ IsText(u) => ~(turns[t].asked /\ turns[u].asked)

\* However a turn ends - stopped, abandoned, broken off, rescued from a failed
\* commit - its answer is saved once; twice only if the turn did not see the
\* first save end: the commit failed after the fact (assistant_saved,
\* routes_agents.py:3171-3204), or the client left while what a broken-off
\* upload had shown was being saved (routes_attachments.py:1558-1559, 1861-1866).
SavedOnce == \A t \in Turns : turns[t].saved <= 1 \/ turns[t].unsure

\* A done frame is the promise that the answer is in the conversation.
DoneIsSaved ==
    \A t \in Turns : turns[t].told = "done" => turns[t].saved > 0 /\ turns[t].asked

\* A text turn that was told to stop takes nothing more from a model: it shows at
\* most what it has at hand, the pieces held back and what the one call under way
\* - a fallback tier, a verification - returns, even if the next turn begins at
\* once and takes the Stop flag down before it was polled
\* (cancel_scope.py:3-17, routes_agents.py:948-961, 2504-2538).
AtHand(rec) == Collected(rec) + (IF rec.at \in {"fallback", "verify"} THEN 1 ELSE 0)
StopHolds ==
    [][\A t \in Turns : turns[t].stop => AtHand(turns'[t]) <= AtHand(turns[t])]_turns

\* Every turn ends, though its model may hang.
TurnsEnd == \A t \in Turns : At(t, "prelude") ~> At(t, "over")

\* "Release an IN-FLIGHT claim whose turn failed before completing, so a genuine
\* retry can proceed" (idempotency.py:70-72).
FailedKeyIsFree ==
    \A k \in Keys : keys[k] = "held" =>
        \E t \in Turns : turns[t].key = k /\ (~Over(t) \/ turns[t].told = "done")
=============================================================================
