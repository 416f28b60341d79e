------------------------------ MODULE VoiceTalk ------------------------------
(***************************************************************************)
(* A staged session, its client and the socket between them.  Frames to    *)
(* the session travel in `wire`, in order; the session's events reach the  *)
(* client in order and late: the client has read the first `read` of them. *)
(*                                                                         *)
(* The client is not in the repository.  It is modelled as the runner and  *)
(* the session describe it (staged.py:7-15, routes_voice_ws.py:398-457,    *)
(* scripts/voice_demo_e2e.py): it answers every user turn it is told of    *)
(* with ReplyLen[u] `speak` frames and a `reply_end`, plays the clips it   *)
(* receives at its own pace, stops when told that it was interrupted, and  *)
(* reports how many clips it rendered when the user taps.  It types only   *)
(* when no turn is open.                                                   *)
(***************************************************************************)
EXTENDS VoiceStaged

CONSTANTS Typed,      \* the utterances the user types
          Said,       \* the utterances the user says, at any time
          ReplyLen,   \* how many chunks the reply to an utterance has
          CountSent,  \* whether reply_end carries the number of chunks
          MayTap      \* whether the user ever taps the assistant silent

ASSUME TalkAssumption ==
    /\ Utterances = Typed \cup Said
    /\ Typed \cap Said = {}
    /\ Chunks = Utterances \X Seqs
    /\ ReplyLen \in [Utterances -> 1 .. MaxSeq]
    /\ CountSent \in BOOLEAN
    /\ MayTap \in BOOLEAN

VARIABLES
    wire,      \* frames on their way to the session
    read,      \* how many of the session's events the client has read
    asked,     \* utterances already typed or said
    open,      \* the turn the client believes open, or None
    reply,     \* the reply being streamed: its turn and the chunks sent so far
    buffered,  \* clips received and not yet rendered
    heard,     \* clips of the current reply rendered
    floor,     \* the generation below which the client drops audio
    reported,  \* the playback state last reported
    cutAt      \* turn -> clips rendered when the user tapped: a history variable

clientVars == <<asked, open, reply, buffered, heard, floor, reported, cutAt>>
talkVars == <<vars, wire, read, clientVars>>

NoReply == [turn |-> None, sent |-> 0]

TalkInit ==
    /\ Init
    /\ wire = <<>>
    /\ read = 0
    /\ asked = {}
    /\ open = None
    /\ reply = NoReply
    /\ buffered = 0
    /\ heard = 0
    /\ floor = 0
    /\ reported = FALSE
    /\ cutAt = EmptyMap

Send(frame) == wire' = Append(wire, frame)

-----------------------------------------------------------------------------
(* The user. *)

Type(u) ==
    /\ u \in Typed \ asked
    /\ open = None
    /\ buffered = 0
    /\ asked' = asked \cup {u}
    /\ open' = u
    /\ reply' = NoReply
    /\ heard' = 0
    /\ Send([kind |-> "text", user |-> u])
    /\ UNCHANGED <<vars, read, buffered, floor, reported, cutAt>>

\* Speech reaches the session through the microphone frames and the segmenter.
Say(u) ==
    /\ u \in Said \ asked
    /\ asked' = asked \cup {u}
    /\ Utterance(u)
    /\ UNCHANGED <<wire, read, open, reply, buffered, heard, floor, reported,
                   cutAt>>

\* The user stops the assistant while a turn is open or its reply still plays:
\* the client stops sending and playing at once.
Tap ==
    /\ MayTap
    /\ open # None \/ buffered > 0
    /\ Send([kind |-> "interrupt", heard |-> heard])
    /\ cutAt' = Put(cutAt, IF reply = NoReply THEN open ELSE reply.turn, heard)
    /\ open' = None
    /\ reply' = NoReply
    /\ buffered' = 0
    /\ heard' = 0
    /\ floor' = floor + 1
    /\ UNCHANGED <<vars, read, asked, reported>>

-----------------------------------------------------------------------------
(* The client program. *)

SendChunk ==
    /\ reply # NoReply
    /\ reply.sent < ReplyLen[reply.turn]
    /\ Send([kind |-> "speak", seq |-> reply.sent,
             chunk |-> <<reply.turn, reply.sent>>])
    /\ reply' = [reply EXCEPT !.sent = @ + 1]
    /\ UNCHANGED <<vars, read, asked, open, buffered, heard, floor, reported,
                   cutAt>>

\* reply_end; the reply stays the current one while its clips are played
SendEnd ==
    /\ reply # NoReply
    /\ reply.sent = ReplyLen[reply.turn]
    /\ Send([kind |-> "end", total |-> IF CountSent THEN reply.sent ELSE None])
    /\ reply' = [reply EXCEPT !.sent = @ + 1]
    /\ UNCHANGED <<vars, read, asked, open, buffered, heard, floor, reported,
                   cutAt>>

\* The next clip comes out of the jitter buffer.
Render ==
    /\ buffered > 0
    /\ buffered' = buffered - 1
    /\ heard' = heard + 1
    /\ reported' = TRUE
    /\ IF reported THEN UNCHANGED wire
       ELSE Send([kind |-> "speaking", on |-> TRUE])
    /\ UNCHANGED <<vars, read, asked, open, reply, floor, cutAt>>

Silence ==
    /\ reported
    /\ buffered = 0
    /\ reported' = FALSE
    /\ Send([kind |-> "speaking", on |-> FALSE])
    /\ UNCHANGED <<vars, read, asked, open, reply, buffered, heard, floor, cutAt>>

\* The client reads the session's next event.
Read ==
    /\ read < Len(out)
    /\ read' = read + 1
    /\ LET e == out[read + 1] IN
       CASE e.kind = "turn" /\ e.user \notin DOMAIN cutAt ->
              /\ open' = e.user
              /\ reply' = [turn |-> e.user, sent |-> 0]
              /\ buffered' = 0
              /\ heard' = 0
              /\ UNCHANGED floor
         [] e.kind = "audio" ->
              /\ buffered' = IF e.gen >= floor THEN buffered + 1 ELSE buffered
              /\ UNCHANGED <<open, reply, heard, floor>>
         [] e.kind = "cut" ->
              /\ open' = IF e.gen > floor THEN None ELSE open
              /\ reply' = NoReply
              /\ buffered' = 0
              /\ heard' = 0
              /\ floor' = IF e.gen > floor THEN e.gen ELSE floor
         [] e.kind = "complete" ->
              /\ open' = IF e.user = open THEN None ELSE open
              /\ UNCHANGED <<reply, buffered, heard, floor>>
         [] OTHER -> UNCHANGED <<open, reply, buffered, heard, floor>>
    /\ UNCHANGED <<vars, wire, asked, reported, cutAt>>

-----------------------------------------------------------------------------
(* The session's side of the socket: _read_client and _control. *)

Receive ==
    /\ wire # <<>>
    /\ wire' = Tail(wire)
    /\ LET f == Head(wire) IN
       CASE f.kind = "text"      -> SendText(f.user)
         [] f.kind = "speak"     -> Speak(f.seq, f.chunk)
         [] f.kind = "end"       -> ReplyEnd(f.total)
         [] f.kind = "speaking"  -> SetSpeaking(f.on)
         [] f.kind = "interrupt" -> Interrupt(f.heard)
    /\ UNCHANGED <<read, clientVars>>

Verdict ==
    /\ \E u \in judging : Backchannel(u) \/ Undecided(u) \/ BargeIn(u)
    /\ UNCHANGED <<wire, read, clientVars>>

SessionSynth == Synthesis /\ UNCHANGED <<wire, read, clientVars>>

User == Tap \/ \E u \in Utterances : Type(u) \/ Say(u)

Client == SendChunk \/ SendEnd \/ Render \/ Silence \/ Read

TalkNext == User \/ Client \/ Receive \/ Verdict \/ SessionSynth

TalkSpec == TalkInit /\ [][TalkNext]_talkVars

\* The client streams its reply and reads what it is sent; the runner reads the
\* socket; a classification ends; a synthesis ends, at the latest by its
\* timeout (_SYNTH_TIMEOUT_S).  The user owes nothing.
FairTalk ==
    /\ TalkSpec
    /\ WF_talkVars(SendChunk \/ SendEnd)
    /\ WF_talkVars(Read)
    /\ WF_talkVars(Receive)
    /\ WF_talkVars(Verdict)
    /\ WF_talkVars(SessionSynth)

-----------------------------------------------------------------------------
(* What user and client may rely on. *)

\* The last turn admitted before event i; 0 when there is none.
TurnBefore(i) ==
    LET turns == {j \in 1 .. (i - 1) : out[j].kind = "turn"}
    IN  IF turns = {} THEN 0 ELSE CHOOSE j \in turns : \A k \in turns : k <= j

\* "Bytes cannot outrun a barge-in": what is synthesized and played while a
\* user's turn is open is the reply to that turn, not a reply cut off before.
AnswersItsOwnTurn ==
    \A i \in DOMAIN out :
        out[i].kind = "audio" =>
            LET t == TurnBefore(i) IN t # 0 /\ out[i].chunk[1] = out[t].user

\* "Nothing is silently lost": every TurnComplete reports as many chunks as were
\* played in its turn, and that of a turn nobody interrupted comes after every
\* chunk of its reply was played or reported lost.
EveryChunkAccounted ==
    \A i \in DOMAIN out :
        out[i].kind = "complete" =>
            LET told   == {j \in TurnBefore(i) .. (i - 1) :
                              j > 0 /\ out[j].kind \in {"audio", "dropped"}}
                played == {j \in told : out[j].kind = "audio"}
            IN  /\ out[i].chunks = Cardinality(played)
                /\ ~out[i].interrupted =>
                       {out[j].seq : j \in told} = 0 .. (ReplyLen[out[i].user] - 1)

\* An interrupted turn is recorded up to where hearing stopped: no text of a
\* chunk the client did not render, and only chunks that were played.
CutRecordIsHeard ==
    \A i \in DOMAIN out :
        (out[i].kind = "complete" /\ out[i].interrupted) =>
            /\ out[i].user \in DOMAIN cutAt
            /\ Cardinality(out[i].assistant) <= cutAt[out[i].user]
            /\ \A c \in out[i].assistant :
                  \E j \in TurnBefore(i) .. (i - 1) :
                      j > 0 /\ out[j].kind = "audio" /\ out[j].chunk = c

\* Every turn the user types terminates (Property 3).
EveryTurnCompletes ==
    \A u \in Utterances :
        (\E i \in DOMAIN out : out[i].kind = "turn" /\ out[i].user = u)
            ~> (\E i \in DOMAIN out : out[i].kind = "complete"
                                         /\ out[i].user = u)

\* Whatever becomes of the turn, every synthesis gives its slot back.
SynthesisEnds == tasks # <<>> ~> tasks = <<>>

=============================================================================
