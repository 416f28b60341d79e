---------------------------- MODULE AnswerStream ----------------------------
(***************************************************************************)
(* What a caller of the language model is promised: an answer is told in   *)
(* at most MaxParts parts, in one unless it is continued, each by one      *)
(* voice from its first word on; it ends once, and never as an answer when *)
(* nothing was told.  An answer that is continued when it is cut off does  *)
(* not end as an error once something was told; any other one may.         *)
(***************************************************************************)
EXTENDS Integers

CONSTANTS Turns, Routes, None,
          Continuing,   \* the answers that are continued when they are cut off
          MaxParts

VARIABLES told,     \* told[t]: how many parts of the answer were begun
          voice,    \* voice[t]: who tells the present part
          end       \* end[t]: how the answer ended

vars == <<told, voice, end>>

Most(t) == IF t \in Continuing THEN MaxParts ELSE 1

Init == told = [t \in Turns |-> 0] /\ voice = [t \in Turns |-> None] /\ end = [t \in Turns |-> None]

\* A part begins, with a voice v, or is told at once.
Begin(t, v) ==
    /\ end[t] = None /\ voice[t] = None /\ told[t] < Most(t)
    /\ told' = [told EXCEPT ![t] = @ + 1] /\ voice' = [voice EXCEPT ![t] = v]
    /\ UNCHANGED end

\* The part is cut off, and another is to follow.
Resume(t) ==
    /\ t \in Continuing /\ end[t] = None /\ voice[t] # None
    /\ voice' = [voice EXCEPT ![t] = None]
    /\ UNCHANGED <<told, end>>

End(t, how) ==
    /\ end[t] = None /\ end' = [end EXCEPT ![t] = how]
    /\ how = "told" => told'[t] > 0
    /\ how = "error" => told'[t] = 0 \/ t \notin Continuing
    /\ voice' = [voice EXCEPT ![t] = None]
    /\ \/ UNCHANGED told
       \/ voice[t] = None /\ told[t] < Most(t) /\ told' = [told EXCEPT ![t] = @ + 1]

Next == \E t \in Turns :
    \/ \E v \in Routes \cup {None} : Begin(t, v)
    \/ Resume(t)
    \/ \E how \in {"told", "error"} : End(t, how)

Spec == Init /\ [][Next]_vars
=============================================================================
