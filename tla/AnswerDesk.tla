----------------------------- MODULE AnswerDesk -----------------------------
(***************************************************************************)
(* What the answering side of a live session promises: never more than Cap *)
(* answers are generated at once, each by a task admitted on its own; a    *)
(* question's bubble is opened before anything is said about it, is never  *)
(* opened while it is open, and once ended stays so until it is opened     *)
(* again.  A single terminal frame is not promised: an answer cancelled    *)
(* while its done frame is being sent ends twice, and the second frame     *)
(* finds the bubble ended, or opened again by a resumed answer.            *)
(***************************************************************************)
EXTENDS Integers, FiniteSets

CONSTANTS Tasks, Qids, Cap

VARIABLES busy,     \* tasks generating an answer
          bubble    \* bubble[q]: what the client shows of question q

Init == busy = {} /\ bubble = [q \in Qids |-> "none"]

Admit(t) ==
    /\ t \in Tasks \ busy /\ Cardinality(busy) < Cap
    /\ busy' = busy \cup {t} /\ UNCHANGED bubble

Leave == busy' \subseteq busy /\ UNCHANGED bubble

Open(q) ==
    /\ bubble[q] # "open"
    /\ bubble' = [bubble EXCEPT ![q] = "open"] /\ UNCHANGED busy

\* A terminal frame, the first or a second one, with or without the task
\* leaving.
End(q) ==
    /\ bubble[q] # "none"
    /\ bubble' = [bubble EXCEPT ![q] = "ended"] /\ busy' \subseteq busy

Next ==
    \/ \E t \in Tasks : Admit(t)
    \/ \E q \in Qids : Open(q) \/ End(q)
    \/ Leave
Spec == Init /\ [][Next]_<<busy, bubble>>
=============================================================================
