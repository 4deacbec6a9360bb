--------------------------- MODULE MCSpeakScheduler --------------------------
(* A small instance of SpeakScheduler for TLC. *)
EXTENDS SpeakScheduler, TLC

CONSTANTS c1, c2, c3, short, long     \* two texts: a tail makes the first one a new message

\* isSimilar takes a long text and the same text with a tail for one message.
MCSimilar == {p \in Messages \X Messages : p[1].text = long /\ p[2].text = long}

CallerSymmetry == Permutations(Callers)
=============================================================================
