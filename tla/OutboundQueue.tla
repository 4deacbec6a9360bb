---------------------------- MODULE OutboundQueue ----------------------------
(***************************************************************************)
(* What the shared speak scheduler promises the goroutines that call       *)
(* Enqueue (conspiri/scheduler.go): one line of accepted messages, sent    *)
(* one at a time in the order in which they were accepted, each of them    *)
(* tried exactly once, and every call answered with the fate of its own    *)
(* message: nil when it was sent, the error when it was not.               *)
(*                                                                         *)
(* Nothing is said here of the channel's capacity, of the goroutine that   *)
(* drains it, of the ticker or of the record of recent messages.           *)
(***************************************************************************)
EXTENDS Sequences

CONSTANT Callers        \* the goroutines that call Enqueue

VARIABLES
  call,                 \* what has become of the call of each caller
  line                  \* the callers whose messages are accepted, first first

vars == <<call, line>>

Fates == {"none", "offered", "accepted", "sent", "failed"}

Init ==
  /\ call = [c \in Callers |-> "none"]
  /\ line = <<>>

\* A goroutine calls Enqueue: its message is prepared, and offered.
Call(c) ==
  /\ call[c] = "none"
  /\ call' = [call EXCEPT ![c] = "offered"]
  /\ UNCHANGED line

\* The message joins the end of the line.
Accept(c) ==
  /\ call[c] = "offered"
  /\ call' = [call EXCEPT ![c] = "accepted"]
  /\ line' = Append(line, c)

\* The first message of the line is tried, once, and leaves the line.
Serve ==
  /\ line # <<>>
  /\ \E fate \in {"sent", "failed"} : call' = [call EXCEPT ![Head(line)] = fate]
  /\ line' = Tail(line)

\* Enqueue returns: nil for a sent message, the error for one that failed.
Return(c) ==
  /\ call[c] \in {"sent", "failed"}
  /\ call' = [call EXCEPT ![c] = "none"]
  /\ UNCHANGED line

Next == Serve \/ \E c \in Callers : Call(c) \/ Accept(c) \/ Return(c)

Spec == Init /\ [][Next]_vars
=============================================================================
