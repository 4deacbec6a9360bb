----------------------------- MODULE RateLimiter -----------------------------
(***************************************************************************)
(* The rate limiter of conspiri/rate_limiter.go: for each sender the times *)
(* of the calls of Allow that were admitted, pruned on the sender's next   *)
(* call. ProcessMessage (bot.go:95-104) calls Allow on the limiter of the  *)
(* SwarmState of some registered bot: whichever AllBots lists first, in    *)
(* the random order of a map. There is one SwarmState per ircd with a      *)
(* database.                                                               *)
(*                                                                         *)
(* Allow holds the mutex from end to end, so it is one step. Each admitted *)
(* call is told from others of the same instant by its number.             *)
(***************************************************************************)
EXTENDS Integers, FiniteSets

CONSTANTS
  Limiters,         \* the limiters, one per SwarmState
  Senders,          \* nicks that speak on a channel
  Window,           \* the 30 seconds
  Limit,            \* the 5 messages
  MaxTime           \* bound on the clock, for model checking

ASSUME LimiterAssumption ==
  /\ Window \in Nat \ {0}
  /\ Limit \in Nat
  /\ MaxTime \in Nat

VARIABLES
  clients,          \* clients[l][s]: the stamps [n, at] kept for a sender
  admitted,         \* the stamps [n, at, by, of] of all admitted calls
  now

vars == <<clients, admitted, now>>

Stamp == [n : Nat, at : Nat]

Init ==
  /\ clients = [l \in Limiters |-> [s \in Senders |-> {}]]
  /\ admitted = {}
  /\ now = 0

\* t.After(threshold): strictly younger than the window.
Valid(l, s) == {t \in clients[l][s] : t.at > now - Window}

\* Mutants of Admit: one message too many; and the stamp is the end of its window.
AdmitOneMore(l, s) ==
  /\ Cardinality(Valid(l, s)) <= Limit
  /\ LET n == Cardinality(admitted) + 1 IN
       /\ clients' = [clients EXCEPT ![l][s] = Valid(l, s) \union {[n |-> n, at |-> now]}]
       /\ admitted' = admitted \union {[n |-> n, at |-> now, by |-> l, of |-> s]}
  /\ UNCHANGED now

AdmitDeadline(l, s) ==
  /\ Cardinality(Valid(l, s)) < Limit
  /\ LET n == Cardinality(admitted) + 1
         end == now + Window IN
       /\ clients' = [clients EXCEPT ![l][s] = Valid(l, s) \union {[n |-> n, at |-> end]}]
       /\ admitted' = admitted \union {[n |-> n, at |-> end, by |-> l, of |-> s]}
  /\ UNCHANGED now

\* The rate limit is not exceeded: the call is stamped.
Admit(l, s) ==
  /\ Cardinality(Valid(l, s)) < Limit
  /\ LET n == Cardinality(admitted) + 1 IN
       /\ clients' = [clients EXCEPT ![l][s] = Valid(l, s) \union {[n |-> n, at |-> now]}]
       /\ admitted' = admitted \union {[n |-> n, at |-> now, by |-> l, of |-> s]}
  /\ UNCHANGED now

\* Mutant of Reject: the list is dropped with what is too old.
RejectForgetting(l, s) ==
  /\ Cardinality(Valid(l, s)) >= Limit
  /\ clients' = [clients EXCEPT ![l][s] = {}]
  /\ UNCHANGED <<admitted, now>>

\* The limit is exceeded: only the pruned list is kept.
Reject(l, s) ==
  /\ Cardinality(Valid(l, s)) >= Limit
  /\ clients' = [clients EXCEPT ![l][s] = Valid(l, s)]
  /\ UNCHANGED <<admitted, now>>

Allow(l, s) == Admit(l, s) \/ Reject(l, s)

Clock ==
  /\ now < MaxTime
  /\ now' = now + 1
  /\ UNCHANGED <<clients, admitted>>

Next == Clock \/ \E l \in Limiters, s \in Senders : Allow(l, s)

Spec == Init /\ [][Next]_vars
-----------------------------------------------------------------------------
\* What was admitted for a sender within the window that ends now.
Recent(l, s) == {a \in admitted : a.by = l /\ a.of = s /\ a.at > now - Window}

RecentStamps(l, s) == {[n |-> a.n, at |-> a.at] : a \in Recent(l, s)}

\* The values of the variables.
TypeOK ==
  /\ now \in Nat
  /\ clients \in [Limiters -> [Senders -> SUBSET Stamp]]
  /\ admitted \subseteq [n : Nat, at : 0..now, by : Limiters, of : Senders]

\* No sender gets more than Limit messages past a limiter in any Window: this
\* holds of the window that ends at each instant, hence of every window.
WindowBound == \A l \in Limiters, s \in Senders : Cardinality(Recent(l, s)) <= Limit

\* Pruning is exact: what the limiter keeps for a sender, less what is too old,
\* is what was admitted for that sender within the window. Neither does the
\* pruning done by a rejected call forget a stamp that still counts, nor does
\* a stamp count for a sender or a limiter it was not given to: who is rejected
\* has used up an allowance of its own, which silence for a Window restores.
KeepsWindow ==
  \A l \in Limiters, s \in Senders : Valid(l, s) = RecentStamps(l, s)

\* Why WindowBound and KeepsWindow hold: admissions are numbered apart, what a
\* limiter keeps was admitted, and what was admitted within the window is kept.
Inv ==
  /\ TypeOK
  /\ IsFiniteSet(admitted)
  /\ \A a \in admitted : a.n <= Cardinality(admitted)
  /\ \A a, b \in admitted : a.n = b.n => a = b
  /\ \A l \in Limiters, s \in Senders :
       /\ \A t \in clients[l][s] :
            [n |-> t.n, at |-> t.at, by |-> l, of |-> s] \in admitted
       /\ RecentStamps(l, s) \subseteq clients[l][s]
  /\ WindowBound
=============================================================================
