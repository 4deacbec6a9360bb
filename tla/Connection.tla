----------------------------- MODULE Connection -----------------------------
(***************************************************************************)
(* The life of one ircd's connection: runIRC (main.go:783-999) with the    *)
(* retries of the backoff library around girc's DialerConnect, the joins   *)
(* of its CONNECTED handlers, and connectToDB in a goroutine beside it.    *)
(*                                                                         *)
(* girc IsConnected from the TCP connect on; the server lets the bot speak *)
(* once it has registered, and into a channel once it is in it. Channels   *)
(* are left by kicks and by an admin or a plugin (main.go:434,             *)
(* plugins.go:281); only admins and plugins join again, for the handlers   *)
(* join when a connection has registered and nothing handles a KICK.       *)
(*                                                                         *)
(* DialerConnect returns when the dial has failed or the connection is     *)
(* lost, always with an error: nothing calls girc's Close, so the loop of  *)
(* runIRC never ends. Times are counted in ticks of Clock.                 *)
(***************************************************************************)
EXTENDS Integers

CONSTANTS
  Channels,         \* those of IrcChannels, ScrapeChannels, WatchLists and Rss
  ReconnectDelay,   \* MillaReconnectDelay
  Initial,          \* IrcBackOffInitialInterval
  Multiplier,       \* IrcBackOffMultiplier, in hundredths
  Jitter,           \* IrcBackOffRandomizationFactor, in hundredths
  MaxInterval,      \* IrcBackOffMaxInterval
  MaxElapsed,       \* DefaultMaxElapsedTime of the library, 15 minutes
  MaxLosses         \* bound on lost connections, for model checking

ASSUME ConnectionAssumption ==
  /\ {ReconnectDelay, Initial, Multiplier, MaxInterval, MaxElapsed, MaxLosses} \subseteq Nat
  /\ Jitter \in 0..100

VARIABLES
  link,             \* "down" (Retry waits), "dialling", "open" (connected), "up" (registered)
  joined,           \* channels that the bot is in
  out,              \* those that refused it on this connection, or that it has left
  budget,           \* what is left of the context made before the loop
  interval,         \* currentInterval of the ExponentialBackOff, once it is set
  elapsed,          \* ticks since this Retry began, up to MaxElapsed
  pause,            \* ticks left of Retry's timer
  losses,           \* connections and dials lost
  pool              \* appConfig.pool is set

connVars == <<link, joined, out, budget, interval, elapsed, pause, losses, pool>>
retryVars == <<budget, interval, elapsed, pause>>

Least(a, b) == IF a <= b THEN a ELSE b

ConnInit ==
  /\ link = "dialling" /\ joined = {} /\ out = {}
  /\ budget = ReconnectDelay
  /\ interval = Initial /\ elapsed = 0 /\ pause = 0
  /\ losses = 0
  /\ pool = FALSE

IsConnected == link \in {"open", "up"}

\* girc has connected, and introduces itself; the server accepts it: RPL_WELCOME.
Connected ==
  /\ link = "dialling"
  /\ link' = "open"
  /\ UNCHANGED <<joined, out, retryVars, losses, pool>>

Registered ==
  /\ link = "open"
  /\ link' = "up"
  /\ UNCHANGED <<joined, out, retryVars, losses, pool>>

\* The CONNECTED handlers, each in a goroutine of its own, join their channels; or the
\* server refuses.
Join(c) ==
  /\ link = "up" /\ c \notin joined \union out
  /\ \/ joined' = joined \union {c} /\ UNCHANGED out
     \/ out' = out \union {c} /\ UNCHANGED joined
  /\ UNCHANGED <<link, retryVars, losses, pool>>

\* A kick, or the part of an admin or of a plugin; and their join.
Leave(c) ==
  /\ c \in joined
  /\ joined' = joined \ {c} /\ out' = out \union {c}
  /\ UNCHANGED <<link, retryVars, losses, pool>>

JoinAgain(c) ==
  /\ c \in out
  /\ joined' = joined \union {c} /\ out' = out \ {c}
  /\ UNCHANGED <<link, retryVars, losses, pool>>

\* NextBackOff of the library: some pause around the current interval, ...
Around(i) == (i * (100 - Jitter)) \div 100 .. (i * (100 + Jitter)) \div 100

\* ... which then grows, up to its maximum.
Grown(i) == IF i * Multiplier >= 100 * MaxInterval THEN MaxInterval ELSE (i * Multiplier) \div 100

\* Retry gives up: its context is done, or the next pause would pass MaxElapsed.
GivesUp(next) == budget = 0 \/ elapsed + next > MaxElapsed

\* Mutant of Redial: runIRC returns with the error.
RedialNever ==
  /\ link' = "down"
  /\ pause' = 1
  /\ UNCHANGED <<interval, elapsed>>

\* The error is logged and the loop enters Retry anew, which dials at once.
Redial ==
  /\ link' = "dialling"
  /\ interval' = Initial /\ elapsed' = 0 /\ pause' = 0

\* DialerConnect returns an error, from the dial or from a lost connection.
DialerReturns ==
  /\ link # "down"
  /\ losses < MaxLosses
  /\ losses' = losses + 1
  /\ joined' = {} /\ out' = {}
  /\ \E next \in Around(interval) :
       \/ /\ GivesUp(next)
          /\ Redial
       \/ /\ ~GivesUp(next)
          /\ link' = "down"
          /\ pause' = next /\ interval' = Grown(interval)
          /\ UNCHANGED elapsed
  /\ UNCHANGED <<budget, pool>>

\* The timer of Retry fires: the next attempt.
PauseOver ==
  /\ link = "down" /\ pause = 0
  /\ link' = "dialling"
  /\ UNCHANGED <<joined, out, retryVars, losses, pool>>

\* The context ends before the timer: Retry returns its error.
PauseCut ==
  /\ link = "down" /\ budget = 0
  /\ Redial
  /\ UNCHANGED <<joined, out, budget, losses, pool>>

\* connectToDB: NewWithConfig makes a pool without connecting, so that its Retry
\* succeeds at once; the tables of the scraped channels are created, or not, which
\* is only logged; then the pool is there for all to use.
ConnectToDB ==
  /\ ~pool
  /\ pool' = TRUE
  /\ UNCHANGED <<link, joined, out, retryVars, losses>>

\* Mutant of ConnClock: the time of Retry runs past its limit.
ConnClockOn ==
  /\ ~(link = "down" /\ (pause = 0 \/ budget = 0))
  /\ budget' = IF budget = 0 THEN 0 ELSE budget - 1
  /\ pause' = IF pause = 0 THEN 0 ELSE pause - 1
  /\ elapsed' = elapsed + 1
  /\ UNCHANGED <<link, joined, out, interval, losses, pool>>

\* Time passes; a timer that is due fires first.
ConnClock ==
  /\ ~(link = "down" /\ (pause = 0 \/ budget = 0))
  /\ budget' = IF budget = 0 THEN 0 ELSE budget - 1
  /\ pause' = IF pause = 0 THEN 0 ELSE pause - 1
  /\ elapsed' = Least(elapsed + 1, MaxElapsed)
  /\ UNCHANGED <<link, joined, out, interval, losses, pool>>

Keeper == PauseOver \/ PauseCut \/ Connected \/ Registered

ConnNext ==
  \/ Keeper \/ DialerReturns \/ ConnectToDB \/ ConnClock
  \/ \E c \in Channels : Join(c) \/ Leave(c) \/ JoinAgain(c)

\* Fairness: girc's dial and its registration end, the timers of the library fire, time passes and the
\* goroutines of the CONNECTED handlers run.
ConnFairness ==
  /\ WF_connVars(Keeper) /\ WF_connVars(ConnClock)
  /\ \A c \in Channels : WF_connVars(Join(c))

ConnSpec == ConnInit /\ [][ConnNext]_connVars
-----------------------------------------------------------------------------
ConnTypeOK ==
  /\ link \in {"down", "dialling", "open", "up"}
  /\ joined \subseteq Channels /\ out \subseteq Channels
  /\ budget \in 0..ReconnectDelay
  /\ elapsed \in 0..MaxElapsed /\ pause \in 0..MaxElapsed
  /\ interval \in Nat
  /\ losses \in 0..MaxLosses
  /\ pool \in BOOLEAN

\* However connections and dials are lost, a context that is done and the library's
\* limit of 15 minutes do not end the reconnecting: when losses stop, the bot is back
\* in all its channels but those that it was refused or has left (main.go:853-857, 983-998).
BackInChannels == <>[](link = "up" /\ joined \union out = Channels)

\* README.md:70: MillaReconnectDelay is "How much to wait before reconnecting": when a
\* connection or a dial has ended, the next one is at least that far.
WaitsToReconnect == [][losses' > losses => link' = "down" /\ pause' >= ReconnectDelay]_connVars
=============================================================================
