--------------------------- MODULE SpeakScheduler ---------------------------
(***************************************************************************)
(* The shared speak scheduler of conspiri/scheduler.go: the goroutines     *)
(* that call Enqueue, the bounded channel they push to, the loop that      *)
(* takes one request at a time, sends it and then waits for its ticker,    *)
(* and the recent messages that Enqueue compares a new message with.       *)
(*                                                                         *)
(* Time is discrete and relative: `phase` is the time since the ticker's   *)
(* last boundary and every time stamp is kept as an age, saturated at the  *)
(* first value the code cannot tell from a larger one.                     *)
(***************************************************************************)
EXTENDS Integers, Sequences, FiniteSets

CONSTANTS
  Callers,          \* the goroutines that call Enqueue, one call at a time each
  Channels,         \* IRC channels
  Texts,            \* texts the bots generate
  Tails,            \* what the entries of `variants` append to a text
  NoTail,           \* the empty variant, also the tail of a fresh text
  SimilarMessages,  \* the pairs for which isSimilar returns true
  MaxQueue,         \* capacity of the channel: config.Scheduler.QueueSize
  Cooldown,         \* period of the ticker: config.Scheduler.IntervalSeconds
  DupWindow,        \* the 60 seconds of Enqueue
  HistoryLimit,     \* the 20 messages kept per channel
  Cancellable       \* whether the context given to the loop may be cancelled

Messages == [text : Texts, tail : Tails]

ASSUME SchedulerAssumption ==
  /\ Channels # {} /\ Texts # {}
  /\ Cooldown \in Nat \ {0}
  /\ MaxQueue \in Nat
  /\ DupWindow \in Nat \ {0}
  /\ HistoryLimit \in Nat \ {0}
  /\ NoTail \in Tails
  /\ SimilarMessages \subseteq Messages \X Messages
  /\ Cancellable \in BOOLEAN

VARIABLES
  pc,               \* where each caller is: "idle", "offer" or "await"
  request,          \* the SpeakRequest of a caller that is not idle
  queue,            \* s.queue, by caller
  loop,             \* where the loop goroutine is
  holding,          \* the caller of the request the loop handles, if any (<<c>> or <<>>)
  done,             \* the content of each caller's Done channel
  recentMessages,   \* s.recentMessages, newest first
  phase, tick,      \* the ticker: time since its last boundary, ticker.C's buffer
  sentAge,          \* ages of the last three messages sent, newest first
  cancelled         \* ctx.Done() is closed

vars == <<pc, request, queue, loop, holding, done, recentMessages, phase, tick,
          sentAge, cancelled>>

callerVars == <<pc, request>>
tickerVars == <<phase, tick>>

\* An age past this bound is as good as infinite: a message never sent.
Forever == 2 * Cooldown

Fresh == [channel |-> CHOOSE ch \in Channels : TRUE,
          msg     |-> [text |-> CHOOSE t \in Texts : TRUE, tail |-> NoTail]]

Init ==
  /\ pc = [c \in Callers |-> "idle"]
  /\ request = [c \in Callers |-> Fresh]
  /\ queue = <<>>
  /\ loop = "ready"
  /\ holding = <<>>
  /\ done = [c \in Callers |-> "empty"]
  /\ recentMessages = [ch \in Channels |-> <<>>]
  /\ phase = 0
  /\ tick = 0
  /\ sentAge = [i \in 1..3 |-> Forever]
  /\ cancelled = FALSE
-----------------------------------------------------------------------------
(***************************************************************************)
(* The callers.                                                            *)
(***************************************************************************)

\* `seen` of Enqueue: a message of the last DupWindow on this channel is
\* equal or similar to this one.
Seen(ch, m) ==
  \E i \in DOMAIN recentMessages[ch] :
    LET r == recentMessages[ch][i] IN
      /\ r.age < DupWindow
      /\ r.msg = m \/ <<r.msg, m>> \in SimilarMessages

\* Enqueue up to the send on s.queue: the check under s.mu, then the
\* variation, whose index comes from the clock. The variation is not
\* compared with the recent messages again.
Enqueue(c, ch, t) ==
  /\ pc[c] = "idle"
  /\ \E tail \in IF Seen(ch, [text |-> t, tail |-> NoTail]) THEN Tails ELSE {NoTail} :
       request' = [request EXCEPT ![c] = [channel |-> ch,
                                          msg     |-> [text |-> t, tail |-> tail]]]
  /\ pc' = [pc EXCEPT ![c] = "offer"]
  /\ UNCHANGED <<queue, loop, holding, done, recentMessages, tickerVars, sentAge, cancelled>>

\* s.queue <- req, with room in the channel.
Offer(c) ==
  /\ pc[c] = "offer"
  /\ Len(queue) < MaxQueue
  /\ queue' = Append(queue, c)
  /\ pc' = [pc EXCEPT ![c] = "await"]
  /\ UNCHANGED <<request, loop, holding, done, recentMessages, tickerVars, sentAge, cancelled>>

\* s.queue <- req, straight to the loop that waits in its select: the only
\* way through a channel without a buffer.
Handoff(c) ==
  /\ pc[c] = "offer"
  /\ loop = "ready"
  /\ queue = <<>>
  /\ holding' = <<c>>
  /\ loop' = "sending"
  /\ pc' = [pc EXCEPT ![c] = "await"]
  /\ UNCHANGED <<request, queue, done, recentMessages, tickerVars, sentAge, cancelled>>

\* return <-done
Return(c) ==
  /\ pc[c] = "await"
  /\ done[c] # "empty"
  /\ done' = [done EXCEPT ![c] = "empty"]
  /\ pc' = [pc EXCEPT ![c] = "idle"]
  /\ request' = [request EXCEPT ![c] = Fresh]
  /\ UNCHANGED <<queue, loop, holding, recentMessages, tickerVars, sentAge, cancelled>>
-----------------------------------------------------------------------------
(***************************************************************************)
(* The loop.                                                               *)
(***************************************************************************)

\* Mutant of Take: the request that came last goes first.
TakeLast ==
  /\ loop = "ready"
  /\ queue # <<>>
  /\ holding' = <<queue[Len(queue)]>>
  /\ queue' = SubSeq(queue, 1, Len(queue) - 1)
  /\ loop' = "sending"
  /\ UNCHANGED <<callerVars, done, recentMessages, tickerVars, sentAge, cancelled>>

\* case req := <-s.queue
Take ==
  /\ loop = "ready"
  /\ queue # <<>>
  /\ holding' = <<Head(queue)>>
  /\ queue' = Tail(queue)
  /\ loop' = "sending"
  /\ UNCHANGED <<callerVars, done, recentMessages, tickerVars, sentAge, cancelled>>

\* sendTo returns nil: the message is on the wire, and nothing is recorded yet.
SendOk ==
  /\ loop = "sending"
  /\ loop' = "recording"
  /\ sentAge' = [i \in 1..3 |-> IF i = 1 THEN 0 ELSE sentAge[i - 1]]
  /\ UNCHANGED <<callerVars, queue, holding, done, recentMessages, tickerVars, cancelled>>

\* Mutant of SendError: the caller is not told.
SendErrorUnanswered ==
  /\ loop = "sending"
  /\ holding' = <<>>
  /\ loop' = "cooling"
  /\ UNCHANGED <<callerVars, queue, done, recentMessages, tickerVars, sentAge, cancelled>>

\* sendTo returns an error, which is the answer; the cooldown follows all the same.
SendError ==
  /\ loop = "sending"
  /\ done' = [done EXCEPT ![Head(holding)] = "error"]
  /\ holding' = <<>>
  /\ loop' = "cooling"
  /\ UNCHANGED <<callerVars, queue, recentMessages, tickerVars, sentAge, cancelled>>

\* Mutant of Remembered: the list is cut one message too late.
RememberedOneMore(lst, m) ==
  SubSeq(<<[msg |-> m, age |-> 0]>> \o lst, 1,
         IF Len(lst) <= HistoryLimit THEN Len(lst) + 1 ELSE HistoryLimit)

\* The message goes to the front of the channel's recent messages, of which
\* HistoryLimit stay.
Remembered(lst, m) ==
  SubSeq(<<[msg |-> m, age |-> 0]>> \o lst, 1,
         IF Len(lst) < HistoryLimit THEN Len(lst) + 1 ELSE HistoryLimit)

\* Mutant of Record: the loop goes on to the next request without a cooldown.
RecordUncooled ==
  /\ loop = "recording"
  /\ LET r == request[Head(holding)] IN
       recentMessages' = [recentMessages EXCEPT ![r.channel] = Remembered(@, r.msg)]
  /\ done' = [done EXCEPT ![Head(holding)] = "nil"]
  /\ holding' = <<>>
  /\ loop' = "ready"
  /\ UNCHANGED <<callerVars, queue, tickerVars, sentAge, cancelled>>

\* After a successful send: the record under s.mu, then req.Done <- nil.
Record ==
  /\ loop = "recording"
  /\ LET r == request[Head(holding)] IN
       recentMessages' = [recentMessages EXCEPT ![r.channel] = Remembered(@, r.msg)]
  /\ done' = [done EXCEPT ![Head(holding)] = "nil"]
  /\ holding' = <<>>
  /\ loop' = "cooling"
  /\ UNCHANGED <<callerVars, queue, tickerVars, sentAge, cancelled>>

\* Mutant of Cooled: the tick that ends a cooldown stays in the buffer.
CooledLeavingTick ==
  /\ loop = "cooling"
  /\ tick = 1
  /\ loop' = "ready"
  /\ UNCHANGED <<callerVars, queue, holding, done, recentMessages, tickerVars, sentAge, cancelled>>

\* case <-ticker.C: a buffered tick will do, however old it is.
Cooled ==
  /\ loop = "cooling"
  /\ tick = 1
  /\ tick' = 0
  /\ loop' = "ready"
  /\ UNCHANGED <<callerVars, queue, holding, done, recentMessages, phase, sentAge, cancelled>>

\* case <-ctx.Done(), in either select. A select with several ready cases
\* takes any of them.
Exit ==
  /\ cancelled
  /\ loop \in {"ready", "cooling"}
  /\ loop' = "exited"
  /\ UNCHANGED <<callerVars, queue, holding, done, recentMessages, tickerVars, sentAge, cancelled>>
-----------------------------------------------------------------------------
(***************************************************************************)
(* The environment: the context and the clock.                             *)
(***************************************************************************)
Cancel ==
  /\ Cancellable
  /\ ~cancelled
  /\ cancelled' = TRUE
  /\ UNCHANGED <<callerVars, queue, loop, holding, done, recentMessages, tickerVars, sentAge>>

Older(age, bound) == IF age < bound THEN age + 1 ELSE age

AllOlder(lst) ==
  [i \in DOMAIN lst |-> [msg |-> lst[i].msg, age |-> Older(lst[i].age, DupWindow)]]

\* One unit of time. At a boundary the ticker sends into its buffer of one
\* tick; a tick that finds the buffer full is dropped.
Clock ==
  /\ phase' = IF phase + 1 = Cooldown THEN 0 ELSE phase + 1
  /\ tick' = IF phase' = 0 THEN 1 ELSE tick
  /\ sentAge' = [i \in 1..3 |-> Older(sentAge[i], Forever)]
  /\ recentMessages' = [ch \in Channels |-> AllOlder(recentMessages[ch])]
  /\ UNCHANGED <<callerVars, queue, loop, holding, done, cancelled>>
-----------------------------------------------------------------------------
Caller(c) ==
  \/ \E ch \in Channels, t \in Texts : Enqueue(c, ch, t)
  \/ Offer(c)
  \/ Handoff(c)
  \/ Return(c)

Loop == Take \/ SendOk \/ SendError \/ Record \/ Cooled \/ Exit

Next == Loop \/ Cancel \/ Clock \/ \E c \in Callers : Caller(c)

Spec == Init /\ [][Next]_vars

\* Time passes, a goroutine that can run runs, a send returns, and the
\* senders parked on a full channel are served in the order of their arrival
\* (Go's sendq), so none of them is passed over for ever. Nothing obliges a
\* bot to speak, or anybody to cancel.
Fairness ==
  /\ WF_vars(Clock)
  /\ WF_vars(Take \/ SendOk \/ SendError \/ Record \/ Cooled)
  /\ \A c \in Callers : WF_vars(Return(c)) /\ SF_vars(Offer(c) \/ Handoff(c))

FairSpec == Spec /\ Fairness
-----------------------------------------------------------------------------
(***************************************************************************)
(* Properties.                                                             *)
(***************************************************************************)
Requests == [channel : Channels, msg : Messages]
RecentMessages == [msg : Messages, age : 0..DupWindow]

\* The values each variable may take; the channel never holds more than its
\* capacity and a channel's history never more than HistoryLimit.
TypeOK ==
  /\ pc \in [Callers -> {"idle", "offer", "await"}]
  /\ request \in [Callers -> Requests]
  /\ queue \in Seq(Callers) /\ Len(queue) <= MaxQueue
  /\ loop \in {"ready", "sending", "recording", "cooling", "exited"}
  /\ \/ loop \in {"sending", "recording"} /\ \E c \in Callers : holding = <<c>>
     \/ loop \notin {"sending", "recording"} /\ holding = <<>>
  /\ done \in [Callers -> {"empty", "nil", "error"}]
  /\ recentMessages \in [Channels -> Seq(RecentMessages)]
  /\ \A ch \in Channels : Len(recentMessages[ch]) <= HistoryLimit
  /\ phase \in 0..(Cooldown - 1)
  /\ tick \in {0, 1}
  /\ sentAge \in [1..3 -> 0..Forever]
  /\ cancelled \in BOOLEAN

\* However the ticker's stale tick is used, four consecutive messages never
\* go out within one cooldown: when the loop is about to send, the third last
\* message is at least Cooldown old (loop, with NewTicker's one-tick buffer).
BurstBound == loop = "sending" => sentAge[3] >= Cooldown

\* Why BurstBound holds. Between two sends the loop consumes one tick. After a
\* send, a buffered tick may be older than the send, but the next tick is
\* younger, and the one after it a whole Cooldown younger still.
Pacing ==
  /\ sentAge[1] <= sentAge[2] /\ sentAge[2] <= sentAge[3]
  /\ loop \in {"ready", "sending"} =>
       /\ sentAge[3] >= Cooldown
       /\ sentAge[2] >= phase
       /\ tick = 1 => sentAge[1] >= phase /\ sentAge[2] >= phase + Cooldown
  /\ loop \in {"recording", "cooling"} =>
       /\ sentAge[3] >= phase
       /\ tick = 1 => sentAge[2] >= phase /\ sentAge[3] >= phase + Cooldown

\* The callers whose accepted request has not been tried yet, in order.
Untried == (IF loop = "sending" THEN holding ELSE <<>>) \o queue

CallState(c) ==
  CASE pc[c] = "idle"  -> "none"
    [] pc[c] = "offer" -> "offered"
    [] OTHER ->
         CASE done[c] = "error" -> "failed"
           [] done[c] = "nil" \/ (loop = "recording" /\ holding = <<c>>) -> "sent"
           [] OTHER -> "accepted"

Promise == INSTANCE OutboundQueue WITH
  call <- [c \in Callers |-> CallState(c)],
  line <- Untried

\* A caller is in one place: the queue and the loop hold each waiting caller
\* at most once, and only callers not yet answered.
OnePlaceEach ==
  /\ \A i \in DOMAIN queue :
       /\ pc[queue[i]] = "await" /\ done[queue[i]] = "empty"
       /\ holding # <<queue[i]>>
       /\ \A j \in DOMAIN queue : i # j => queue[i] # queue[j]
  /\ \A c \in Callers :
       /\ holding = <<c>> => pc[c] = "await" /\ done[c] = "empty"
       /\ done[c] # "empty" => pc[c] = "await"

\* The scheduler keeps the promise of OutboundQueue: first come first served,
\* one try for each request, and every Enqueue answered with its own outcome.
KeepsPromise == Promise!Spec

\* An Enqueue that has begun returns, also from a full channel
\* (scheduler.go:90, "blocks if the queue is full"), unless the loop is told
\* to stop: those who wait then wait for ever.
EnqueueReturns == \A c \in Callers : pc[c] # "idle" ~> pc[c] = "idle" \/ cancelled

\* What recentMessages is for (scheduler.go:23, "to avoid sending exact
\* duplicates"): within DupWindow no message is sent twice to one channel.
NoExactDuplicates ==
  \A ch \in Channels : \A i, j \in DOMAIN recentMessages[ch] :
    LET r == recentMessages[ch][i]
        s == recentMessages[ch][j] IN
      i < j /\ s.age - r.age < DupWindow /\ s.age < DupWindow => r.msg # s.msg
=============================================================================
