-------------------------------- MODULE Swarm --------------------------------
(***************************************************************************)
(* The swarm of conspiri bots (conspiri/bot.go, registry.go and the end of *)
(* GenerateReply in llm.go): ProcessMessage, which girc runs in a          *)
(* goroutine of its own for every message, the goroutines of               *)
(* generateAndSpeak that it starts, the admin's mute and unmute, the       *)
(* breaker that silences the swarm after repeated API failures, and the    *)
(* shared scheduler, of which only the promise of OutboundQueue is used.   *)
(*                                                                         *)
(* Whether a bot answers a message is a choice: of the triggers, the dice  *)
(* and the limiter, whose refusal is no step. What it answers is left out. *)
(* An age is a time elapsed, saturated at the first value the code cannot  *)
(* tell from a larger one. Utility bots do not take part in the swarm.     *)
(***************************************************************************)
EXTENDS Integers, Sequences, FiniteSets

CONSTANTS
  Bots,             \* the registered bots (AllBots)
  Handlers,         \* goroutines in ProcessMessage
  Speakers,         \* goroutines in generateAndSpeak: as many as run at once
  Threshold,        \* the 50 failures in a row
  Cooldown,         \* ReplyCooldownSeconds
  Commands          \* the commands the admin may give: "mute", "unmute"

ASSUME SwarmAssumption ==
  /\ Bots # {} /\ IsFiniteSet(Bots)
  /\ IsFiniteSet(Handlers) /\ IsFiniteSet(Speakers) /\ Speakers # {}
  /\ Threshold \in Nat \ {0} /\ Cooldown \in Nat \ {0}
  /\ Commands \subseteq {"mute", "unmute"}

VARIABLES
  at,               \* where each handler is
  left,             \* the bots its loop has not come to
  looking,          \* the bot it looks at, in a set of at most one
  enabled,          \* enabled[b]: b.enabled
  lastSpoke,        \* lastSpoke[b]: the age of b.lastSpoke
  pc,               \* where each speaker is
  bot,              \* the bot it speaks for
  silencing,        \* the bots that the breaker has still to silence
  failures,         \* state.ConsecutiveFailures
  call, line,       \* the scheduler, as its callers see it
  streak            \* failures recorded since the last success or unmute

handlerVars == <<at, left, looking>>
speakerVars == <<pc, bot>>
breakerVars == <<silencing, failures, streak>>
queueVars == <<call, line>>
vars == <<handlerVars, enabled, speakerVars, breakerVars, lastSpoke, queueVars>>

Queue == INSTANCE OutboundQueue WITH Callers <- Speakers

AnyBot == CHOOSE b \in Bots : TRUE

Init ==
  /\ at = [h \in Handlers |-> "idle"]
  /\ left = [h \in Handlers |-> {}]
  /\ looking = [h \in Handlers |-> {}]
  /\ enabled = [b \in Bots |-> TRUE]
  /\ lastSpoke = [b \in Bots |-> Cooldown]
  /\ pc = [g \in Speakers |-> "free"]
  /\ bot = [g \in Speakers |-> AnyBot]
  /\ silencing = {} /\ failures = 0 /\ streak = 0
  /\ Queue!Init
-----------------------------------------------------------------------------
(***************************************************************************)
(* ProcessMessage.                                                         *)
(***************************************************************************)
\* A message that the limiter lets through: the loop over AllBots begins.
ProcessMessage(h) ==
  /\ at[h] = "idle"
  /\ at' = [at EXCEPT ![h] = "bots"]
  /\ left' = [left EXCEPT ![h] = Bots]
  /\ UNCHANGED <<looking, enabled, speakerVars, breakerVars, lastSpoke, queueVars>>

\* Mutant of Look: the loop does not ask whether the bot is enabled.
LookBlind(h, b) ==
  /\ at[h] = "bots" /\ looking[h] = {} /\ b \in left[h]
  /\ left' = [left EXCEPT ![h] = @ \ {b}]
  /\ looking' = [looking EXCEPT ![h] = {b}]
  /\ UNCHANGED <<at, enabled, speakerVars, breakerVars, lastSpoke, queueVars>>

\* One bot of the loop: if it is enabled, a trigger or the dice may choose it.
\* The bots come in the random order of a map.
Look(h, b) ==
  /\ at[h] = "bots" /\ looking[h] = {} /\ b \in left[h]
  /\ left' = [left EXCEPT ![h] = @ \ {b}]
  /\ \/ enabled[b] /\ looking' = [looking EXCEPT ![h] = {b}]
     \/ UNCHANGED looking
  /\ UNCHANGED <<at, enabled, speakerVars, breakerVars, lastSpoke, queueVars>>

\* if !b.canSpeak() { continue }
TooSoon(h, b) ==
  /\ looking[h] = {b}
  /\ lastSpoke[b] < Cooldown
  /\ looking' = [looking EXCEPT ![h] = {}]
  /\ UNCHANGED <<at, left, enabled, speakerVars, breakerVars, lastSpoke, queueVars>>

\* go b.generateAndSpeak(...)
GoSpeak(h, b, g) ==
  /\ looking[h] = {b}
  /\ lastSpoke[b] >= Cooldown
  /\ looking' = [looking EXCEPT ![h] = {}]
  /\ pc[g] = "free"
  /\ pc' = [pc EXCEPT ![g] = "started"]
  /\ bot' = [bot EXCEPT ![g] = b]
  /\ UNCHANGED <<at, left, enabled, breakerVars, lastSpoke, queueVars>>

\* mute all and unmute all: the loop over AllBots begins.
Command(h, c) ==
  /\ c \in Commands
  /\ at[h] = "idle"
  /\ at' = [at EXCEPT ![h] = c]
  /\ left' = [left EXCEPT ![h] = Bots]
  /\ UNCHANGED <<looking, enabled, speakerVars, breakerVars, lastSpoke, queueVars>>

\* other.setEnabled(...)
SetEnabled(h, b) ==
  /\ at[h] \in {"mute", "unmute"} /\ b \in left[h]
  /\ left' = [left EXCEPT ![h] = @ \ {b}]
  /\ enabled' = [enabled EXCEPT ![b] = (at[h] = "unmute")]
  /\ streak' = IF at[h] = "unmute" THEN 0 ELSE streak
  /\ UNCHANGED <<at, looking, speakerVars, silencing, failures, lastSpoke,
                 queueVars>>

\* The handler returns; a command first says that it is done.
Finish(h) ==
  /\ at[h] # "idle" /\ left[h] = {} /\ looking[h] = {}
  /\ at' = [at EXCEPT ![h] = "idle"]
  /\ UNCHANGED <<left, looking, enabled, speakerVars, breakerVars, lastSpoke, queueVars>>
-----------------------------------------------------------------------------
(***************************************************************************)
(* generateAndSpeak.                                                       *)
(***************************************************************************)
Step(g, from, to) ==
  /\ pc[g] = from
  /\ pc' = [pc EXCEPT ![g] = to]

\* Mutant of Start: the goroutine does not ask whether its bot is enabled.
StartBlind(g) ==
  /\ Step(g, "started", "calling")
  /\ UNCHANGED <<handlerVars, enabled, bot, breakerVars, lastSpoke, queueVars>>

\* if !b.IsEnabled() { return }
Start(g) ==
  /\ \/ enabled[bot[g]] /\ Step(g, "started", "calling") /\ UNCHANGED bot
     \/ ~enabled[bot[g]] /\ Step(g, "started", "free") /\ bot' = [bot EXCEPT ![g] = AnyBot]
  /\ UNCHANGED <<handlerVars, enabled, breakerVars, lastSpoke, queueVars>>

\* CallGeminiText returns a reply, nothing (or there is no key), or an error.
CallGemini(g) ==
  /\ Step(g, "calling", "ok") \/ Step(g, "calling", "typing") \/ Step(g, "calling", "failed")
  /\ UNCHANGED <<handlerVars, enabled, bot, breakerVars, lastSpoke, queueVars>>

\* state.FailMu is free.
FailMuFree == \A g \in Speakers : pc[g] # "silencing"

\* state.ConsecutiveFailures = 0, after a reply.
Succeed(g) ==
  /\ FailMuFree
  /\ Step(g, "ok", "typing")
  /\ failures' = 0
  /\ streak' = 0
  /\ UNCHANGED <<handlerVars, enabled, bot, silencing, lastSpoke, queueVars>>

\* state.ConsecutiveFailures++; at the threshold FailMu is kept while the
\* bots are silenced.
CountFailure(g) ==
  /\ FailMuFree
  /\ failures' = failures + 1
  /\ streak' = streak + 1
  /\ \/ failures' < Threshold /\ Step(g, "failed", "typing") /\ UNCHANGED silencing
     \/ failures' >= Threshold /\ Step(g, "failed", "silencing") /\ silencing' = Bots
  /\ UNCHANGED <<handlerVars, enabled, bot, lastSpoke, queueVars>>

\* b.setEnabled(false)
Silence(b) ==
  /\ b \in silencing
  /\ silencing' = silencing \ {b}
  /\ enabled' = [enabled EXCEPT ![b] = FALSE]
  /\ UNCHANGED <<handlerVars, speakerVars, failures, streak, lastSpoke, queueVars>>

\* Mutant of Silenced: the failures are not counted from zero again.
SilencedUnreset(g) ==
  /\ silencing = {}
  /\ Step(g, "silencing", "typing")
  /\ UNCHANGED <<handlerVars, enabled, bot, breakerVars, lastSpoke, queueVars>>

\* state.ConsecutiveFailures = 0, and FailMu is released.
Silenced(g) ==
  /\ silencing = {}
  /\ Step(g, "silencing", "typing")
  /\ failures' = 0
  /\ UNCHANGED <<handlerVars, enabled, bot, silencing, streak, lastSpoke, queueVars>>

\* After the delays: b.scheduler.Enqueue.
Enqueue(g) ==
  /\ Step(g, "typing", "enqueued")
  /\ Queue!Call(g)
  /\ UNCHANGED <<handlerVars, enabled, bot, breakerVars, lastSpoke>>

Accept(g) ==
  /\ Queue!Accept(g)
  /\ UNCHANGED <<handlerVars, enabled, speakerVars, breakerVars, lastSpoke>>

\* The scheduler sends the first message of its line, once the one before it
\* is recorded.
Serve ==
  /\ \A g \in Speakers : call[g] = "sent" => pc[g] = "recorded"
  /\ Queue!Serve
  /\ UNCHANGED <<handlerVars, enabled, speakerVars, breakerVars, lastSpoke>>

\* req.Bot.recordSpeak(), before the answer.
RecordSpeak(g) ==
  /\ call[g] = "sent"
  /\ Step(g, "enqueued", "recorded")
  /\ lastSpoke' = [lastSpoke EXCEPT ![bot[g]] = 0]
  /\ UNCHANGED <<handlerVars, enabled, bot, breakerVars, queueVars>>

\* Mutant of Return: an error of the scheduler is not taken for an answer.
ReturnWhenSent(g) ==
  /\ Queue!Return(g)
  /\ Step(g, "recorded", "remember")
  /\ UNCHANGED <<handlerVars, enabled, bot, breakerVars, lastSpoke>>

\* Enqueue returns: nil, or an error that calls for the fallback.
Return(g) ==
  /\ Queue!Return(g)
  /\ \/ Step(g, "recorded", "remember")
     \/ call[g] = "failed" /\ Step(g, "enqueued", "fallback")
  /\ UNCHANGED <<handlerVars, enabled, bot, breakerVars, lastSpoke>>

\* The fallback to b.sendTo, which may fail too and records nothing.
SendDirect(g) ==
  /\ Step(g, "fallback", "remember")
  /\ UNCHANGED <<handlerVars, enabled, bot, breakerVars, lastSpoke, queueVars>>

\* LogMessage and SaveMemory, whatever has become of the reply.
Remember(g) ==
  /\ Step(g, "remember", "free")
  /\ bot' = [bot EXCEPT ![g] = AnyBot]
  /\ UNCHANGED <<handlerVars, enabled, breakerVars, lastSpoke, queueVars>>
-----------------------------------------------------------------------------
Older(age, bound) == IF age < bound THEN age + 1 ELSE age

Clock ==
  /\ lastSpoke' = [b \in Bots |-> Older(lastSpoke[b], Cooldown)]
  /\ UNCHANGED <<handlerVars, enabled, speakerVars, breakerVars, queueVars>>
-----------------------------------------------------------------------------
Handler(h) ==
  \/ ProcessMessage(h)
  \/ \E b \in Bots : Look(h, b) \/ TooSoon(h, b) \/ SetEnabled(h, b)
  \/ \E b \in Bots, g \in Speakers : GoSpeak(h, b, g)
  \/ \E c \in Commands : Command(h, c)
  \/ Finish(h)

Locking(g) == Succeed(g) \/ CountFailure(g)

Speaking(g) ==
  \/ Start(g) \/ CallGemini(g) \/ Silenced(g) \/ Enqueue(g) \/ Accept(g)
  \/ RecordSpeak(g) \/ Return(g) \/ SendDirect(g) \/ Remember(g)

Next ==
  \/ \E h \in Handlers : Handler(h)
  \/ \E g \in Speakers : Locking(g) \/ Speaking(g)
  \/ \E b \in Bots : Silence(b)
  \/ Serve
  \/ Clock

Spec == Init /\ [][Next]_vars

\* A speaker that can run runs, CallGeminiText returns within its 15 seconds,
\* a mutex is not kept from one that waits for it for ever, and the scheduler
\* serves its line. Nobody is obliged to talk, to mute or to unmute.
FairSpec ==
  /\ Spec
  /\ WF_vars(Serve)
  /\ WF_vars(\E b \in Bots : Silence(b))
  /\ \A g \in Speakers : WF_vars(Speaking(g)) /\ SF_vars(Locking(g))
-----------------------------------------------------------------------------
(***************************************************************************)
(* Properties.                                                             *)
(***************************************************************************)
Places == {"free", "started", "calling", "ok", "failed", "silencing", "typing",
           "enqueued", "recorded", "fallback", "remember"}

\* The values of the variables.
TypeOK ==
  /\ at \in [Handlers -> {"idle", "bots", "mute", "unmute"}]
  /\ left \in [Handlers -> SUBSET Bots] /\ looking \in [Handlers -> SUBSET Bots]
  /\ enabled \in [Bots -> BOOLEAN]
  /\ pc \in [Speakers -> Places]
  /\ bot \in [Speakers -> Bots]
  /\ silencing \subseteq Bots
  /\ failures \in 0..Threshold /\ streak \in Nat
  /\ lastSpoke \in [Bots -> 0..Cooldown]
  /\ call \in [Speakers -> Queue!Fates] /\ line \in Seq(Speakers)

\* The breaker holds (llm.go:303-314): between a success or an unmute and the
\* next one, no more failures are recorded than the threshold and one for each
\* other reply that was under way when it tripped. The bots are silenced one
\* by one, while replies start, fail and wait for FailMu.
BreakerHolds == streak <= Threshold + Cardinality(Speakers) - 1

\* A swarm that is muted, by the admin or by the breaker, and stays so falls
\* silent: the replies under way end, in spite of failures, fallbacks and the
\* wait for FailMu, and messages start no more of them.
MutedFallsSilent ==
  <>[](\A b \in Bots : ~enabled[b]) => <>[](\A g \in Speakers : pc[g] = "free")

\* A reply that has begun ends, while messages, commands and other replies
\* keep coming.
RepliesEnd == \A g \in Speakers : pc[g] # "free" ~> pc[g] = "free"

\* The scheduler sends the speaker's message in this step.
Sends(g) == call[g] = "accepted" /\ call'[g] = "sent"

\* config.go:38, "minimum seconds between bot's own messages".
CooldownPerBot == [][\A g \in Speakers : Sends(g) => lastSpoke[bot[g]] >= Cooldown]_vars
=============================================================================
