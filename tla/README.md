# Millaz in TLA+

Millaz is an IRC bot in Go. One process (`src/main.go`) keeps a connection to each
configured ircd, answers prompts through a language model, relays feeds, runs Lua
scripts, bridges clients ("ghosts"), and hosts a *swarm* of personae, `src/conspiri`,
which talk in a channel by themselves. The swarm is where goroutines, timers, a database
queue and a remote API meet. Both are modelled: the swarm in detail, and of the rest of the
process what keeps state across messages, connections, failures and restarts.

Every module here is translated from the Go code; the comment of each definition names
what it stands for, and `PROJECT.json` ("map") gives the lines.

## The system

### Components, their state and operations

| Component | Code | State | Operations |
|---|---|---|---|
| speak scheduler | `conspiri/scheduler.go` | bounded `queue`, `recentMessages` under `mu`, a ticker with a one-tick buffer, each caller's `Done` channel | `Enqueue` (any goroutine), `loop` (one goroutine) |
| bots, admin commands | `conspiri/bot.go`, `registry.go` | `enabled`, `lastSpoke` per bot, the registry of bots, the first-bot keys | `ProcessMessage` (a goroutine per message), `generateAndSpeak` (a goroutine per reply), `mute all`, `unmute all`, `status` |
| failure breaker | `conspiri/llm.go:299-325` | `ConsecutiveFailures` under `FailMu` | counts failures, silences all bots at 50 |
| context cache | `conspiri/llm.go:240-297, 369-427`, `database.go:158-173` | `CacheEntry` per bot, read without its mutex; a row per bot that outlives the process | choice of a cache by `GenerateReply`, `refreshCache`, load at the start |
| bot memory | `conspiri/database.go`, `summarizer.go` | `DBQueue`, tables of memory and summaries | `SaveMemory`, `worker`, `SummarizeAndStore`, `SaveSummary`, `pruneOldMemory`, `runCleanup` |
| rate limiter | `conspiri/rate_limiter.go` | stamps per sender under a mutex | `Allow` |
| prompts, privacy, utility bot | `conspiri/llm.go:109-234`, `privacy.go`, `utility.go` | a session of pseudonyms per prompt | mask, sanitize, desanitize |
| log deduplication | `conspiri/logging.go` | two maps with a time to live | `LogReceived`, `LogGeminiError` |
| IRC connection | `main.go:783-999` | the girc client, the reconnect context, the pool | connect, retry, create tables, rejoin |
| providers | `ollama.go`, `gemini.go`, `openai.go`, `openrouter.go` | a conversation shared by all handlers of an ircd, without a lock | ask, append, reset at the limit |
| ghost relay | `ghost.go` | a pair of connections | accept, dial, relay both ways |
| RSS | `rss.go` | `newest_unix_time` per feed, in the database | dispatch, fetch, announce, update |
| Lua plugins | `plugins.go`, `types.go:152-210` | plain maps of states, commands and triggered scripts | load, unload, run, register |
| commands, watch lists | `main.go` | configuration | `/` commands, custom commands |

### How they interact

`girc` runs `ProcessMessage` in a goroutine for every PRIVMSG (`AddBg`, `main.go:859`).
It asks the **rate limiter** of one `SwarmState`, then looks at the bots and starts
`generateAndSpeak` for those that answer. That goroutine asks `GenerateReply`, which
chooses a **context cache** and calls the API; the outcome is counted by the **breaker**,
which may mute every bot. The reply goes to the **scheduler** with a blocking `Enqueue`,
and whatever its fate is saved in the **bot memory**, whose single worker runs all jobs of
the ircd in order and starts a goroutine that summarizes and prunes.

Beside them, in goroutines of the same kind, a prompt goes to the **provider**, which appends to
the ircd's one conversation, or a command goes to a **plugin**, which runs in a Lua state of its
own and shares the maps of states and commands with all others. The **connection** is kept by a
loop around girc; the **feeds** ask girc whether it is connected, once a period, and send later, whether or not the bot has registered and joined by then.
A **ghost** has connections of its own and shares only the process with the rest, which is
enough: a panic in a relay ends the bot.

### What is hard

* Time and order: a ticker that buffers an old tick; a cooldown checked seconds before it is
  set; a verdict on a cache used up to 15 seconds later.
* Bounded channels: `Enqueue` and `SaveMemory` block on full queues while the loop cools
  down or the worker runs a job that leads to another job.
* Fields read without their mutex while a refresh writes them, and one field with two
  meanings (`ExpiresAt` is an end after a success and a mark after a failure).
* Statements of the database that follow each other without a transaction while other
  goroutines prune the same rows.
* A crash in the middle of a refresh, and a restart from the row it left.
* Silencing the bots one by one while replies start, fail and wait for `FailMu`.
* A slice and maps that all handlers share without a lock, and decisions on what was read of them.
* Fetches that overlap the next period, die between an announcement and the write of its time,
  or send over a connection that was there when they began, to a channel the bot may not be in.
* Two relays that race to close both connections, one of which may be a nil pointer that is
  not a nil interface.
* A context that bounds all retries together, and ends while the loop around them goes on.

`PROJECT.json` ("hazards") lists them at their lines with the properties that watch them.

## The modules

| Module | Models | Checked by |
|---|---|---|
| `OutboundQueue` | abstract: what the scheduler promises its callers | as `KeepsPromise`; a part of `Swarm` |
| `SpeakScheduler`, `MCSpeakScheduler` | the scheduler in full | `Scheduler`, `SchedulerDuplicateClaim` |
| `MemoryStore`, `MCMemoryStore` | saving, the worker, summaries, pruning, purging, shutdown | `Memory`, `MemoryLiveness` |
| `ContextCache`, `MCContextCache` | one bot's cache entry, refreshes, restarts | `Cache`, `CacheBackoffClaim` |
| `Swarm`, `MCSwarm` | `ProcessMessage`, `generateAndSpeak`, the breaker, over `OutboundQueue` | `SwarmBreaker`, `SwarmSilence`, `SwarmCooldownClaim` |
| `RateLimiter` | `Allow` | `Handlers` |
| `Conversation` | the memories of the four providers, custom commands | `Handlers` |
| `Plugins` | runs of Lua scripts, the maps of states and commands, `load`, `unload` | `Handlers` |
| `Privacy` | sessions of pseudonyms, the prompts of replies, questions and recaps | `Handlers` |
| `MCHandlers` | composes the four, which handlers of PRIVMSG use | `Handlers` |
| `Connection` | `runIRC`, the retries and their contexts, joins, `connectToDB` | `Reconnect`; a part of `Feed` |
| `Feed` | `rss.go`, over `Connection` | `Network` |
| `Ghost` | `ghost.go`: accept, dial, relay, close | `Network` |
| `MCNetwork` | composes feeds and ghosts | `Network` |
| `SpeakSchedulerProofs`, `MemoryStoreProofs`, `ContextCacheProofs`, `SwarmProofs`, `PluginsProofs`, `PrivacyProofs` | theorems about the module they are named for | tlapm |
| `HandlersProofs` | theorems about `Conversation`, `RateLimiter` and their composition with `Plugins` and `Privacy` | tlapm |
| `NetworkProofs` | theorems about `Connection` with `Feed`, `Ghost` and their composition | tlapm |

An operator whose comment begins with "Mutant of" is a plausible bug of the definition that
follows it. No specification uses it; it shows that a property notices that bug.

### SpeakScheduler and OutboundQueue

Callers are goroutines, each with one call of `Enqueue` at a time. `pc[c]` says whether it is
before the send on `s.queue` ("offer") or waits on `Done` ("await"). The loop is "ready" in its
first select, "sending", "recording" (sent, not yet recorded), "cooling" in its second select,
or "exited". A request enters by `Offer` when the channel has room, or by `Handoff` when the loop
waits, which is the only way through a channel of capacity 0. Both selects may take any ready
case, so a cancelled loop may still take requests.

Time is discrete and kept as ages: `phase` since the ticker's last boundary, `tick` its
buffer, `sentAge` the ages of the last three messages. Ages are saturated at the first value
the code cannot tell from a larger one, so no clock has to be bounded.

`OutboundQueue` is the promise: one line, first come first served, one try for each message,
each call answered with its own fate. `KeepsPromise` maps `line` to the requests accepted and
not yet tried, and `call[c]` to the place of the caller and of its request; a message counts as
sent when it is on the wire, before it is recorded and answered.

### MemoryStore

Each statement of the database is a step: the worker's SELECT and INSERT, the count, the fetch,
the threshold and the DELETE of the goroutine that follows an insert. `pc[c]` follows one call of
`SaveMemory` from its goroutine through the queue to the end of that second goroutine. Rows keep
their id, bot, channel and content. `DbErrors` names the statements that may fail; `Purge` is the
cleaner, which may find any prefix of the rows too old. `PrunedInTheEnd` is checked where the count, the fetch, the threshold
and the DELETE do not fail: what a failed one leaves waits for the prune of another insert. The jobs of `LogMessage` only append
to another table and are left out.

### ContextCache

Each access to a field of the entry is a step, since `GenerateReply` takes no lock; a time is
several words, so its write is two steps and a read in between may find anything (`torn`).
`refreshCache` holds `entry.Mu` from a `TryLock` made in another goroutine to its deferred
`Unlock`. `until[k]` is when the API forgets cache k. `Restart` may come between any two steps and
loads the row. The backoff is computed as the code does, in 64-bit durations (`WordBits`), with
15 as 15 nanoseconds (`Minute` says how many of the duration's units make a minute). The two
reads of `FailCount` at `llm.go:246-247` are one: nothing is stored in between.

### Swarm

Handlers are goroutines in `ProcessMessage`, with the bots left in their loop; speakers are
goroutines in `generateAndSpeak`. Whether a bot answers is a choice, which stands for the
triggers, the dice and the limiter. Failures are counted under `FailMu`; the goroutine that
reaches the threshold keeps it while it mutes the bots one by one. The scheduler is the
`OutboundQueue` that `SpeakScheduler` is proved to implement. `streak` is a history variable: failures since the
last success or unmute.

### RateLimiter

`Allow` is one step, for it holds its mutex throughout. Each limiter keeps a set of stamps per
sender; `admitted` is the history of all calls let through.

### Conversation

All four handlers append a question, look at the limit, ask and append an answer, in different
orders. The order is what matters, so a call is a *program*, a sequence of steps taken from the
provider's function (`OllamaProgram` and its likes), on the slice that the call works on: the one of
the ircd, or a custom command's own. An append is a read of the slice and a write of the longer one.
`overlapped` remembers that two chats were under way at once; what the properties promise, they
promise without that: the code does nothing to keep two handlers apart, and no property forbids what they then do to the memory, or the growth of
the memories of Gemini and ChatGPT while requests fail. `crashed` is a panic of a handler: an empty prompt, an answer without
choices, `logs[:Limit]` beyond the capacity of the slice. Capacities are those of `append`, powers of two. `rows` are those
that the query of a custom command finds and the blank ones that `logs[:Limit]` adds behind them, which the memory counts as it
does the others. `ConvInv`, at the end of the module, is the inductive invariant of the proofs.

### Plugins

A run is a goroutine with its Lua state: it looks its path up (a command), enters `LuaStates` (`Entered`; before that it is `Coming`), executes
the file, which registers names one by one (a check and a write), and calls a function. `Owners` are
the configuration and the copies that `registerTriggeredScripts` receives by value: a map that has been made
by then is shared, one that has not is the copy's alone. An unload deletes a command (`UnloadCommand`), and then `deleteLstate` holds no lock: it looks
whether there is a Cancel, looks again and calls it, and deletes the entry, each in a step of its own (`UnloadLook`, `UnloadCancel`, `UnloadDelete`), with runs
and other unloads in between. Two unloads of a script may both see the Cancel, and the second call a nil one when the first has deleted it: nothing recovers, and the process
ends (`ended`). So it does when Go detects a write beside another access to a map (`MapsCollide`).
`doubled`, `slipped`, `interrupted`, `raced` and the rest are history, for the exceptions the properties name. `UnloadStops` lists whom an unload leaves: a run that has not
entered yet, one that enters between the Cancel and the delete, one that shared its path with another, one of an early copy.

### Privacy

The one conversion that is modelled character by character, because its properties are about it: the
regular expression that takes the separators around a nick, the loop until nothing changes, the order of
longest first, and aliases of which one begins with another. A session belongs to one goroutine, so
a prompt is built in one step. An alias is the character `E`, for `Entity_`, and a numeral. The digits are a constant: with two of
them the second alias is already `E10`, which begins with the first, `E1`, as `Entity_10` begins with `Entity_1`. Where the
code sorts (longest nick, longest alias first), every order that `sort.Slice` may give to equals is a choice.

`prompt` holds the texts of the prompt that `CallGeminiText` is given: of the question, the history, and the facts and memories that were found. `PseudonymsHold` speaks
of it alone. It does **not** say that no nick goes to the API. `GenerateReply` gives the API other texts, which no session sanitizes and which the model
keeps in `bare`: the question, of which `SearchRelevantMemory` asks for an embedding (`llm.go:125`), and the memory that `refreshCache` uploads as
cached content (`llm.go:402`), with which this prompt or later ones are sent (`llm.go:350`). That memory is made of answers with the nicks back (`llm.go:321`, `bot.go:264`),
so nicks are in it. So they are in what the worker asks embeddings of (`database.go:244`), in the rows that are summarized (`summarizer.go:52`)
and in the pages that the utility bot summarizes (`utility.go:99`), which are no part of `Privacy`.

### Connection and Feed

`DialerConnect` returns only with an error, from the dial or from a lost connection, so `runIRC` never returns.
`budget` is what is left of the context made before the loop (`main.go:980`), `interval`, `elapsed` and `pause` are
those of the backoff library (external, modelled as `Retry` uses it: a pause, a growing interval, a limit on the time).
A connection is `open` when TCP has connected, from which time girc's `IsConnected` is true, and `up` when the server has registered the bot; then the
CONNECTED handlers join, each channel in its time or, where the server refuses, not at all. The bot leaves a channel when it is kicked or told to; nothing handles a
KICK, so it is out until an admin or a plugin joins again or the next connection is made (`out`).

`Feed` extends `Connection`: a period begins when girc `IsConnected`, and nothing is asked after that. An item that is given to `Cmd.Message` without a connection is dropped;
before registration, or while the bot is not in the feed's channel, the server may refuse it (`MayBeLost`; some channels take messages from outside). Either way its
time is written. `outside` records, feed by feed, the fetches for which this can happen: those begun out of reach of the channel, and those during which the bot lost the connection or the
channel; `LostOnlyOutOfReach` says that there are no others. `said` is what was given to `Cmd.Message`, lost or not, and `NothingSkipped`, `OnceUndisturbed` and
`AllAnnounced` speak of that. What is on its way when the connection breaks is not followed.
An item is known by the time it was published, so the newest time of the database is an item: items are taken to have different times, later for each that
is new, and one published with the time of another, or with an earlier one, is not modelled. A restart
keeps the database and nothing else.

### Ghost

A relay is in `read` or `write`, then closes through `sync.Once`: client, server, `done`. The other relay
waits for the Once and is over. `serverConn` may be "nil", the pointer that passes the test for nil; the first relay
to use it panics. Lines are not told apart, and a peer may go at any time. `Modes` are all the configurations.

## The runs

| Run | Bounds | Shows |
|---|---|---|
| `Scheduler` | 3 callers, queue of 2, cooldown 2, one channel, cancellation; fair | types and limits; `Pacing` and `BurstBound`: however old the buffered tick, four messages never go out within a cooldown; `KeepsPromise`; `EnqueueReturns` |
| `SchedulerDuplicateClaim` | 2 callers, 2 texts, window 2 | **violated**: a message is sent twice within the window |
| `Memory` | 3 saves of a bot (one repeats), queue of 1, summary from 1 row, keep 1, six statements may fail, purging | no adjacent duplicates; stale thresholds never cost one of the newest rows |
| `MemoryLiveness` | 3 saves of two bots, queue of 1, summary from 2 rows, keep 1, cancellation; fair | saves finish; tables are pruned in the end; accepted jobs are run also after cancellation |
| `Cache` | 2 generators, 2 refreshers, caches of 3 with a margin of 2, 5 instants, 2 caches, 3 failures | one refresh at a time; no cache used after its end; rows safe; a backoff never counts from the future |
| `CacheBackoffClaim` | 1 generator, 1 refresher, 3 failures | **violated**: the backoff is over at once |
| `SwarmBreaker` | 2 bots, 2 speakers, 1 handler, threshold 2, both commands | the breaker holds |
| `SwarmSilence` | 1 bot, 2 speakers, 1 handler, threshold 2, both commands; fair | replies end; a muted swarm falls silent |
| `SwarmCooldownClaim` | 1 bot, 2 speakers | **violated**: two replies of one bot within its cooldown |
| `Handlers` | limiter: 2 senders, window 2, limit 2, 5 instants; conversation: 4 providers, 3 calls of which 2 at once, memory limit 4, 1 element of context, 3 rows, limits 0 and 4; plugins: 2 scripts that want one name, 2 runs at once, of 3 runs alone or at most 2 with up to 2 unloads; privacy: 4 nicks (`a`, `[a]`, `]` and the bot's own), 5 texts of which 1 may be remembered, 2 rows of history, 2 pieces of answer | the window's bound and exact pruning; answers follow their questions, memory stays bounded, rows reach the model; what an unload stops and leaves, and which function a command calls; pseudonyms hold both ways |
| `Network` | feeds: 1 feed of 2 items in 1 channel, 2 goroutines, 1 failure or restart, 1 lost connection, refusals and leaves; ghosts: 1 session, all 12 configurations; fair | nothing skipped, nothing twice or lost but for the causes that the properties name; every item announced and the bot back in its channels; sessions end, and plain ones never end the process |
| `Reconnect` | delay 4, intervals 1 to 3 with a jitter of a half, 4 losses | **violated**: the next dial comes before `MillaReconnectDelay` is over |

Why these bounds are enough to be worth something: three callers are one served, one queued and
one that comes back while the loop cools down, so the queue of two fills and blocks; a
cooldown of 2 tells an old tick from a young one; two rows with `Keep = 1`
and three goroutines allow a prune with a threshold selected before another prune and another
insert; in `Cache` a cache made at 0 ends within the clock, 2 caches allow a name and an end of different ones,
and 3 failures open the backoff; in `SwarmBreaker` two speakers are the one that trips the breaker
and the one that was under way. In `Handlers` a limit of 4 on 1 to 3 rows tells apart one within the capacity of
the slice (3 rows, capacity 4) and one beyond it, rows, blank rows, context and the question exceed the memory limit of 4 or just do not, and the
nicks contain each other, with brackets and without, one of them made of a separator alone. Two scripts that want one name and three runs give a race for it, a
run doubled by another, and an unload between the two lookups of a command; two unloads overlap with two runs, and one of them may find what the other has left. In `Network` two fetches
overlap, and one fault is enough to break either off between an announcement and its write; `MaxElapsed` of 1 makes `Retry` give up, and the delay of 1 ends its context.

The parts of `Handlers`, and those of `Network`, share no variable. A behaviour is one of one part, chosen at the start,
and the others rest: their interleavings would multiply states and show nothing, since no property speaks of two parts.
`HandlersImplement` and `NetworkImplements` prove that each composition implements the specifications of its parts. Symmetry is used for callers and goroutines where only safety is
checked. `CHECK_DEADLOCK FALSE` is set where the modelled work ends: all saves done, or the clock at its bound.

### Fairness

`FairSpec` of `SpeakScheduler` assumes that time passes, that the loop and a caller that can
return run, and strong fairness for a caller at the channel: Go serves senders parked on a full channel
in the order of their arrival, so none is passed over for ever. `MemoryStore` assumes the same of
its worker and goroutines (the calls to the model have a timeout of 15 seconds, those to the
database are assumed to return). `Swarm` assumes it of speakers, with strong fairness for `FailMu`
(a Go mutex hands over to a waiter that has starved for a millisecond) and weak fairness for the scheduler, by
`EnqueueReturns`. Nothing obliges anyone to talk, save, mute, purge or cancel. `Network` assumes that girc's dial ends, the timers of
the backoff fire, the server registers the bot, the goroutines of the CONNECTED handlers run, fetches end (they have a timeout), the dispatcher's period comes again while there is
a connection, and relays run while the process does. Bounds on
losses and faults are what makes them stop. Nothing obliges anyone to kick the bot or to ask it to join again. Reads of a silent peer are under no fairness: a session ends when one end goes. Weak fairness of `WriteLine`, on which
`SessionEnds` rests, assumes more than the code ensures: that a write to a peer that has stopped reading, but is still connected, ends. `ghost.go:243` sets no deadline, so such a peer may hold
its relay, and with it the session, for as long as TCP lets it. `ContextCache` has
no liveness property: `Caches.Create` has no deadline, so nothing ends a refresh.

### Assumptions of the cache

`CreateDelay + GenDelay <= Margin <= Ttl`: a cache's end is computed from the answer's arrival, not
from its creation, so the margin of 5 minutes has to pay for the delay of the answer and for the
15 seconds of `CallGeminiText`. The code enforces the second and only hopes for the first; `Clock` states it.

## What is proved

tlapm checks these for all values of the constants that meet the named assumptions.

* `SpeakSchedulerProofs!TypeCorrect`: types, the capacity of the queue, the length of each history.
* `SpeakSchedulerProofs!BurstBounded`: `BurstBound`. It is not inductive; `Pacing` says why it holds:
  between two sends the loop consumes one tick, and of two ticks consumed after a send the second
  is a whole cooldown younger. With `TypeOK` it is preserved by every step: `Clock` moves the
  phase and all ages together, and only `SendOk` shifts the ages.
* `SpeakSchedulerProofs!SchedulerKeepsPromise`: the refinement. It needs `OnePlaceEach` (a waiting
  caller is in one place, and not answered) so that serving the head of the line changes the fate of that caller only.
* `SpeakSchedulerProofs!AlwaysPaced`: `Pacing` itself, by the same argument.
* `HandlersProofs!TypeCorrect`, `WindowBounded`, `PruningExact`, about `RateLimiter`: from `Inv`, which adds that
  admissions are numbered apart, that what is kept was admitted and that what was admitted
  within the window is kept. The bound is then the cardinality of the kept set before the call.
* `HandlersProofs!ConvTypeCorrect`, `AnswersFollow`, `MemoryStaysBounded`, `FewRowsReach`, about `Conversation`: from `ConvInv`, whose parts are:
  what is left of a program is ordered, and in two providers the look at the limit comes first (`ProgramsInv`); a handler that is alone in its memory finds
  it as it has read it (`AloneInv`); its question is the last element until it is answered (`AnswersInv`); the memory has room for
  what is left of the exchange (`BoundInv`); and the rows stay until the request is sent (`RowsInv`), because the look before it finds no more than
  them, the context and the question. The lemmas about `Step` say this once for every operation, and the programs are looked at in `ProgramsOrdered` only.
* `HandlersProofs!HandlersImplement`, `HandlersTypeCorrect`, `HandlersKeep`: the composition implements each of its parts, so that what is proved of
  limiter, conversations, plugins and pseudonyms alone holds of it.
* `ContextCacheProofs!TypeCorrect`, `RefreshesExclude`, `RowsSafe`, `CachesUsedInTime`: from `Shape /\ Safe`. What a
  refresher has made is the newest cache (`MadeLast`, thanks to the mutex), its answer is recorded
  within `CreateDelay` (`AnswerInTime`, kept by `Clock`), and so the entry's end never passes that of
  the cache it names by more than `CreateDelay`, or else is the past mark of a counted failure (`EntrySafe`). A generator that has
  found the entry fresh, though the time it read was half written, and then no failure, holds a name that
  outlives `GenDelay` (`Verdict`): caches end in the order in which they were made (`Ordered`), so that a newer name is only better.
* `ContextCacheProofs!BackoffsEnd`: from `Shape` and `MarkIsPast`, which says in addition that the mark of three
  failures is past while any refresher but one that is about to date it is at work.
* `SwarmProofs!TypeCorrect`, `BreakerAlwaysHolds`: from `BreakerInv`. `BreakerHolds` counts failures since the last
  success or unmute; the code's own counter starts again from zero when the breaker trips. What bounds them
  (`CountInv`) is that either the counter has seen them all, or all bots are silent and only the
  replies under way can still fail; `MutexInv` and `SilencingInv` say what `FailMu` and the loop over the bots guarantee meanwhile.
* `SwarmProofs!CallsMatchSpeakers`, `SwarmUsesScheduler`: the swarm is a user of `OutboundQueue` and does nothing else to it; a goroutine has a call
  exactly while it is in `Enqueue`, the line holds each accepted call once, and one message at most is on the wire and not recorded.
* `MemoryStoreProofs!TypeCorrect`, `NoRepetitionIsStored`, `PruneAlwaysKeepsNewest`: from `MemoryInv`. Rows go from the bottom only
  (`DeletesBelow`), so what a goroutine has read of the top stays true: a threshold leaves enough
  above itself or takes nothing (`PruneInv`), and the last row the worker compared with is the last when it inserts (`FreshInv`). The second
  theorem assumes that the worker's SELECT does not fail, for the code inserts all the same when it does.
* `PluginsProofs`: `PluginsTypeCorrect`; `UnloadsStop`, from `Tracked` and `Parted`: `LuaStates` knows each run of the configuration that has entered and goes on, unless the run had
  company or slipped in between a Cancel and a delete, and when an unload is about to delete, those exceptions are all that is left;
  `CommandsCallTheirScripts`, from `WritersSound`, `AskedSound` and `OwnersSound`: while no two scripts have raced for a name, one run at most is about to
  write it, and a command that was asked for keeps the path the run has read; `UnloadedStaysGone`, from `GoneInv`, which counts the commands that
  are left: a script that is not run gets none back.
* `NetworkProofs!NothingIsSkipped`, `OnceIfUndisturbed`, `LossesExplained`: from `FeedInv`, feed by feed and goroutine by goroutine. Neither the database nor a
  goroutine has a time that was not announced (`RowSound`, `FetchSound`); an undisturbed feed has one goroutine at
  most, which has announced up to where it is (`Undisturbed`); a feed that is being fetched has its channel in reach or is recorded in `outside` (`LinkSound`).
  `FeedTypeCorrect` gives the types of `Feed` and of the `Connection` in it: the clock moves `elapsed`, `pause` and `budget` to the next timer, and the
  lemma `PauseAndInterval` says that a jittered pause and a grown interval are numbers of the ranges that the backoff allows.
* `NetworkProofs!GhostTypeCorrect`, `PlainGhostsAreSafe`: from `SessionSound`: only the relay that took the Once closes, and it closes
  `done` before the Once is free for the other, so `done` is closed once; a nil connection comes of TLS only.
* `NetworkProofs!NetworkImplements`, `NetworkTypeCorrect`, `NetworkKeeps`: the composition of both implements each, and keeps what it promises.
* `PrivacyProofs!PrivacyTypeCorrect`, `PseudonymsAlwaysHold`: for all texts, numbers of aliases and orders, and for nicks that meet `NicksAssumption` (below), from `PrivacyInv` (the types, and that
  nothing is meant before there is an answer). In a prompt: a pass of the expression lets no nick stand where none stood
  before, and leaves one only where an alias took the separator it shares with its neighbour, so the second pass
  leaves none; the loop of `sanitize` ends where a pass changes nothing, which it does within the length of the text, since a pass over a text
  in which the nick does not stand changes nothing.
  In an answer: aliases are put back longest first, one occurs only at an `E`, and one that is not longer than another does not begin
  it unless it is the same, since numerals of different numbers differ; so each `E` is read as the alias that was meant.

What `Privacy` computes is recursive, and an induction theorem with an operator as its parameter cannot be used here. The proofs take
the sets of counterexamples instead: a non-empty set of them has a smallest element (`WFMin` over `NatLessThanWellFounded`, or lemma `SetInduction`),
and lemma `Recursion` gives a recursive function its equation from a function that computes an entry from those of a smaller measure.

Only model-checked: all liveness, which needs fairness and is beyond the prover (`EnqueueReturns`, `MemoryLiveness`, `SwarmSilence`,
the temporal properties of `Network`), and the counterexamples of the four runs that expect one. Every invariant and every action property that a passing run checks is a theorem.

The proofs rest on the named assumptions of the modules, which TLC evaluates in the runs, and on nothing else. Those about data rather than
bounds say: the providers are the four that `main.go` knows (`ProvidersAssumption`); a path of a script is not the empty one (`PathAssumption`);
the digits are not separators and differ from each other (`PrivacyAssumption`); and a nick neither contains `Entity_` nor begins with a digit (`NicksAssumption`:
RFC 2812 allows no nick to begin with a digit; it does allow one that contains `Entity_`, and the code does not guard against it, so what is
proved says nothing of a channel with such a nick: one that is like the alias of somebody else stands where that one was masked).

## Where the code and its words part

Four claims of the repository are checked and found violated; `PROJECT.json` ("findings") quotes them.

1. `scheduler.go:23`: `recentMessages` is there "to avoid sending exact duplicates". The check looks only at
   what has been sent, lets go of the lock before the message is queued, and adds a suffix that may be empty or the same again.
2. `README.md:13`: "Exponential back-off". `time.Duration(15 * ...)` is nanoseconds, so the
   backoff has ended when it begins.
3. `config.go:38`: "minimum seconds between bot's own messages". `canSpeak` is asked before the
   reply is generated, `recordSpeak` called when it is sent.
4. `README.md:70`: `millaReconnectDelay` is "How much to wait before reconnecting". It bounds the context
   of all retries instead (`main.go:980`), made once; the bot dials again after the pause of the backoff, or at once.

Seen while modelling, without a run: two consecutive messages may be closer than the cooldown (which
is why `BurstBound` speaks of four messages); the
backoff's product overflows after 62 failures in a row; a mute and an unmute may interleave and leave some bots muted;
a reply under way when the bots are muted is still sent; in the registry, a first-bot key lapses after
two seconds whether or not all bots have asked. A failed dial over TLS ends the process with the first use of the nil
connection, and `connectionTLS` loads a certificate pair even where none is configured. Custom commands with a limit beyond the rows they find ask with blank rows, or
panic. Rows of a custom command that exceed `MemoryLimit` with the context are dropped before the model is asked, and blank rows count as much as the others. Gemini and ChatGPT look at the limit only after an answer. A recap masks a
speaker only from the first row it speaks in, so an older row keeps the name of a later speaker. An unload removes one command of a script
and stops one run of it at most; a run that enters `LuaStates` between its Cancel and its delete is forgotten without having been cancelled, and two unloads at once may end the process with a nil Cancel (`types.go:172`).
Feeds are announced from the TCP connect on, before the bot is in its channels, and what the server refuses is not announced again. The cached memory and the embedded question of a reply go to the API with the nicks in them.

## What is not modelled, and the plan

Not modelled for good: HTTP, TLS and the bindings of the Lua API, pages and titles that the utility bot fetches, `registerTriggeredScript` (exported to no script), tables of
user agents and WHOIS servers, the deduplication of log lines (two maps under mutexes that decide only what is logged), the replies of `/` commands without
state of their own, functions nothing calls (`ExtractFacts`, `SaveUserFact`, `UpdateReputation`).

Left out of what is modelled: triggers, dice and depth of a reply in `Swarm` (a choice); `isSimilar` in `SpeakScheduler` (a constant relation);
rows read for a prompt and the jobs of `LogMessage` in `MemoryStore`; what ends `runIRC` or the process before the first dial in `Connection`
(a certificate or a proxy's address that cannot be used).

What could come next, the most consequential first:

1. The first-bot keys of `registry.go`, and registration by several ircds, which replaces the bots of the same nicks while replies go on with the old ones (in `PROJECT.json` both are hazards without a property).
2. `levenshtein` and `isSimilar` against a reference definition, with words of two letters.
3. A recap whose older row names a later speaker, as a claim that a run refutes.
