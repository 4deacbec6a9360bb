----------------------------- MODULE MemoryStore -----------------------------
(***************************************************************************)
(* The memory of the conspiri bots (conspiri/database.go, summarizer.go):  *)
(* SaveMemory's goroutines, the bounded channel of database jobs, the one  *)
(* worker that runs them, and what follows an insert: a goroutine that     *)
(* counts, summarizes and prunes the rows of its bot, at the same time as  *)
(* the worker and as others of its kind.                                   *)
(*                                                                         *)
(* Every statement of the database is a step. A row is known by its id;    *)
(* the worker inserts in the order of NOW(), so age grows as ids fall.     *)
(***************************************************************************)
EXTENDS Integers, Sequences, FiniteSets

CONSTANTS
  Calls,            \* the calls of SaveMemory: records [n, bot, channel, content]
  Bots,             \* nicks of the bots
  QueueCap,         \* capacity of DBQueue (100)
  SummaryAt,        \* rows from which an insert is followed by a summary (20)
  Keep,             \* rows of a bot that pruneOldMemory keeps (500)
  DbErrors,         \* the statements that may fail
  Cancellable,      \* whether SwarmState.Cancel may be called
  Purging           \* whether any row may come to be older than 30 days

Statements == {"select", "insert", "count", "fetch", "summary", "threshold", "delete"}

ASSUME MemoryAssumption ==
  /\ \A c \in Calls : c.bot \in Bots
  /\ QueueCap \in Nat \ {0}
  /\ SummaryAt \in Nat \ {0}
  /\ Keep \in Nat \ {0}
  /\ DbErrors \subseteq Statements
  /\ Cancellable \in BOOLEAN /\ Purging \in BOOLEAN

VARIABLES
  pc,               \* where each call is, and then the goroutine that follows it
  DBQueue,          \* the channel: jobs [kind, by]
  worker,           \* "idle", "select", "insert", "summary" or "exited"
  job,              \* the job the worker runs, in a sequence of at most one
  draining,         \* the worker has taken ctx.Done()
  cancelled,        \* ctx.Done() is closed
  memory,           \* the table conspiri_memory
  nextId,           \* its sequence of ids
  summary,          \* conspiri_memory_summaries: the newest row summed up, or 0
  mark              \* what a goroutine carries from one statement to the next:
                    \* the newest row its summary has read, then the id it prunes below

vars == <<pc, DBQueue, worker, job, draining, cancelled, memory, nextId, summary,
          mark>>

workerVars == <<worker, job, draining, cancelled>>
tables == <<memory, nextId, summary>>

\* A job of DBQueue, with the newest row that a summary has read.
Job(kind, c, upTo) == [kind |-> kind, by |-> c, upTo |-> upTo]

RowsOf(b) == {r \in memory : r.bot = b}

\* Of a set of rows, those with fewer than n rows above them: ORDER BY id DESC LIMIT n.
Newest(rows, n) == {r \in rows : Cardinality({q \in rows : q.id > r.id}) < n}

Init ==
  /\ pc = [c \in Calls |-> "unused"]
  /\ DBQueue = <<>>
  /\ worker = "idle" /\ job = <<>>
  /\ draining = FALSE /\ cancelled = FALSE
  /\ memory = {} /\ nextId = 1
  /\ summary = [b \in Bots |-> 0]
  /\ mark = [c \in Calls |-> 0]

GoTo(c, from, to) ==
  /\ pc[c] = from
  /\ pc' = [pc EXCEPT ![c] = to]

MayFail(statement) == statement \in DbErrors
-----------------------------------------------------------------------------
(***************************************************************************)
(* SaveMemory.                                                             *)
(***************************************************************************)

\* SaveMemory: go func(), which first gets an embedding or does without one.
SaveMemory(c) ==
  /\ GoTo(c, "unused", "offer")
  /\ UNCHANGED <<DBQueue, workerVars, tables, mark>>

\* state.DBQueue <- func(): waits for room.
Offer(c) ==
  /\ Len(DBQueue) < QueueCap
  /\ GoTo(c, "offer", "queued")
  /\ DBQueue' = Append(DBQueue, Job("memory", c, 0))
  /\ UNCHANGED <<workerVars, tables, mark>>
-----------------------------------------------------------------------------
(***************************************************************************)
(* The worker.                                                             *)
(***************************************************************************)

\* case job := <-s.DBQueue, of either select.
Take ==
  /\ worker = "idle"
  /\ DBQueue # <<>>
  /\ job' = <<Head(DBQueue)>>
  /\ DBQueue' = Tail(DBQueue)
  /\ worker' = IF Head(DBQueue).kind = "memory" THEN "select" ELSE "summary"
  /\ UNCHANGED <<pc, draining, cancelled, tables, mark>>

JobDone == worker' = "idle" /\ job' = <<>>

\* Mutant of Repeats: the oldest row is compared, not the newest.
RepeatsOldest(c) ==
  LET before == {r \in memory : r.bot = c.bot /\ r.channel = c.channel} IN
    \E r \in before : r.content = c.content /\ \A q \in before : r.id <= q.id

\* A call whose content is that of the last row of its bot and channel.
Repeats(c) ==
  LET before == {r \in memory : r.bot = c.bot /\ r.channel = c.channel} IN
    \E r \in Newest(before, 1) : r.content = c.content

\* SELECT content ... LIMIT 1: a repetition ends the job; without a row, and
\* after an error, the job goes on to insert.
SelectLast ==
  /\ worker = "select"
  /\ LET c == job[1].by IN
       \/ /\ Repeats(c)
          /\ JobDone
          /\ GoTo(c, "queued", "done")
       \/ /\ ~Repeats(c) \/ MayFail("select")
          /\ worker' = "insert"
          /\ UNCHANGED <<pc, job>>
  /\ UNCHANGED <<DBQueue, draining, cancelled, tables, mark>>

\* Mutant of InsertRow: two rows get the same id.
InsertRowSameId ==
  /\ worker = "insert"
  /\ LET c == job[1].by IN
       /\ GoTo(c, "queued", "count")
       /\ memory' = memory \union
            {[id |-> nextId, bot |-> c.bot, channel |-> c.channel, content |-> c.content]}
  /\ JobDone
  /\ UNCHANGED <<DBQueue, draining, cancelled, nextId, summary, mark>>

\* INSERT INTO conspiri_memory, then go func(): count and summarize.
InsertRow ==
  /\ worker = "insert"
  /\ LET c == job[1].by IN
       /\ GoTo(c, "queued", "count")
       /\ memory' = memory \union
            {[id |-> nextId, bot |-> c.bot, channel |-> c.channel, content |-> c.content]}
  /\ nextId' = nextId + 1
  /\ JobDone
  /\ UNCHANGED <<DBQueue, draining, cancelled, summary, mark>>

InsertError ==
  /\ worker = "insert"
  /\ MayFail("insert")
  /\ GoTo(job[1].by, "queued", "done")
  /\ JobDone
  /\ UNCHANGED <<DBQueue, draining, cancelled, tables, mark>>

\* Mutant of StoreSummary: a failing job takes the worker with it.
StoreSummaryFatal ==
  /\ worker = "summary"
  /\ \/ summary' = [summary EXCEPT ![job[1].by.bot] = job[1].upTo] /\ worker' = "idle"
     \/ MayFail("summary") /\ worker' = "exited" /\ UNCHANGED summary
  /\ job' = <<>>
  /\ UNCHANGED <<pc, DBQueue, draining, cancelled, memory, nextId, mark>>

\* INSERT ... ON CONFLICT DO UPDATE of SaveSummary's job; an error is logged.
StoreSummary ==
  /\ worker = "summary"
  /\ \/ summary' = [summary EXCEPT ![job[1].by.bot] = job[1].upTo]
     \/ MayFail("summary") /\ UNCHANGED summary
  /\ JobDone
  /\ UNCHANGED <<pc, DBQueue, draining, cancelled, memory, nextId, mark>>

\* case <-ctx.Done(): from now on the worker only drains the queue.
StartDraining ==
  /\ worker = "idle"
  /\ cancelled
  /\ ~draining
  /\ draining' = TRUE
  /\ UNCHANGED <<pc, DBQueue, worker, job, cancelled, tables, mark>>

\* Mutant of WorkerExit: the worker returns without draining the queue.
WorkerExitEarly ==
  /\ worker = "idle"
  /\ draining
  /\ worker' = "exited"
  /\ UNCHANGED <<pc, DBQueue, job, draining, cancelled, tables, mark>>

\* default: return, when the worker drains and finds the queue empty.
WorkerExit ==
  /\ worker = "idle"
  /\ draining
  /\ DBQueue = <<>>
  /\ worker' = "exited"
  /\ UNCHANGED <<pc, DBQueue, job, draining, cancelled, tables, mark>>
-----------------------------------------------------------------------------
(***************************************************************************)
(* What follows an insert: SummarizeAndStore and pruneOldMemory.           *)
(***************************************************************************)

\* GetMemoryCount; an error counts as 0.
Count(c) ==
  /\ \/ /\ Cardinality(RowsOf(c.bot)) >= SummaryAt
        /\ GoTo(c, "count", "fetch")
     \/ /\ Cardinality(RowsOf(c.bot)) < SummaryAt \/ MayFail("count")
        /\ GoTo(c, "count", "done")
  /\ UNCHANGED <<DBQueue, workerVars, tables, mark>>

\* The rows to summarize; without any, or after an error, there is no summary.
\* With them there is one in any case: the fallback needs no CallGeminiText.
Fetch(c) ==
  /\ \/ /\ \E r \in Newest(RowsOf(c.bot), 1) : mark' = [mark EXCEPT ![c] = r.id]
        /\ GoTo(c, "fetch", "offerSummary")
     \/ /\ RowsOf(c.bot) = {} \/ MayFail("fetch")
        /\ GoTo(c, "fetch", "done")
        /\ UNCHANGED mark
  /\ UNCHANGED <<DBQueue, workerVars, tables>>

\* SaveSummary: state.DBQueue <- func(); then go pruneOldMemory.
OfferSummary(c) ==
  /\ Len(DBQueue) < QueueCap
  /\ GoTo(c, "offerSummary", "prune")
  /\ DBQueue' = Append(DBQueue, Job("summary", c, mark[c]))
  /\ mark' = [mark EXCEPT ![c] = 0]
  /\ UNCHANGED <<workerVars, tables>>

\* Mutant of PruneSelect: OFFSET keep, one row too far down.
PruneSelectLate(c) ==
  /\ \/ /\ \E r \in RowsOf(c.bot) :
             /\ Cardinality({q \in RowsOf(c.bot) : q.id > r.id}) = Keep
             /\ mark' = [mark EXCEPT ![c] = r.id]
        /\ GoTo(c, "prune", "delete")
     \/ /\ Cardinality(RowsOf(c.bot)) <= Keep \/ MayFail("threshold")
        /\ GoTo(c, "prune", "done")
        /\ UNCHANGED mark
  /\ UNCHANGED <<DBQueue, workerVars, tables>>

\* SELECT id ... LIMIT 1 OFFSET keep-1: the Keep-th newest row, if there is one.
PruneSelect(c) ==
  /\ \/ /\ \E r \in Newest(RowsOf(c.bot), Keep) :
             /\ Cardinality({q \in RowsOf(c.bot) : q.id > r.id}) = Keep - 1
             /\ mark' = [mark EXCEPT ![c] = r.id]
        /\ GoTo(c, "prune", "delete")
     \/ /\ Cardinality(RowsOf(c.bot)) < Keep \/ MayFail("threshold")
        /\ GoTo(c, "prune", "done")
        /\ UNCHANGED mark
  /\ UNCHANGED <<DBQueue, workerVars, tables>>

\* Mutant of PruneDelete: the row of the threshold goes too.
PruneDeleteInclusive(c) ==
  /\ GoTo(c, "delete", "done")
  /\ \/ memory' = {r \in memory : ~(r.bot = c.bot /\ r.id <= mark[c])}
     \/ MayFail("delete") /\ UNCHANGED memory
  /\ mark' = [mark EXCEPT ![c] = 0]
  /\ UNCHANGED <<DBQueue, workerVars, nextId, summary>>

\* DELETE ... WHERE bot_nick = $1 AND id < $2
PruneDelete(c) ==
  /\ GoTo(c, "delete", "done")
  /\ \/ memory' = {r \in memory : ~(r.bot = c.bot /\ r.id < mark[c])}
     \/ MayFail("delete") /\ UNCHANGED memory
  /\ mark' = [mark EXCEPT ![c] = 0]
  /\ UNCHANGED <<DBQueue, workerVars, nextId, summary>>
-----------------------------------------------------------------------------
\* runCleanup: the rows older than 30 days go, whatever their bot; which rows
\* these are depends on how time has passed between the inserts.
Purge ==
  /\ Purging
  /\ \E oldest \in 1..nextId : memory' = {r \in memory : r.id >= oldest}
  /\ UNCHANGED <<pc, DBQueue, workerVars, nextId, summary, mark>>

Cancel ==
  /\ Cancellable
  /\ ~cancelled
  /\ cancelled' = TRUE
  /\ UNCHANGED <<pc, DBQueue, worker, job, draining, tables, mark>>
-----------------------------------------------------------------------------
RunJob == Take \/ SelectLast \/ InsertRow \/ InsertError \/ StoreSummary

Worker == RunJob \/ StartDraining \/ WorkerExit

Follow(c) == Count(c) \/ Fetch(c) \/ PruneSelect(c) \/ PruneDelete(c)

Goroutine(c) == SaveMemory(c) \/ Offer(c) \/ Follow(c) \/ OfferSummary(c)

Next == Worker \/ Purge \/ Cancel \/ \E c \in Calls : Goroutine(c)

Spec == Init /\ [][Next]_vars

\* The runtime runs every goroutine that can run; calls to the model and to
\* the database return; the senders parked on the channel are served in the
\* order of their arrival. Nobody is obliged to save, to purge or to cancel.
FairSpec ==
  /\ Spec
  /\ WF_vars(Worker)
  /\ \A c \in Calls : /\ WF_vars(Follow(c))
                      /\ SF_vars(Offer(c)) /\ SF_vars(OfferSummary(c))
-----------------------------------------------------------------------------
(***************************************************************************)
(* Properties.                                                             *)
(***************************************************************************)
Places == {"unused", "offer", "queued", "count", "fetch", "offerSummary", "prune",
           "delete", "done"}

Ids == 0..(nextId - 1)

Jobs == [kind : {"memory", "summary"}, by : Calls, upTo : Ids]

\* The values of the variables; ids are unique and below nextId.
TypeOK ==
  /\ pc \in [Calls -> Places]
  /\ DBQueue \in Seq(Jobs) /\ Len(DBQueue) <= QueueCap
  /\ \/ worker \in {"idle", "exited"} /\ job = <<>>
     \/ worker \in {"select", "insert"} /\ \E j \in Jobs : job = <<j>> /\ j.kind = "memory"
     \/ worker = "summary" /\ \E j \in Jobs : job = <<j>> /\ j.kind = "summary"
  /\ draining \in BOOLEAN /\ cancelled \in BOOLEAN
  /\ nextId \in Nat
  /\ \A r \in memory : r.id \in 1..(nextId - 1)
  /\ \A r, q \in memory : r.id = q.id => r = q
  /\ summary \in [Bots -> Ids]
  /\ mark \in [Calls -> Ids]

\* Unless the SELECT of SaveMemory may fail, two consecutive rows of a bot on
\* a channel never say the same (database.go:250-257): the check and the
\* insert are two statements, but nothing else inserts between them, and
\* pruning and purging only take the oldest rows.
NoAdjacentDuplicates ==
  \A r, q \in memory :
    /\ r.id < q.id
    /\ r.bot = q.bot /\ r.channel = q.channel
    /\ r.content = q.content
    => \E p \in memory : /\ r.id < p.id /\ p.id < q.id
                         /\ p.bot = r.bot /\ p.channel = r.channel

\* Between the SELECT and the DELETE of pruneOldMemory rows come and go; the
\* DELETE still never takes one of the Keep newest rows of its bot, nor any
\* row of another bot (summarizer.go:84, "keeps only the most recent keep rows").
PruneKeepsNewest ==
  [][\A c \in Calls : PruneDelete(c) =>
       /\ Newest(RowsOf(c.bot), Keep) \subseteq memory'
       /\ memory \ RowsOf(c.bot) \subseteq memory']_vars

\* A job accepted before the worker has returned is run, also when the context
\* is cancelled (database.go:58, "Shutdown worker and drain queue linearly").
Accepted(kind, c) ==
  \E i \in DOMAIN DBQueue : DBQueue[i].kind = kind /\ DBQueue[i].by = c

AcceptedJobsRun ==
  \A c \in Calls, kind \in {"memory", "summary"} :
    Accepted(kind, c) /\ worker # "exited" ~> ~Accepted(kind, c)

\* When nothing is saved any more, every bot is left with at most Keep rows:
\* the prune that follows the last insert has seen all rows. A cancelled worker
\* leaves the goroutines that still have something to offer where they are. This is of
\* configurations in which "count", "fetch", "threshold" and "delete" are not in DbErrors:
\* where one of them fails the rows wait for the prune of another insert.
PrunedInTheEnd == <>[](cancelled \/ \A b \in Bots : Cardinality(RowsOf(b)) <= Keep)

\* A save never waits for ever for a place in the queue: what follows an
\* insert waits in goroutines of its own, never in the worker.
SavesFinish == \A c \in Calls : pc[c] # "unused" ~> pc[c] = "done" \/ cancelled
=============================================================================
