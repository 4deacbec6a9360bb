------------------------- MODULE MemoryStoreProofs -------------------------
(***************************************************************************)
(* Proofs about MemoryStore, for any calls, bots, capacity and limits, and *)
(* whatever statements fail.                                               *)
(*                                                                         *)
(* Both properties rest on the same fact: rows go from the bottom only, so *)
(* that what one goroutine has read of the top of the table stays true     *)
(* while others insert, prune and purge.                                   *)
(***************************************************************************)
EXTENDS MemoryStore, FiniteSetTheorems, SequenceTheorems, TLAPS

USE MemoryAssumption

\* The rows that a prune means to keep.
Above(c) == {q \in RowsOf(c.bot) : q.id >= mark[c]}

\* Between its SELECT and its DELETE: there is nothing to delete, or enough is kept.
PruneInv ==
  \A c \in Calls : pc[c] = "delete" =>
    (\A r \in RowsOf(c.bot) : r.id >= mark[c]) \/ Cardinality(Above(c)) >= Keep

\* Between the SELECT of the worker and its INSERT, unless the SELECT failed.
FreshInv ==
  "select" \notin DbErrors =>
    /\ worker = "insert" => ~Repeats(job[1].by)
    /\ NoAdjacentDuplicates

MemoryInv == TypeOK /\ IsFiniteSet(memory) /\ PruneInv /\ FreshInv

\* A DELETE: rows go, and of each bot none that is above a row that stays.
DeletesBelow ==
  /\ memory' \subseteq memory
  /\ \A r \in memory', q \in memory : q.bot = r.bot /\ q.id > r.id => q \in memory'
-----------------------------------------------------------------------------
LEMMA RowIds ==
  ASSUME TypeOK, NEW r \in memory
  PROVE  r.id \in Nat /\ r.id < nextId /\ nextId \in Nat
  BY DEF TypeOK

LEMMA FiniteRows ==
  ASSUME IsFiniteSet(memory), NEW S, S \subseteq memory
  PROVE  IsFiniteSet(S) /\ Cardinality(S) \in Nat
  BY FS_Subset, FS_CardinalityType

\* Without a repetition, a row that says the same has another above it.
LEMMA RepeatedBelow ==
  ASSUME IsFiniteSet(memory), NEW c \in Calls, ~Repeats(c),
         NEW r \in memory, r.bot = c.bot, r.channel = c.channel, r.content = c.content
  PROVE  \E q \in memory : q.bot = c.bot /\ q.channel = c.channel /\ q.id > r.id
<1> DEFINE before == {q \in memory : q.bot = c.bot /\ q.channel = c.channel}
           above == {q \in before : q.id > r.id}
<1>1. r \in before /\ r \notin Newest(before, 1)
  BY DEF Repeats
<1>2. ~(Cardinality(above) < 1)
  BY <1>1, Zenon DEF Newest
<1> HIDE DEF above
<1>3. above # {}
  <2>1. Cardinality({}) = 0
    BY FS_EmptySet, Zenon
  <2> QED
    BY <1>2, <2>1
<1> QED
  BY <1>3 DEF above

\* Rows gone from the bottom do not make a row that was said new into a repetition.
LEMMA StaysFresh ==
  ASSUME IsFiniteSet(memory), NEW c \in Calls, ~Repeats(c), DeletesBelow
  PROVE  ~Repeats(c)'
<1> DEFINE before == {q \in memory : q.bot = c.bot /\ q.channel = c.channel}
           above(r) == {q \in before : q.id > r.id}
<1> SUFFICES ASSUME Repeats(c)' PROVE FALSE
  OBVIOUS
<1>1. PICK r \in Newest(before', 1) : r.content = c.content
  BY DEF Repeats
<1>2. r \in before' /\ r \in memory
  BY <1>1 DEF Newest, DeletesBelow
<1>3. above(r)' = above(r)
  BY <1>2 DEF DeletesBelow
<1>4. r \in Newest(before, 1)
  <2>1. Cardinality({q \in before' : q.id > r.id}) < 1
    BY <1>1 DEF Newest
  <2>2. {q \in before' : q.id > r.id} = {q \in before : q.id > r.id}
    BY <1>3
  <2> QED
    BY <1>2, <2>1, <2>2 DEF Newest
<1> QED
  BY <1>1, <1>4 DEF Repeats

LEMMA StaysDistinct ==
  ASSUME NoAdjacentDuplicates, DeletesBelow
  PROVE  NoAdjacentDuplicates'
  BY DEF NoAdjacentDuplicates, DeletesBelow

LEMMA StaysKept ==
  ASSUME TypeOK, IsFiniteSet(memory), DeletesBelow, NEW c \in Calls, mark'[c] = mark[c],
         (\A r \in RowsOf(c.bot) : r.id >= mark[c]) \/ Cardinality(Above(c)) >= Keep
  PROVE  ((\A r \in RowsOf(c.bot) : r.id >= mark[c]) \/ Cardinality(Above(c)) >= Keep)'
<1>1. mark[c] \in Nat /\ \A r \in memory : r.id \in Nat
  BY DEF TypeOK, Ids
<1>2. CASE \A r \in RowsOf(c.bot) : r.id >= mark[c]
  BY <1>2 DEF RowsOf, DeletesBelow
<1>3. CASE \E r \in RowsOf(c.bot)' : ~(r.id >= mark[c])
  <2>1. Above(c)' = Above(c)
    BY <1>1, <1>3 DEF Above, RowsOf, DeletesBelow
  <2> QED
    BY <1>2, <2>1
<1> QED
  BY <1>2, <1>3
-----------------------------------------------------------------------------
LEMMA InitInv == Init => MemoryInv
<1> SUFFICES ASSUME Init PROVE MemoryInv
  OBVIOUS
<1>1. TypeOK
  <2>1. 0 \in Ids /\ nextId \in Nat
    BY DEF Init, Ids
  <2>2. DBQueue \in Seq(Jobs) /\ Len(DBQueue) <= QueueCap
    BY DEF Init
  <2> QED
    BY <2>1, <2>2 DEF Init, TypeOK, Places
<1>2. IsFiniteSet(memory)
  BY FS_EmptySet DEF Init
<1>3. PruneInv /\ FreshInv
  BY DEF Init, PruneInv, FreshInv, NoAdjacentDuplicates
<1> QED
  BY <1>1, <1>2, <1>3 DEF MemoryInv

\* A DELETE keeps the invariant, whatever its goroutine does next.
LEMMA DeleteInv ==
  ASSUME MemoryInv, DeletesBelow, UNCHANGED <<DBQueue, workerVars, nextId, summary>>,
         pc' \in [Calls -> Places], mark' \in [Calls -> Ids],
         \A c \in Calls : pc'[c] = "delete" => pc[c] = "delete" /\ mark'[c] = mark[c]
  PROVE  MemoryInv'
<1>1. TypeOK /\ IsFiniteSet(memory)
  BY DEF MemoryInv
<1>2. TypeOK'
  BY <1>1 DEF TypeOK, workerVars, DeletesBelow, Ids, Jobs
<1>3. IsFiniteSet(memory')
  BY <1>1, FS_Subset DEF DeletesBelow
<1>4. PruneInv'
  <2> SUFFICES ASSUME NEW c \in Calls, pc'[c] = "delete"
               PROVE  ((\A r \in RowsOf(c.bot) : r.id >= mark[c]) \/ Cardinality(Above(c)) >= Keep)'
    BY DEF PruneInv
  <2>1. (\A r \in RowsOf(c.bot) : r.id >= mark[c]) \/ Cardinality(Above(c)) >= Keep
    BY DEF MemoryInv, PruneInv
  <2> QED
    BY <1>1, <2>1, StaysKept
<1>5. FreshInv'
  <2> SUFFICES ASSUME "select" \notin DbErrors
               PROVE  (worker' = "insert" => ~Repeats(job[1].by)') /\ NoAdjacentDuplicates'
    BY DEF FreshInv
  <2>1. ASSUME worker' = "insert" PROVE ~Repeats(job[1].by)'
    <3>1. PICK c \in Calls : c = job[1].by
      BY <1>1, <2>1 DEF TypeOK, workerVars, Jobs
    <3>2. ~Repeats(c)
      BY <2>1, <3>1 DEF MemoryInv, FreshInv, workerVars
    <3> QED
      BY <1>1, <3>1, <3>2, StaysFresh DEF workerVars
  <2> QED
    BY <2>1, StaysDistinct DEF MemoryInv, FreshInv
<1> QED
  BY <1>2, <1>3, <1>4, <1>5 DEF MemoryInv

LEMMA PurgeInv == ASSUME MemoryInv, Purge PROVE MemoryInv'
<1>1. DeletesBelow
  <2>1. PICK oldest \in 1..nextId : memory' = {r \in memory : r.id >= oldest}
    BY DEF Purge
  <2>2. oldest \in Nat /\ \A r \in memory : r.id \in Nat
    BY <2>1 DEF MemoryInv, TypeOK
  <2> QED
    BY <2>1, <2>2 DEF DeletesBelow
<1> QED
  BY <1>1, DeleteInv DEF Purge, MemoryInv, TypeOK

LEMMA PruneDeleteInv == ASSUME MemoryInv, NEW c \in Calls, PruneDelete(c) PROVE MemoryInv'
<1>1. mark[c] \in Nat /\ nextId \in Nat /\ nextId # 0 /\ \A r \in memory : r.id \in Nat
  BY DEF MemoryInv, TypeOK, Ids
<1>2. DeletesBelow
  BY <1>1 DEF PruneDelete, DeletesBelow
<1>3. /\ pc' = [pc EXCEPT ![c] = "done"] /\ mark' = [mark EXCEPT ![c] = 0]
      /\ UNCHANGED <<DBQueue, workerVars, nextId, summary>>
  BY DEF PruneDelete, GoTo
<1>4. pc' \in [Calls -> Places] /\ mark' \in [Calls -> Ids]
  BY <1>1, <1>3 DEF MemoryInv, TypeOK, Places, Ids
<1> QED
  BY <1>2, <1>3, <1>4, DeleteInv DEF MemoryInv, TypeOK
-----------------------------------------------------------------------------
\* A step that leaves the rows and their ids alone, and comes to no DELETE and no INSERT.
LEMMA SameRows ==
  ASSUME MemoryInv, TypeOK', memory' = memory,
         \A c \in Calls : pc'[c] = "delete" => pc[c] = "delete" /\ mark'[c] = mark[c],
         worker' = "insert" => worker = "insert" /\ job' = job
  PROVE  MemoryInv'
<1>1. PruneInv'
  BY DEF MemoryInv, PruneInv, RowsOf, Above
<1>2. FreshInv'
  <2> SUFFICES ASSUME "select" \notin DbErrors
               PROVE  (worker' = "insert" => ~Repeats(job[1].by)') /\ NoAdjacentDuplicates'
    BY DEF FreshInv
  <2>1. ASSUME worker' = "insert" PROVE ~Repeats(job[1].by)'
    BY <2>1 DEF MemoryInv, FreshInv, Repeats, Newest
  <2>2. NoAdjacentDuplicates'
    BY DEF MemoryInv, FreshInv, NoAdjacentDuplicates
  <2> QED
    BY <2>1, <2>2
<1> QED
  BY <1>1, <1>2 DEF MemoryInv

\* The goroutines' steps that only move them, or what they carry, along.
LEMMA MovesType ==
  ASSUME TypeOK, NEW c \in Calls, NEW to \in Places, pc' = [pc EXCEPT ![c] = to],
         NEW m \in Ids, mark' = mark \/ mark' = [mark EXCEPT ![c] = m],
         UNCHANGED <<DBQueue, workerVars, tables>>
  PROVE  TypeOK'
<1>1. pc' \in [Calls -> Places] /\ mark' \in [Calls -> Ids]
  BY DEF TypeOK
<1>2. Ids' = Ids /\ Jobs' = Jobs
  BY DEF tables, Ids, Jobs
<1> QED
  BY <1>1, <1>2 DEF TypeOK, workerVars, tables

\* A job joins the queue.
LEMMA OffersType ==
  ASSUME TypeOK, NEW c \in Calls, NEW to \in Places, pc' = [pc EXCEPT ![c] = to],
         NEW j \in Jobs, DBQueue' = Append(DBQueue, j), Len(DBQueue) < QueueCap,
         mark' = mark \/ mark' = [mark EXCEPT ![c] = 0],
         UNCHANGED <<workerVars, tables>>
  PROVE  TypeOK'
<1>0. 0 \in Ids
  BY DEF TypeOK, Ids
<1>1. pc' \in [Calls -> Places] /\ mark' \in [Calls -> Ids]
  BY <1>0 DEF TypeOK
<1>2. Ids' = Ids /\ Jobs' = Jobs
  BY DEF tables, Ids, Jobs
<1>3. DBQueue' \in Seq(Jobs) /\ Len(DBQueue') <= QueueCap
  BY AppendProperties DEF TypeOK
<1> QED
  BY <1>1, <1>2, <1>3 DEF TypeOK, workerVars, tables

LEMMA OffersInv ==
  ASSUME MemoryInv, NEW c \in Calls, SaveMemory(c) \/ Offer(c) \/ OfferSummary(c)
  PROVE  MemoryInv'
<1>1. TypeOK /\ 0 \in Ids
  BY DEF MemoryInv, TypeOK, Ids
<1>2. CASE SaveMemory(c)
  <2>1. TypeOK'
    BY <1>1, <1>2, MovesType DEF SaveMemory, GoTo, Places
  <2> QED
    BY <1>1, <1>2, <2>1, SameRows DEF SaveMemory, GoTo, TypeOK, workerVars, tables
<1>3. CASE Offer(c)
  <2>1. Job("memory", c, 0) \in Jobs
    BY <1>1 DEF Job, Jobs
  <2>2. TypeOK'
    BY <1>1, <1>3, <2>1, OffersType DEF Offer, GoTo, Places
  <2> QED
    BY <1>1, <1>3, <2>2, SameRows DEF Offer, GoTo, TypeOK, workerVars, tables
<1>4. CASE OfferSummary(c)
  <2>1. Job("summary", c, mark[c]) \in Jobs
    BY <1>1 DEF Job, Jobs, TypeOK
  <2>2. TypeOK'
    BY <1>1, <1>4, <2>1, OffersType DEF OfferSummary, GoTo, Places
  <2> QED
    BY <1>1, <1>4, <2>2, SameRows DEF OfferSummary, GoTo, TypeOK, workerVars, tables
<1> QED
  BY <1>2, <1>3, <1>4

LEMMA CountInv ==
  ASSUME MemoryInv, NEW c \in Calls, Count(c)
  PROVE  MemoryInv'
<1>1. TypeOK /\ 0 \in Ids
  BY DEF MemoryInv, TypeOK, Ids
<1>2. PICK to \in {"fetch", "done"} : pc' = [pc EXCEPT ![c] = to]
  BY DEF Count, GoTo
<1>3. TypeOK'
  BY <1>1, <1>2, MovesType DEF Count, Places
<1> QED
  BY <1>1, <1>2, <1>3, SameRows DEF Count, TypeOK, workerVars, tables

LEMMA FetchInv ==
  ASSUME MemoryInv, NEW c \in Calls, Fetch(c)
  PROVE  MemoryInv'
<1>1. TypeOK /\ 0 \in Ids
  BY DEF MemoryInv, TypeOK, Ids
<1>2. PICK to \in {"offerSummary", "done"} : pc' = [pc EXCEPT ![c] = to]
  BY DEF Fetch, GoTo
<1>3. \E m \in Ids : mark' = mark \/ mark' = [mark EXCEPT ![c] = m]
  <2>1. \A r \in Newest(RowsOf(c.bot), 1) : r.id \in Ids
    BY <1>1 DEF TypeOK, Newest, RowsOf, Ids
  <2> QED
    BY <1>1, <2>1 DEF Fetch
<1>4. UNCHANGED <<DBQueue, workerVars, tables>>
  BY DEF Fetch
<1>5. TypeOK'
  BY <1>1, <1>2, <1>3, <1>4, MovesType DEF Places
<1>6. \A d \in Calls : pc'[d] = "delete" => pc[d] = "delete" /\ mark'[d] = mark[d]
  BY <1>1, <1>2, <1>3 DEF TypeOK
<1> QED
  BY <1>4, <1>5, <1>6, SameRows DEF workerVars, tables

\* The SELECT of pruneOldMemory: Keep rows have that id or a higher one.
LEMMA PruneSelectInv ==
  ASSUME MemoryInv, NEW c \in Calls, PruneSelect(c)
  PROVE  MemoryInv'
<1>1. TypeOK /\ 0 \in Ids /\ IsFiniteSet(memory)
  BY DEF MemoryInv, TypeOK, Ids
<1>2. UNCHANGED <<DBQueue, workerVars, tables>>
  BY DEF PruneSelect
<1>3. CASE GoTo(c, "prune", "done") /\ UNCHANGED mark
  <2>1. TypeOK'
    BY <1>1, <1>2, <1>3, MovesType DEF GoTo, Places
  <2> QED
    BY <1>1, <1>2, <1>3, <2>1, SameRows DEF GoTo, TypeOK, workerVars, tables
<1>4. ASSUME NEW r \in Newest(RowsOf(c.bot), Keep), mark' = [mark EXCEPT ![c] = r.id],
             Cardinality({q \in RowsOf(c.bot) : q.id > r.id}) = Keep - 1, GoTo(c, "prune", "delete")
      PROVE  MemoryInv'
  <2> DEFINE over == {q \in RowsOf(c.bot) : q.id > r.id}
  <2>1. r \in memory /\ r \in RowsOf(c.bot) /\ r.id \in Ids
    BY <1>1 DEF Newest, RowsOf, TypeOK, Ids
  <2>2. pc' = [pc EXCEPT ![c] = "delete"]
    BY <1>4 DEF GoTo
  <2>3. TypeOK'
    BY <1>1, <1>2, <1>4, <2>1, <2>2, MovesType DEF Places
  <2>4. mark'[c] = r.id /\ \A d \in Calls : d # c => mark'[d] = mark[d] /\ pc'[d] = pc[d]
    BY <1>1, <1>4, <2>2 DEF TypeOK
  <2>5. Above(c)' = over \union {r}
    <3>1. Above(c)' = {q \in RowsOf(c.bot) : q.id >= r.id}
      BY <1>2, <2>4 DEF Above, RowsOf, tables
    <3>2. \A q \in RowsOf(c.bot) : q.id \in Nat /\ r.id \in Nat /\ (q.id = r.id => q = r)
      BY <1>1, <2>1 DEF RowsOf, TypeOK
    <3>3. \A q \in RowsOf(c.bot) : q.id >= r.id <=> (q.id > r.id \/ q = r)
      BY <3>2
    <3> QED
      BY <2>1, <3>1, <3>3
  <2>6. Cardinality(Above(c)') = Keep
    <3>1. IsFiniteSet(over) /\ r \notin over
      BY <1>1, <2>1, FiniteRows DEF RowsOf, TypeOK
    <3>2. Cardinality(over \union {r}) = Cardinality(over) + 1
      BY <3>1, FS_AddElement
    <3> QED
      BY <1>4, <2>5, <3>2
  <2>7. PruneInv'
    <3> SUFFICES ASSUME NEW d \in Calls, pc'[d] = "delete"
                 PROVE  ((\A q \in RowsOf(d.bot) : q.id >= mark[d]) \/ Cardinality(Above(d)) >= Keep)'
      BY DEF PruneInv
    <3>1. CASE d = c
      BY <2>6, <3>1
    <3>2. CASE d # c
      BY <1>2, <2>4, <3>2 DEF MemoryInv, PruneInv, RowsOf, Above, tables
    <3> QED
      BY <3>1, <3>2
  <2>8. FreshInv'
    BY <1>2 DEF MemoryInv, FreshInv, Repeats, Newest, NoAdjacentDuplicates, workerVars, tables
  <2> QED
    BY <1>1, <1>2, <2>3, <2>7, <2>8 DEF MemoryInv, tables
<1> QED
  BY <1>3, <1>4 DEF PruneSelect
-----------------------------------------------------------------------------
\* The job that the worker runs.
LEMMA JobOfWorker ==
  ASSUME TypeOK, worker \in {"select", "insert", "summary"}
  PROVE  \E j \in Jobs : job = <<j>> /\ job[1] = j /\ j.by \in Calls /\ j.by.bot \in Bots /\ j.upTo \in Ids
  BY DEF TypeOK, Jobs

\* A job ends, or another begins; the queue may be shorter by it.
LEMMA WorkerType ==
  ASSUME TypeOK, UNCHANGED <<tables, mark>>, pc' \in [Calls -> Places],
         DBQueue' \in Seq(Jobs), Len(DBQueue') <= QueueCap,
         draining' \in BOOLEAN, cancelled' \in BOOLEAN,
         \/ worker' \in {"idle", "exited"} /\ job' = <<>>
         \/ worker' \in {"select", "insert"} /\ \E j \in Jobs : job' = <<j>> /\ j.kind = "memory"
         \/ worker' = "summary" /\ \E j \in Jobs : job' = <<j>> /\ j.kind = "summary"
  PROVE  TypeOK'
<1>1. Ids' = Ids /\ Jobs' = Jobs
  BY DEF tables, Ids, Jobs
<1> QED
  BY <1>1 DEF TypeOK, tables

LEMMA TakeInv == ASSUME MemoryInv, Take PROVE MemoryInv'
<1>1. TypeOK /\ DBQueue # <<>>
  BY DEF MemoryInv, Take
<1>2. Head(DBQueue) \in Jobs /\ Tail(DBQueue) \in Seq(Jobs) /\ Len(Tail(DBQueue)) <= QueueCap
  <2>1. DBQueue \in Seq(Jobs) /\ Len(DBQueue) <= QueueCap
    BY <1>1 DEF TypeOK
  <2>2. Len(DBQueue) \in Nat /\ Len(Tail(DBQueue)) = Len(DBQueue) - 1 /\ QueueCap \in Nat
    BY <1>1, <2>1, HeadTailProperties
  <2> QED
    BY <1>1, <2>1, <2>2, HeadTailProperties
<1>3. Head(DBQueue).kind \in {"memory", "summary"}
  BY <1>2 DEF Jobs
<1>4. UNCHANGED <<pc, draining, cancelled, tables, mark>> /\ DBQueue' = Tail(DBQueue) /\ job' = <<Head(DBQueue)>>
  BY DEF Take
<1>5. \/ worker' = "select" /\ Head(DBQueue).kind = "memory"
      \/ worker' = "summary" /\ Head(DBQueue).kind = "summary"
  BY <1>3 DEF Take
<1>6. TypeOK'
  <2>1. pc' \in [Calls -> Places] /\ draining' \in BOOLEAN /\ cancelled' \in BOOLEAN
    BY <1>1, <1>4 DEF TypeOK
  <2> QED
    BY <1>1, <1>2, <1>4, <1>5, <2>1, WorkerType
<1> QED
  BY <1>4, <1>5, <1>6, SameRows DEF tables

\* The SELECT of the worker: if it does not fail, what is inserted next is no repetition.
LEMMA SelectLastInv == ASSUME MemoryInv, SelectLast PROVE MemoryInv'
<1>1. TypeOK /\ UNCHANGED <<DBQueue, draining, cancelled, tables, mark>>
  BY DEF MemoryInv, SelectLast
<1>2. PICK j \in Jobs : job = <<j>> /\ j.kind = "memory" /\ job[1] = j
  BY <1>1 DEF SelectLast, TypeOK
<1>3. DBQueue' \in Seq(Jobs) /\ Len(DBQueue') <= QueueCap /\ draining' \in BOOLEAN /\ cancelled' \in BOOLEAN
  BY <1>1 DEF TypeOK
<1>4. CASE JobDone /\ GoTo(job[1].by, "queued", "done")
  <2>1. pc' = [pc EXCEPT ![j.by] = "done"] /\ worker' = "idle" /\ job' = <<>>
    BY <1>2, <1>4 DEF JobDone, GoTo
  <2>2. pc' \in [Calls -> Places]
    BY <1>1, <2>1 DEF TypeOK, Places
  <2>3. TypeOK'
    BY <1>1, <1>3, <2>1, <2>2, WorkerType
  <2>4. \A d \in Calls : pc'[d] = "delete" => pc[d] = "delete" /\ mark'[d] = mark[d]
    BY <1>1, <2>1 DEF TypeOK
  <2> QED
    BY <1>1, <2>1, <2>3, <2>4, SameRows DEF tables
<1>5. CASE (~Repeats(job[1].by) \/ MayFail("select")) /\ worker' = "insert" /\ UNCHANGED <<pc, job>>
  <2>1. TypeOK'
    <3>1. pc' \in [Calls -> Places] /\ job' = <<j>>
      BY <1>1, <1>2, <1>5 DEF TypeOK
    <3> QED
      BY <1>1, <1>2, <1>3, <1>5, <3>1, WorkerType
  <2>2. PruneInv'
    BY <1>1, <1>5 DEF MemoryInv, PruneInv, RowsOf, Above, tables
  <2>3. FreshInv'
    BY <1>1, <1>5 DEF MemoryInv, FreshInv, MayFail, Repeats, Newest, NoAdjacentDuplicates, tables
  <2> QED
    BY <1>1, <2>1, <2>2, <2>3 DEF MemoryInv, tables
<1> QED
  BY <1>4, <1>5 DEF SelectLast

LEMMA JobEndsInv ==
  ASSUME MemoryInv, InsertError PROVE MemoryInv'
<1>1. TypeOK /\ UNCHANGED <<DBQueue, draining, cancelled, tables, mark>>
  BY DEF MemoryInv, InsertError
<1>2. PICK j \in Jobs : job = <<j>> /\ job[1] = j
  BY <1>1 DEF InsertError, TypeOK
<1>3. pc' = [pc EXCEPT ![j.by] = "done"] /\ worker' = "idle" /\ job' = <<>>
  BY <1>2 DEF InsertError, JobDone, GoTo
<1>4. TypeOK'
  <2>1. pc' \in [Calls -> Places]
    BY <1>1, <1>3 DEF TypeOK, Places
  <2>2. DBQueue' \in Seq(Jobs) /\ Len(DBQueue') <= QueueCap /\ draining' \in BOOLEAN /\ cancelled' \in BOOLEAN
    BY <1>1 DEF TypeOK
  <2> QED
    BY <1>1, <1>3, <2>1, <2>2, WorkerType
<1>5. \A d \in Calls : pc'[d] = "delete" => pc[d] = "delete" /\ mark'[d] = mark[d]
  BY <1>1, <1>3 DEF TypeOK
<1> QED
  BY <1>1, <1>3, <1>4, <1>5, SameRows DEF tables

LEMMA StoreSummaryInv == ASSUME MemoryInv, StoreSummary PROVE MemoryInv'
<1>1. TypeOK /\ UNCHANGED <<pc, DBQueue, draining, cancelled, memory, nextId, mark>> /\ worker' = "idle" /\ job' = <<>>
  BY DEF MemoryInv, StoreSummary, JobDone
<1>2. PICK j \in Jobs : job = <<j>> /\ job[1] = j /\ j.by.bot \in Bots /\ j.upTo \in Ids
  BY <1>1, JobOfWorker DEF StoreSummary
<1>3. summary' \in [Bots -> Ids]
  BY <1>1, <1>2 DEF StoreSummary, TypeOK
<1>4. TypeOK'
  <2>1. Ids' = Ids /\ Jobs' = Jobs
    BY <1>1 DEF Ids, Jobs
  <2> QED
    BY <1>1, <1>3, <2>1 DEF TypeOK
<1> QED
  BY <1>1, <1>4, SameRows

\* What the worker and the admin do besides jobs.
LEMMA IdleInv ==
  ASSUME MemoryInv, StartDraining \/ WorkerExit \/ Cancel
  PROVE  MemoryInv'
<1>1. TypeOK /\ UNCHANGED <<pc, DBQueue, job, tables, mark>>
  BY DEF MemoryInv, StartDraining, WorkerExit, Cancel
<1>2. /\ draining' \in BOOLEAN /\ cancelled' \in BOOLEAN
      /\ worker' = worker \/ (worker' = "exited" /\ worker = "idle")
  BY <1>1 DEF StartDraining, WorkerExit, Cancel, TypeOK
<1>3. TypeOK'
  <2>1. \/ worker' \in {"idle", "exited"} /\ job' = <<>>
        \/ worker' \in {"select", "insert"} /\ \E j \in Jobs : job' = <<j>> /\ j.kind = "memory"
        \/ worker' = "summary" /\ \E j \in Jobs : job' = <<j>> /\ j.kind = "summary"
    BY <1>1, <1>2 DEF TypeOK
  <2>2. pc' \in [Calls -> Places] /\ DBQueue' \in Seq(Jobs) /\ Len(DBQueue') <= QueueCap
    BY <1>1 DEF TypeOK
  <2> QED
    BY <1>1, <1>2, <2>1, <2>2, WorkerType
<1> QED
  BY <1>1, <1>2, <1>3, SameRows DEF tables

\* The INSERT: the new row is above all others, and not what the last of its bot and
\* channel says; that nothing was inserted since the SELECT is FreshInv.
LEMMA InsertRowInv == ASSUME MemoryInv, InsertRow PROVE MemoryInv'
<1>1. TypeOK /\ IsFiniteSet(memory) /\ worker = "insert" /\ nextId \in Nat
  BY DEF MemoryInv, InsertRow, TypeOK
<1>2. PICK j \in Jobs : job = <<j>> /\ job[1] = j /\ j.by \in Calls
  BY <1>1, JobOfWorker
<1> DEFINE c == j.by
           new == [id |-> nextId, bot |-> c.bot, channel |-> c.channel, content |-> c.content]
<1>3. /\ pc' = [pc EXCEPT ![c] = "count"] /\ memory' = memory \union {new}
      /\ nextId' = nextId + 1 /\ worker' = "idle" /\ job' = <<>>
      /\ UNCHANGED <<DBQueue, draining, cancelled, summary, mark>>
  BY <1>2 DEF InsertRow, JobDone, GoTo
<1>4. new.id = nextId /\ new.bot = c.bot /\ new.channel = c.channel /\ new.content = c.content
  OBVIOUS
<1>5. \A r \in memory : r.id \in Nat /\ r.id # 0 /\ r.id < nextId
  BY <1>1 DEF TypeOK
<1>6. \A d \in Calls : mark[d] \in Nat /\ mark[d] < nextId
  BY <1>1 DEF TypeOK, Ids
<1> HIDE DEF new
<1>7. TypeOK'
  <2>1. Ids \subseteq Ids'
    BY <1>1, <1>3 DEF Ids
  <2>2. Jobs \subseteq Jobs'
    BY <2>1 DEF Jobs
  <2>3. DBQueue' \in Seq(Jobs') /\ Len(DBQueue') <= QueueCap
    BY <1>1, <1>3, <2>2, SeqMonotonic DEF TypeOK
  <2>4. pc' \in [Calls -> Places] /\ draining' \in BOOLEAN /\ cancelled' \in BOOLEAN /\ nextId' \in Nat
    BY <1>1, <1>2, <1>3 DEF TypeOK, Places
  <2>5. summary' \in [Bots -> Ids'] /\ mark' \in [Calls -> Ids']
    BY <1>1, <1>3, <2>1 DEF TypeOK
  <2>6. nextId # 0
    BY <1>1, <1>2, <1>6
  <2>7. \A r \in memory' : r.id \in 1..(nextId' - 1)
    BY <1>1, <1>3, <1>4, <1>5, <2>6
  <2>8. \A r, q \in memory' : r.id = q.id => r = q
    BY <1>1, <1>3, <1>4, <1>5 DEF TypeOK
  <2> QED
    BY <1>3, <2>3, <2>4, <2>5, <2>7, <2>8 DEF TypeOK
<1>8. IsFiniteSet(memory')
  BY <1>1, <1>3, FS_AddElement
<1>9. PruneInv'
  <2> SUFFICES ASSUME NEW d \in Calls, pc'[d] = "delete"
               PROVE  ((\A r \in RowsOf(d.bot) : r.id >= mark[d]) \/ Cardinality(Above(d)) >= Keep)'
    BY DEF PruneInv
  <2>1. pc[d] = "delete"
    BY <1>1, <1>3 DEF TypeOK
  <2>2. CASE \A r \in RowsOf(d.bot) : r.id >= mark[d]
    BY <1>1, <1>3, <1>4, <1>6, <2>2 DEF RowsOf
  <2>3. CASE Cardinality(Above(d)) >= Keep
    <3>1. Above(d) \subseteq Above(d)' /\ Above(d) \subseteq memory /\ Above(d)' \subseteq memory'
      BY <1>3 DEF Above, RowsOf
    <3>2. IsFiniteSet(Above(d)) /\ IsFiniteSet(Above(d)')
      BY <1>1, <1>8, <3>1, FS_Subset
    <3>3. Cardinality(Above(d)) <= Cardinality(Above(d)')
      BY <3>1, <3>2, FS_Subset
    <3>4. Cardinality(Above(d)) \in Nat /\ Cardinality(Above(d)') \in Nat
      BY <3>2, FS_CardinalityType
    <3> QED
      BY <2>3, <3>3, <3>4
  <2> QED
    BY <2>1, <2>2, <2>3 DEF MemoryInv, PruneInv
<1>10. FreshInv'
  <2> SUFFICES ASSUME "select" \notin DbErrors PROVE NoAdjacentDuplicates'
    BY <1>3 DEF FreshInv
  <2>1. NoAdjacentDuplicates /\ ~Repeats(c)
    BY <1>1, <1>2 DEF MemoryInv, FreshInv
  <2> SUFFICES ASSUME NEW r \in memory', NEW q \in memory',
                      r.id < q.id, r.bot = q.bot, r.channel = q.channel, r.content = q.content
               PROVE  \E p \in memory' : r.id < p.id /\ p.id < q.id /\ p.bot = r.bot /\ p.channel = r.channel
    BY DEF NoAdjacentDuplicates
  <2>2. r \in memory
    BY <1>1, <1>3, <1>4, <1>5
  <2>3. CASE q = new
    <3>1. \E p \in memory : p.bot = c.bot /\ p.channel = c.channel /\ p.id > r.id
      BY <1>1, <1>2, <1>4, <2>1, <2>2, <2>3, RepeatedBelow
    <3> QED
      BY <1>3, <1>4, <1>5, <2>2, <2>3, <3>1
  <2>4. CASE q \in memory
    BY <1>3, <2>1, <2>2, <2>4 DEF NoAdjacentDuplicates
  <2> QED
    BY <1>3, <2>3, <2>4
<1> QED
  BY <1>7, <1>8, <1>9, <1>10 DEF MemoryInv

LEMMA StepInv == MemoryInv /\ [Next]_vars => MemoryInv'
<1> SUFFICES ASSUME MemoryInv, [Next]_vars PROVE MemoryInv'
  OBVIOUS
<1>1. CASE UNCHANGED vars
  <2>1. TypeOK'
    BY <1>1 DEF MemoryInv, TypeOK, Ids, Jobs, vars, workerVars, tables
  <2> QED
    BY <1>1, <2>1, SameRows DEF vars, workerVars, tables
<1>2. CASE Worker
  BY <1>2, TakeInv, SelectLastInv, InsertRowInv, JobEndsInv, StoreSummaryInv, IdleInv DEF Worker, RunJob
<1>3. ASSUME NEW c \in Calls, Goroutine(c) PROVE MemoryInv'
  BY <1>3, OffersInv, CountInv, FetchInv, PruneSelectInv, PruneDeleteInv DEF Goroutine, Follow
<1> QED
  BY <1>1, <1>2, <1>3, PurgeInv, IdleInv DEF Next

\* A DELETE of pruneOldMemory, as PruneInv lets it.
LEMMA DeleteKeeps ==
  ASSUME MemoryInv, NEW c \in Calls, PruneDelete(c)
  PROVE  Newest(RowsOf(c.bot), Keep) \subseteq memory' /\ memory \ RowsOf(c.bot) \subseteq memory'
<1>1. TypeOK /\ IsFiniteSet(memory) /\ mark[c] \in Nat /\ \A r \in memory : r.id \in Nat
  BY DEF MemoryInv, TypeOK, Ids
<1>2. {r \in memory : ~(r.bot = c.bot /\ r.id < mark[c])} \subseteq memory'
  BY DEF PruneDelete
<1>3. ASSUME NEW r \in Newest(RowsOf(c.bot), Keep) PROVE ~(r.id < mark[c])
  <2> SUFFICES ASSUME r.id < mark[c] PROVE FALSE
    OBVIOUS
  <2> DEFINE over == {q \in RowsOf(c.bot) : q.id > r.id}
  <2>1. r \in RowsOf(c.bot) /\ r \in memory /\ Cardinality(over) < Keep
    BY DEF Newest, RowsOf
  <2>2. Cardinality(Above(c)) >= Keep
    BY <1>1, <2>1 DEF MemoryInv, PruneInv, PruneDelete, GoTo
  <2>3. Above(c) \subseteq over /\ over \subseteq memory
    BY <1>1, <2>1 DEF Above, RowsOf
  <2>4. IsFiniteSet(over)
    BY <1>1, <2>3, FS_Subset
  <2>5. Cardinality(Above(c)) <= Cardinality(over) /\ IsFiniteSet(Above(c))
    BY <2>3, <2>4, FS_Subset
  <2>6. Cardinality(over) \in Nat /\ Cardinality(Above(c)) \in Nat
    BY <2>4, <2>5, FS_CardinalityType
  <2> QED
    BY <2>1, <2>2, <2>5, <2>6
<1>4. Newest(RowsOf(c.bot), Keep) \subseteq memory
  BY DEF Newest, RowsOf
<1> QED
  BY <1>2, <1>3, <1>4 DEF RowsOf
-----------------------------------------------------------------------------
\* The values of the variables: what each statement carries to the next is an id that
\* was given out, and no two rows have the same.
THEOREM TypeCorrect == Spec => []TypeOK
<1>1. MemoryInv => TypeOK
  BY DEF MemoryInv
<1> QED
  BY <1>1, InitInv, StepInv, PTL DEF Spec

\* database.go:250-257: while its SELECT does not fail, SaveMemory stores no row that
\* says what the last of its bot and channel says, beside any prunes and purges.
THEOREM NoRepetitionIsStored ==
  ASSUME "select" \notin DbErrors
  PROVE  Spec => []NoAdjacentDuplicates
<1>1. MemoryInv => NoAdjacentDuplicates
  BY DEF MemoryInv, FreshInv
<1> QED
  BY <1>1, InitInv, StepInv, PTL DEF Spec

\* summarizer.go:84: a prune never takes one of the Keep newest rows of its bot, nor a row
\* of another, whatever comes and goes between its SELECT and its DELETE.
THEOREM PruneAlwaysKeepsNewest == Spec => PruneKeepsNewest
<1> DEFINE Kept == \A c \in Calls : PruneDelete(c) =>
                     /\ Newest(RowsOf(c.bot), Keep) \subseteq memory'
                     /\ memory \ RowsOf(c.bot) \subseteq memory'
<1>1. MemoryInv /\ [Next]_vars => [Kept]_vars
  BY DeleteKeeps
<1>2. PruneKeepsNewest <=> [][Kept]_vars
  BY PTL DEF PruneKeepsNewest
<1> HIDE DEF Kept
<1> QED
  BY <1>1, <1>2, InitInv, StepInv, PTL DEF Spec
=============================================================================
