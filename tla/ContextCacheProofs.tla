-------------------------- MODULE ContextCacheProofs --------------------------
(***************************************************************************)
(* Theorems about ContextCache: one refresh at a time, and no cache used   *)
(* after its end, for any numbers of goroutines and any delays that the    *)
(* margin covers.                                                          *)
(***************************************************************************)
EXTENDS ContextCache, TLAPS

\* The refreshers that have made a cache and not yet saved its row.
Holding == Answering \union {"saving"}

\* What a refresher has made is the newest cache: nobody else makes one meanwhile.
MadeLast ==
  \A r \in Refreshers : refresh[r] \in Holding => made[r] = Len(until) /\ Len(until) > 0

\* An answer is recorded within CreateDelay of the creation.
AnswerInTime ==
  \A r \in Refreshers : refresh[r] \in Answering => now + Ttl <= until[made[r]] + CreateDelay

\* What a refresher has written stays, for the mutex is its own.
Written ==
  \A r \in Refreshers :
    /\ refresh[r] \in {"named", "dating", "dated", "saving"} => name = made[r]
    /\ refresh[r] \in {"dating", "dated", "saving"} => expiresAt <= until[made[r]] + CreateDelay
    /\ refresh[r] \in {"failed", "marked"} => failCount > 0

\* Caches end in the order in which they were made.
Ordered ==
  \A k \in Caches : until[k] <= until[Len(until)] /\ until[k] <= now + Ttl

\* A half written time is being written.
TornByWriter == torn => \E r \in Refreshers : refresh[r] \in {"dating", "marked"}

\* The entry: its end is that of its cache, give or take the delay of the
\* answer, or else the mark of a failure, which is past.
EntrySafe ==
  /\ name = 0 => expiresAt <= now
  /\ name # 0 => \/ expiresAt <= until[name] + CreateDelay
                 \/ expiresAt <= now /\ failCount > 0

\* The verdict of a generator: with no failure counted, the cache in the entry
\* outlives the use that the generator may make of it.
Verdict(g) ==
  /\ gen[g] = "fresh" /\ failCount = 0 /\ name # 0 => since[g] + GenDelay <= until[name]
  /\ gen[g] = "name" /\ name # 0 => since[g] + GenDelay <= until[name]
  /\ gen[g] # "call" => cacheName[g] = 0
  /\ cacheName[g] # 0 => since[g] + GenDelay <= until[cacheName[g]]
  /\ Relying(g) => now <= since[g] + GenDelay

Verdicts == \A g \in Generators : Verdict(g)

\* The part that says what there is, and the part that says how long it lasts.
Shape == TypeOK /\ OneRefresher /\ MadeLast

\* Where there is no row there is no time to live.
NoRowNoEnd == row.name = 0 => row.until = 0

EntryHolds ==
  /\ AnswerInTime /\ Written /\ Ordered /\ TornByWriter
  /\ EntrySafe /\ RowIsSafe /\ NoRowNoEnd

Safe == EntryHolds /\ Verdicts
-----------------------------------------------------------------------------
\* One step of a generator keeps the shape: all it may do to a refresher is
\* to start one, with the mutex it has found free.
LEMMA GeneratorShape ==
  ASSUME Shape, NEW g \in Generators, Generator(g)
  PROVE  Shape'
<1> USE CacheAssumption DEF Shape, TypeOK, MadeLast, OneRefresher, Holding, Answering, Caches, Go, Places
<1>1. CASE Load(g)
  BY <1>1 DEF Load, entry, refVars
<1>2. CASE LoadOrStore(g)
  BY <1>2 DEF LoadOrStore, entry, refVars
<1>3. CASE ReadFails(g)
  <2>1. UNCHANGED <<now, registered, entry, locked, since, cacheName, refVars, until, row>>
    BY <1>3 DEF ReadFails
  <2>2. gen' \in [Generators -> Places]
    BY <1>3 DEF ReadFails, Places
  <2>3. fails' = fails \/ fails' = [fails EXCEPT ![g] = failCount]
    BY <1>3, Zenon DEF ReadFails
  <2>4. fails' \in [Generators -> Nat]
    BY <2>3
  <2> QED
    BY <2>1, <2>2, <2>4 DEF entry, refVars, Places
<1>4. CASE CheckBackoff(g)
  BY <1>4 DEF CheckBackoff, entry, refVars
<1>5. CASE CheckExpiry(g)
  <2>1. UNCHANGED <<now, registered, entry, locked, cacheName, fails, refVars, until, row>>
    BY <1>5 DEF CheckExpiry
  <2>2. gen' \in [Generators -> Places]
    BY <1>5 DEF CheckExpiry, Places
  <2>3. since' \in [Generators -> 0..now]
    BY <1>5 DEF CheckExpiry
  <2> QED
    BY <2>1, <2>2, <2>3 DEF entry, refVars, Places
<1>6. CASE CheckClean(g)
  BY <1>6 DEF CheckClean, entry, refVars
<1>7. CASE ReadName(g)
  BY <1>7 DEF ReadName, entry, refVars
<1>8. CASE TryLock(g)
  <2>1. /\ gen' \in [Generators -> Places]
        /\ UNCHANGED <<now, registered, entry, since, cacheName, fails, made, until, row>>
    BY <1>8 DEF TryLock, Places
  <2>2. CASE UNCHANGED <<locked, refresh>>
    BY <2>1, <2>2 DEF entry, Places
  <2>3. ASSUME ~locked, locked', NEW r \in Refreshers, refresh[r] = "none",
               refresh' = [refresh EXCEPT ![r] = "create"]
        PROVE  Shape'
    <3>1. TypeOK'
      BY <2>1, <2>3 DEF entry, Places
    <3>2. OneRefresher' /\ MadeLast'
      BY <2>1, <2>3
    <3> QED
      BY <3>1, <3>2
  <2> QED
    BY <1>8, <2>2, <2>3 DEF TryLock
<1>9. CASE Call(g)
  BY <1>9 DEF Call, entry, refVars
<1> QED
  BY <1>1, <1>2, <1>3, <1>4, <1>5, <1>6, <1>7, <1>8, <1>9 DEF Generator

\* One step of a refresher keeps the shape: while it runs no other does, and it
\* lets go of the mutex in its last step.
LEMMA RefresherShape ==
  ASSUME Shape, NEW r \in Refreshers, Refresher(r)
  PROVE  Shape'
<1> USE CacheAssumption DEF Shape, TypeOK, MadeLast, OneRefresher, Holding, Answering, Caches,
                            RefreshGo, Places
<1>1. CASE Create(r)
  <2>1. /\ until' = Append(until, now + Ttl) /\ until' \in Seq(Nat)
        /\ Len(until') = Len(until) + 1
        /\ refresh' = [refresh EXCEPT ![r] = "created"]
        /\ made' = [made EXCEPT ![r] = Len(until) + 1]
        /\ refresh[r] = "create"
        /\ UNCHANGED <<now, registered, entry, locked, genVars, row>>
    BY <1>1 DEF Create
  <2>2. TypeOK'
    BY <2>1 DEF entry, genVars
  <2>3. OneRefresher'
    BY <2>1
  <2>4. MadeLast'
    BY <2>1
  <2> QED
    BY <2>2, <2>3, <2>4
<1>2. CASE CreateFails(r)
  <2>1. /\ refresh' = [refresh EXCEPT ![r] = "failed"] /\ refresh[r] \in {"create", "created"}
        /\ failCount' = failCount + 1
        /\ UNCHANGED <<now, registered, name, expiresAt, torn, locked, genVars, made, until, row>>
    BY <1>2 DEF CreateFails
  <2>2. TypeOK'
    BY <2>1 DEF genVars
  <2>3. OneRefresher' /\ MadeLast'
    BY <2>1
  <2> QED
    BY <2>2, <2>3
<1>3. CASE MarkFailure(r)
  BY <1>3 DEF MarkFailure, genVars
<1>4. CASE LeaveFailure(r)
  BY <1>4 DEF LeaveFailure, genVars
<1>5. CASE WriteName(r)
  BY <1>5 DEF WriteName, genVars
<1>6. CASE WriteExpiry(r)
  BY <1>6 DEF WriteExpiry, genVars
<1>7. CASE ExpiryWritten(r)
  BY <1>7 DEF ExpiryWritten, genVars
<1>8. CASE ResetFails(r)
  BY <1>8 DEF ResetFails, genVars
<1>9. CASE SaveRow(r)
  <2>1. /\ refresh' = [refresh EXCEPT ![r] = "none"] /\ refresh[r] = "saving"
        /\ made' = [made EXCEPT ![r] = 0]
        /\ ~locked'
        /\ locked' = FALSE
        /\ UNCHANGED <<now, registered, entry, genVars, until>>
    BY <1>9 DEF SaveRow
  <2>2. row' \in [name : {0} \union Caches, until : Nat]
    BY <1>9 DEF SaveRow, entry
  <2>3. TypeOK'
    BY <2>1, <2>2 DEF entry, genVars
  <2>4. OneRefresher' /\ MadeLast'
    BY <2>1
  <2> QED
    BY <2>3, <2>4
<1> QED
  BY <1>1, <1>2, <1>3, <1>4, <1>5, <1>6, <1>7, <1>8, <1>9 DEF Refresher

LEMMA RestartShape ==
  ASSUME Shape, Restart
  PROVE  Shape'
<1> USE CacheAssumption DEF Restart, Shape
<1>1. /\ registered' \in BOOLEAN /\ name' \in {0} \union Caches /\ expiresAt' \in Nat
      /\ now' = now /\ until' = until /\ row' = row
  BY DEF TypeOK, Caches
<1>2. /\ gen' \in [Generators -> Places] /\ since' \in [Generators -> 0..now]
      /\ cacheName' \in [Generators -> {0} \union Caches] /\ fails' \in [Generators -> Nat]
  BY DEF TypeOK, Places
<1>3. TypeOK'
  BY <1>1, <1>2 DEF TypeOK, Caches, Answering
<1>4. OneRefresher' /\ MadeLast'
  BY DEF OneRefresher, MadeLast, Holding, Answering
<1> QED
  BY <1>3, <1>4

LEMMA ClockShape ==
  ASSUME Shape, Clock
  PROVE  Shape'
BY CacheAssumption DEF Clock, Shape, TypeOK, MadeLast, OneRefresher, Holding, Answering,
                       Caches, Places, entry, genVars, refVars
-----------------------------------------------------------------------------
\* What a step of a generator leaves alone is all that the entry's safety is about.
LEMMA GeneratorEntry ==
  ASSUME Shape, Safe, NEW g \in Generators, Generator(g)
  PROVE  EntryHolds'
<1>1. UNCHANGED <<now, entry, made, until, row>>
  BY DEF Generator, Load, LoadOrStore, ReadFails, CheckBackoff, CheckExpiry, CheckClean, ReadName,
         TryLock, Call, refVars
<1>2. \/ UNCHANGED refresh
      \/ \E r \in Refreshers : refresh[r] = "none" /\ refresh' = [refresh EXCEPT ![r] = "create"]
  BY DEF Generator, Load, LoadOrStore, ReadFails, CheckBackoff, CheckExpiry, CheckClean, ReadName,
         TryLock, Call, refVars
<1> USE <1>1 DEF Safe, EntryHolds, Shape, TypeOK, entry
<1>3. AnswerInTime' /\ Written' /\ Ordered'
  BY <1>2 DEF AnswerInTime, Written, Ordered, Answering, Caches
<1>4. TornByWriter'
  BY <1>2 DEF TornByWriter
<1>5. EntrySafe' /\ RowIsSafe' /\ NoRowNoEnd'
  BY DEF EntrySafe, RowIsSafe, NoRowNoEnd
<1> QED
  BY <1>3, <1>4, <1>5

\* A fresh verdict is worth what it says: if no failure is counted, the cache in
\* the entry lives for GenDelay from now on, also when the end is half written.
LEMMA FreshVerdict ==
  ASSUME Shape, Safe, failCount = 0, name # 0, torn \/ now <= expiresAt - Margin
  PROVE  now + GenDelay <= until[name]
<1> USE CacheAssumption DEF Shape, Safe, EntryHolds, TypeOK, Caches
<1>1. CASE torn
  <2>1. PICK r \in Refreshers : refresh[r] \in {"dating", "marked"}
    BY <1>1 DEF TornByWriter
  <2>2. refresh[r] = "dating"
    BY <2>1 DEF Written
  <2>3. name = made[r] /\ now + Ttl <= until[made[r]] + CreateDelay
    BY <2>2 DEF Written, AnswerInTime, Answering
  <2> QED
    BY <2>3
<1>2. CASE ~torn
  BY <1>2 DEF EntrySafe
<1> QED
  BY <1>1, <1>2

LEMMA GeneratorVerdict ==
  ASSUME Shape, Safe, NEW g \in Generators, Generator(g)
  PROVE  Verdicts'
<1>1. UNCHANGED <<now, entry, until>>
  BY DEF Generator, Load, LoadOrStore, ReadFails, CheckBackoff, CheckExpiry, CheckClean, ReadName,
         TryLock, Call, refVars
<1>2. Verdict(g)
  BY DEF Safe, Verdicts
<1> USE <1>1, CacheAssumption DEF Shape, TypeOK, entry, Places
<1>3. ASSUME NEW h \in Generators, h # g
      PROVE  Verdict(h)'
  <2>1. gen'[h] = gen[h] /\ since'[h] = since[h] /\ cacheName'[h] = cacheName[h]
    BY <1>3 DEF Generator, Load, LoadOrStore, ReadFails, CheckBackoff, CheckExpiry, CheckClean,
                ReadName, TryLock, Call, Go
  <2>2. Verdict(h)
    BY DEF Safe, Verdicts
  <2> QED
    BY <2>1, <2>2 DEF Verdict, Relying
<1>4. Verdict(g)'
  <2>1. CASE \/ Load(g) \/ LoadOrStore(g) \/ ReadFails(g) \/ CheckBackoff(g) \/ TryLock(g)
    <3>1. /\ gen[g] \notin {"call", "fresh", "name"} /\ gen'[g] \notin {"fresh", "name"}
          /\ since' = since /\ cacheName' = cacheName
      BY <2>1 DEF Load, LoadOrStore, ReadFails, CheckBackoff, TryLock, Go
    <3> QED
      BY <1>2, <3>1 DEF Verdict, Relying
  <2>2. CASE CheckExpiry(g)
    <3>1. gen[g] \in {"expiry", "recheck"} /\ cacheName' = cacheName /\ gen'[g] # "name" /\ gen'[g] # "call"
      BY <2>2 DEF CheckExpiry, Go
    <3>2. CASE gen'[g] = "fresh"
      <4>1. since'[g] = now /\ (torn \/ now <= expiresAt - Margin)
        BY <2>2, <3>2 DEF CheckExpiry, Go, Finds
      <4>2. failCount = 0 /\ name # 0 => now + GenDelay <= until[name]
        BY <4>1, FreshVerdict
      <4> QED
        BY <1>2, <3>1, <3>2, <4>1, <4>2 DEF Verdict, Relying
    <3>3. CASE gen'[g] # "fresh"
      BY <1>2, <3>1, <3>3 DEF Verdict, Relying
    <3> QED
      BY <3>2, <3>3
  <2>3. CASE CheckClean(g)
    BY <1>2, <2>3 DEF CheckClean, Go, Verdict, Relying
  <2>4. CASE ReadName(g)
    BY <1>2, <2>4 DEF ReadName, Go, Verdict, Relying
  <2>5. CASE Call(g)
    BY <1>2, <2>5 DEF Call, Go, Verdict, Relying
  <2> QED
    BY <2>1, <2>2, <2>3, <2>4, <2>5 DEF Generator
<1> QED
  BY <1>3, <1>4 DEF Verdicts
-----------------------------------------------------------------------------
\* While a refresher holds a fresh cache, that cache outlives any use begun so far.
LEMMA MadeIsFresh ==
  ASSUME Shape, Safe, NEW r \in Refreshers, refresh[r] \in Answering
  PROVE  /\ made[r] = Len(until) /\ made[r] \in Caches
         /\ now + Ttl <= until[made[r]] + CreateDelay
         /\ now + GenDelay <= until[made[r]]
         /\ \A g \in Generators : since[g] + GenDelay <= until[made[r]]
<1>1. made[r] = Len(until) /\ made[r] \in Caches
  BY DEF Shape, TypeOK, MadeLast, Holding, Caches
<1>2. now + Ttl <= until[made[r]] + CreateDelay
  BY DEF Safe, EntryHolds, AnswerInTime
<1>3. now \in Nat /\ until[made[r]] \in Nat /\ \A g \in Generators : since[g] \in Nat /\ since[g] <= now
  BY <1>1 DEF Shape, TypeOK, Caches
<1>4. now + GenDelay <= until[made[r]]
  BY <1>2, <1>3, CacheAssumption
<1>5. \A g \in Generators : since[g] + GenDelay <= until[made[r]]
  BY <1>3, <1>4, CacheAssumption
<1> QED
  BY <1>1, <1>2, <1>4, <1>5

\* A cache made last ends last.
LEMMA LastEndsLast ==
  ASSUME NEW ends \in Seq(Nat), NEW end \in Nat, \A k \in 1..Len(ends) : ends[k] <= end
  PROVE  LET longer == Append(ends, end) IN
           /\ Len(longer) = Len(ends) + 1
           /\ longer[Len(longer)] = end
           /\ \A k \in 1..Len(ends) : longer[k] = ends[k]
           /\ \A k \in 1..Len(longer) : longer[k] <= end
OBVIOUS

\* One step of a refresher keeps the entry safe. Nothing is said of the others:
\* none of them runs.
LEMMA RefresherEntry ==
  ASSUME Shape, Safe, NEW r \in Refreshers, Refresher(r)
  PROVE  EntryHolds'
<1>1. \A q \in Refreshers : q # r => refresh[q] = "none" /\ refresh'[q] = "none"
  BY DEF Refresher, Create, CreateFails, MarkFailure, LeaveFailure, WriteName, WriteExpiry,
         ExpiryWritten, ResetFails, SaveRow, RefreshGo, Shape, OneRefresher, TypeOK
<1>2. /\ refresh[r] \in Answering =>
            /\ made[r] = Len(until) /\ made[r] \in Caches
            /\ now + Ttl <= until[made[r]] + CreateDelay
  BY MadeIsFresh
<1> USE CacheAssumption, <1>1, <1>2 DEF Shape, Safe, EntryHolds, TypeOK, Caches, RefreshGo,
        Answering, AnswerInTime, Written, Ordered, TornByWriter, EntrySafe, RowIsSafe, NoRowNoEnd, genVars
<1>3. CASE Create(r)
  <2>1. /\ refresh'[r] = "created" /\ made'[r] = Len(until) + 1
        /\ refresh[r] = "create"
        /\ UNCHANGED <<now, registered, entry, locked, row>>
    BY <1>3 DEF Create
  <2>2. /\ Len(until') = Len(until) + 1
        /\ until'[Len(until')] = now + Ttl
        /\ \A k \in 1..Len(until) : until'[k] = until[k]
        /\ \A k \in 1..Len(until') : until'[k] <= now + Ttl
    <3>1. until \in Seq(Nat) /\ now + Ttl \in Nat /\ \A k \in 1..Len(until) : until[k] <= now + Ttl
      OBVIOUS
    <3>2. until' = Append(until, now + Ttl)
      BY <1>3 DEF Create
    <3> QED
      BY ONLY <3>1, <3>2, LastEndsLast
  <2>3. AnswerInTime'
    <3>1. now' + Ttl <= until'[made'[r]] + CreateDelay
      BY <2>1, <2>2
    <3> QED
      BY <1>1, <3>1
  <2>4. Written'
    BY <2>1, <1>1
  <2>5. Ordered'
    BY <2>1, <2>2
  <2>6. TornByWriter' /\ EntrySafe' /\ RowIsSafe' /\ NoRowNoEnd'
    BY <2>1, <2>2 DEF entry
  <2> QED
    BY <2>3, <2>4, <2>5, <2>6
<1>4. CASE CreateFails(r)
  BY <1>4 DEF CreateFails
<1>5. CASE MarkFailure(r)
  BY <1>5 DEF MarkFailure
<1>6. CASE LeaveFailure(r)
  BY <1>6 DEF LeaveFailure
<1>7. CASE WriteName(r)
  <2>1. /\ name' = made[r] /\ refresh[r] = "created" /\ refresh' = [refresh EXCEPT ![r] = "named"]
        /\ UNCHANGED <<now, expiresAt, torn, failCount, made, until, row>>
    BY <1>7 DEF WriteName
  <2>2. expiresAt <= until[made[r]] + CreateDelay
    <3>1. made[r] = Len(until) /\ made[r] \in Caches /\ now + Ttl <= until[made[r]] + CreateDelay
      BY <1>2, <2>1
    <3>2. name # 0 => until[name] <= until[made[r]]
      BY <3>1
    <3>3. \/ expiresAt <= now
          \/ name # 0 /\ expiresAt <= until[name] + CreateDelay
      BY DEF EntrySafe
    <3>4. /\ now \in Nat /\ expiresAt \in Nat /\ until[made[r]] \in Nat
          /\ name # 0 => until[name] \in Nat
      BY <3>1
    <3> QED
      BY ONLY <3>1, <3>2, <3>3, <3>4, CacheAssumption
  <2>3. AnswerInTime' /\ Ordered' /\ RowIsSafe' /\ NoRowNoEnd'
    BY <2>1
  <2>4. Written' /\ TornByWriter'
    BY <2>1
  <2>5. EntrySafe'
    BY <2>1, <2>2
  <2> QED
    BY <2>3, <2>4, <2>5
<1>8. CASE WriteExpiry(r)
  BY <1>8 DEF WriteExpiry
<1>9. CASE ExpiryWritten(r)
  BY <1>9 DEF ExpiryWritten
<1>10. CASE ResetFails(r)
  BY <1>10 DEF ResetFails
<1>11. CASE SaveRow(r)
  <2>1. /\ refresh'[r] = "none" /\ refresh[r] = "saving"
        /\ UNCHANGED <<now, entry, until>>
    BY <1>11 DEF SaveRow
  <2>2. AnswerInTime' /\ Written' /\ Ordered' /\ TornByWriter' /\ EntrySafe'
    BY <2>1 DEF entry
  <2>3. made[r] # 0 /\ expiresAt <= until[made[r]] + CreateDelay
    BY <2>1 DEF MadeLast, Holding
  <2>4. row' = row \/ row' = [name |-> made[r], until |-> expiresAt]
    BY <1>11, Zenon DEF SaveRow
  <2>5. row' = row \/ (row'.name = made[r] /\ row'.until = expiresAt)
    BY ONLY <2>4
  <2>6. RowIsSafe' /\ NoRowNoEnd'
    BY <2>1, <2>3, <2>5
  <2> QED
    BY <2>2, <2>6
<1> QED
  BY <1>3, <1>4, <1>5, <1>6, <1>7, <1>8, <1>9, <1>10, <1>11 DEF Refresher

\* Nor does it take from a generator what its verdict rests on: another name
\* in the entry is that of a cache that lives longer.
LEMMA RefresherVerdict ==
  ASSUME Shape, Safe, NEW r \in Refreshers, Refresher(r)
  PROVE  Verdicts'
<1> SUFFICES ASSUME NEW g \in Generators PROVE Verdict(g)'
  BY DEF Verdicts
<1>1. Verdict(g)
  BY DEF Safe, Verdicts
<1>2. UNCHANGED <<now, gen, since, cacheName>>
  BY DEF Refresher, Create, CreateFails, MarkFailure, LeaveFailure, WriteName, WriteExpiry,
         ExpiryWritten, ResetFails, SaveRow, genVars
<1> USE CacheAssumption, <1>1, <1>2 DEF Shape, TypeOK, Caches, Verdict, Relying, RefreshGo
<1>3. CASE Create(r)
  <2>1. \A k \in Caches : until'[k] = until[k]
    BY <1>3 DEF Create
  <2>2. UNCHANGED <<name, failCount>>
    BY <1>3 DEF Create, entry
  <2> QED
    BY <2>1, <2>2
<1>4. CASE WriteName(r)
  <2>1. name' = made[r] /\ since[g] + GenDelay <= until[made[r]]
    BY <1>4, MadeIsFresh DEF WriteName, Answering
  <2>2. UNCHANGED <<failCount, until>>
    BY <1>4 DEF WriteName
  <2> QED
    BY <2>1, <2>2
<1>5. CASE ResetFails(r)
  <2>1. name = made[r] /\ since[g] + GenDelay <= until[made[r]]
    BY <1>5, MadeIsFresh DEF ResetFails, Answering, Safe, EntryHolds, Written
  <2>2. UNCHANGED <<name, until>>
    BY <1>5 DEF ResetFails
  <2> QED
    BY <2>1, <2>2
<1>6. CASE CreateFails(r)
  <2>1. failCount' # 0 /\ UNCHANGED <<name, until>>
    BY <1>6 DEF CreateFails
  <2> QED
    BY <2>1
<1>7. CASE \/ MarkFailure(r) \/ LeaveFailure(r) \/ WriteExpiry(r) \/ ExpiryWritten(r) \/ SaveRow(r)
  <2>1. UNCHANGED <<name, failCount, until>>
    BY <1>7 DEF MarkFailure, LeaveFailure, WriteExpiry, ExpiryWritten, SaveRow, entry
  <2> QED
    BY <2>1
<1> QED
  BY <1>3, <1>4, <1>5, <1>6, <1>7 DEF Refresher

\* A new process begins with what the row says, and the row is safe.
LEMMA RestartSafe ==
  ASSUME Shape, Safe, Restart
  PROVE  Safe'
<1> USE CacheAssumption DEF Restart, Shape, Safe, EntryHolds, TypeOK, Caches
<1>1. AnswerInTime' /\ Written' /\ Ordered' /\ TornByWriter'
  BY DEF AnswerInTime, Written, Ordered, TornByWriter, Answering
<1>2. EntrySafe' /\ RowIsSafe' /\ NoRowNoEnd'
  BY DEF EntrySafe, RowIsSafe, NoRowNoEnd
<1>3. Verdicts'
  BY DEF Verdicts, Verdict, Relying
<1> QED
  BY <1>1, <1>2, <1>3

LEMMA ClockSafe ==
  ASSUME Shape, Safe, Clock
  PROVE  Safe'
<1> USE CacheAssumption DEF Clock, Shape, Safe, EntryHolds, TypeOK, Caches, entry, genVars, refVars
<1>1. AnswerInTime' /\ Written' /\ Ordered' /\ TornByWriter'
  BY DEF AnswerInTime, Written, Ordered, TornByWriter, Answering
<1>2. EntrySafe' /\ RowIsSafe' /\ NoRowNoEnd'
  BY DEF EntrySafe, RowIsSafe, NoRowNoEnd
<1>3. Verdicts'
  BY DEF Verdicts, Verdict, Relying
<1> QED
  BY <1>1, <1>2, <1>3
-----------------------------------------------------------------------------
LEMMA CacheInvariant == Spec => [](Shape /\ Safe)
<1>1. Init => Shape /\ Safe
  <2> SUFFICES ASSUME Init PROVE Shape /\ Safe
    OBVIOUS
  <2> USE CacheAssumption DEF Init
  <2>1. TypeOK
    <3>1. until \in Seq(Nat) /\ Len(until) = 0
      OBVIOUS
    <3>2. row \in [name : {0} \union Caches, until : Nat]
      OBVIOUS
    <3>3. /\ gen \in [Generators -> Places]
          /\ since \in [Generators -> 0..now]
          /\ cacheName \in [Generators -> {0} \union Caches]
          /\ fails \in [Generators -> Nat]
      BY DEF Places
    <3>4. /\ refresh \in [Refreshers -> Answering \union {"none", "create", "failed", "marked", "saving"}]
          /\ made \in [Refreshers -> {0} \union Caches]
      OBVIOUS
    <3> QED
      BY <3>1, <3>2, <3>3, <3>4 DEF TypeOK
  <2>2. OneRefresher /\ MadeLast
    BY DEF OneRefresher, MadeLast, Holding, Answering
  <2>3. EntryHolds
    BY DEF EntryHolds, AnswerInTime, Written, Ordered, TornByWriter, EntrySafe, RowIsSafe,
       NoRowNoEnd, Answering, Caches
  <2>4. Verdicts
    BY DEF Verdicts, Verdict, Relying
  <2> QED
    BY <2>1, <2>2, <2>3, <2>4 DEF Shape, Safe
<1>2. Shape /\ Safe /\ [Next]_vars => (Shape /\ Safe)'
  <2> SUFFICES ASSUME Shape, Safe, [Next]_vars
               PROVE  (Shape /\ Safe)'
    OBVIOUS
  <2>1. ASSUME NEW g \in Generators, Generator(g)
        PROVE  (Shape /\ Safe)'
    BY <2>1, GeneratorShape, GeneratorEntry, GeneratorVerdict DEF Safe
  <2>2. ASSUME NEW r \in Refreshers, Refresher(r)
        PROVE  (Shape /\ Safe)'
    BY <2>2, RefresherShape, RefresherEntry, RefresherVerdict DEF Safe
  <2>3. CASE Restart
    BY <2>3, RestartShape, RestartSafe
  <2>4. CASE Clock
    BY <2>4, ClockShape, ClockSafe
  <2>5. CASE UNCHANGED vars
    BY <2>5 DEF vars, entry, genVars, refVars, Shape, TypeOK, Places, Caches, OneRefresher, MadeLast,
           Holding, Answering, Safe, EntryHolds, AnswerInTime, Written, Ordered, TornByWriter, EntrySafe, RowIsSafe, NoRowNoEnd,
           Verdicts, Verdict, Relying
  <2> QED
    BY <2>1, <2>2, <2>3, <2>4, <2>5 DEF Next
<1> QED
  BY <1>1, <1>2, PTL DEF Spec

\* The variables of the cache keep their types: in particular a refresher, the
\* entry and the row only ever name caches that were made.
THEOREM TypeCorrect == Spec => []TypeOK
BY CacheInvariant, PTL DEF Shape

\* One refresh at a time, and the mutex is held exactly while it runs.
THEOREM RefreshesExclude == Spec => []OneRefresher
BY CacheInvariant, PTL DEF Shape

\* What the next process would start from is as safe as the entry.
THEOREM RowsSafe == Spec => []RowIsSafe
BY CacheInvariant, PTL DEF Safe, EntryHolds

\* The API is never asked to use a cache it has forgotten, for any number of
\* goroutines, restarts and failures, as long as the margin covers the delays.
THEOREM CachesUsedInTime == Spec => []NoExpiredCache
<1>1. Shape /\ Safe => NoExpiredCache
  <2> SUFFICES ASSUME Shape, Safe, NEW g \in Generators, gen[g] = "call", cacheName[g] # 0
               PROVE  cacheName[g] \in Caches /\ now <= until[cacheName[g]]
    BY DEF NoExpiredCache
  <2>1. Verdict(g) /\ Relying(g)
    BY DEF Safe, Verdicts, Relying
  <2> QED
    BY <2>1, CacheAssumption DEF Verdict, Shape, TypeOK, Caches
<1> QED
  BY <1>1, CacheInvariant, PTL

\* The mark of the failures is past, but while a refresher is about to move it.
MarkIsPast ==
  failCount >= 3 /\ (\A r \in Refreshers : refresh[r] \notin {"failed", "dating", "dated"})
    => expiresAt <= now

LEMMA MarkStaysPast ==
  ASSUME Shape, MarkIsPast, [Next]_vars
  PROVE  MarkIsPast'
<1> USE DEF MarkIsPast, Shape, TypeOK, RefreshGo
<1>1. ASSUME NEW g \in Generators, Generator(g)
      PROVE  MarkIsPast'
  <2>1. UNCHANGED <<now, expiresAt, failCount>>
    BY <1>1 DEF Generator, Load, LoadOrStore, ReadFails, CheckBackoff, CheckExpiry, CheckClean,
                ReadName, TryLock, Call, entry
  <2>2. \/ UNCHANGED refresh
        \/ \E r \in Refreshers : refresh[r] = "none" /\ refresh' = [refresh EXCEPT ![r] = "create"]
    BY <1>1 DEF Generator, Load, LoadOrStore, ReadFails, CheckBackoff, CheckExpiry, CheckClean,
                ReadName, TryLock, Call, refVars
  <2> QED
    BY <2>1, <2>2
<1>2. ASSUME NEW r \in Refreshers, Refresher(r)
      PROVE  MarkIsPast'
  <2>1. CASE Create(r)
    BY <2>1 DEF Create, entry
  <2>2. CASE CreateFails(r)
    BY <2>2 DEF CreateFails
  <2>3. CASE MarkFailure(r)
    BY <2>3 DEF MarkFailure
  <2>4. CASE LeaveFailure(r)
    BY <2>4 DEF LeaveFailure
  <2>5. CASE WriteName(r)
    BY <2>5 DEF WriteName
  <2>6. CASE WriteExpiry(r)
    BY <2>6 DEF WriteExpiry
  <2>7. CASE ExpiryWritten(r)
    BY <2>7 DEF ExpiryWritten
  <2>8. CASE ResetFails(r)
    BY <2>8 DEF ResetFails
  <2>9. CASE SaveRow(r)
    BY <2>9 DEF SaveRow, entry
  <2> QED
    BY <1>2, <2>1, <2>2, <2>3, <2>4, <2>5, <2>6, <2>7, <2>8, <2>9 DEF Refresher
<1>3. CASE Restart
  BY <1>3 DEF Restart
<1>4. CASE Clock
  BY <1>4 DEF Clock, entry, refVars
<1>5. CASE UNCHANGED vars
  BY <1>5 DEF vars, entry, refVars
<1> QED
  BY <1>1, <1>2, <1>3, <1>4, <1>5 DEF Next

\* After three failures and more, whenever no refresh runs the backoff counts from a
\* time that is not in the future, although the field it reads is also the end of a cache.
THEOREM BackoffsEnd == Spec => []BackoffEnds
<1>1. Init => MarkIsPast
  BY DEF Init, MarkIsPast
<1>2. Shape /\ MarkIsPast => BackoffEnds
  <2> SUFFICES ASSUME Shape, MarkIsPast, failCount >= 3, ~locked
               PROVE  expiresAt <= now
    BY DEF BackoffEnds
  <2>1. \A r \in Refreshers : refresh[r] = "none"
    BY DEF Shape, OneRefresher
  <2> QED
    BY <2>1 DEF MarkIsPast
<1>3. Shape /\ MarkIsPast /\ [Next]_vars => MarkIsPast'
  BY MarkStaysPast
<1>4. Spec => []MarkIsPast
  BY <1>1, <1>3, CacheInvariant, PTL DEF Spec
<1> QED
  BY <1>2, <1>4, CacheInvariant, PTL
=============================================================================
