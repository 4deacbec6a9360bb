---------------------------- MODULE ContextCache ----------------------------
(***************************************************************************)
(* The context cache of one bot (conspiri/llm.go, database.go): the        *)
(* CacheEntry that goroutines of GenerateReply read without its mutex, the *)
(* refreshCache goroutine that whoever wins TryLock starts, the caches     *)
(* that the remote API keeps for a time to live, the row that outlives the *)
(* process, and crashes.                                                   *)
(*                                                                         *)
(* Each access to a field of the entry is a step; a time is several words, *)
(* so its write takes two, and stores are seen in program order. A name    *)
(* is known by its pointer: what a reader makes of a pointer beside an old *)
(* length is left out. The caches are numbered in the order of creation; 0 *)
(* is the empty name.                                                      *)
(***************************************************************************)
EXTENDS Integers, Sequences, FiniteSets

CONSTANTS
  Generators,       \* goroutines in GenerateReply
  Refreshers,       \* goroutines in refreshCache
  Ttl,              \* 60 minutes: life of a cache, at the API and in the entry
  Margin,           \* the 5 minutes by which GenerateReply stays clear of the end
  CreateDelay,      \* longest time from a cache's creation to the entry's update
  GenDelay,         \* longest time from a verdict on the entry to the API's use of it
  WordBits,         \* bits of a time.Duration (64)
  Minute,           \* what a minute is in the unit of time.Duration
  MaxTime, MaxCreates, MaxFails   \* bounds on the clock, the caches and FailCount

ASSUME CacheAssumption ==
  /\ Ttl \in Nat /\ Margin \in Nat /\ CreateDelay \in Nat /\ GenDelay \in Nat
  /\ CreateDelay + GenDelay <= Margin
  /\ Margin <= Ttl
  /\ WordBits \in Nat \ {0} /\ Minute \in Nat \ {0}
  /\ MaxTime \in Nat /\ MaxCreates \in Nat /\ MaxFails \in Nat

VARIABLES
  now,
  registered,       \* CacheRegistry has an entry for the bot
  name,             \* entry.Name
  expiresAt,        \* entry.ExpiresAt; 0 is the zero time
  torn,             \* entry.ExpiresAt is half written
  failCount,        \* entry.FailCount
  locked,           \* entry.Mu
  gen,              \* where each generator is
  since,            \* when it has last looked at ExpiresAt
  cacheName,        \* its cacheName
  fails,            \* the FailCount it has read
  refresh,          \* where each refresher is
  made,             \* the cache it has created
  until,            \* until[k]: when the API forgets cache k
  row               \* the bot's row of conspiri_cache_state; a name of 0: there is none

entry == <<name, expiresAt, torn, failCount>>
genVars == <<gen, since, cacheName, fails>>
refVars == <<refresh, made>>
vars == <<now, registered, entry, locked, genVars, refVars, until, row>>

Init ==
  /\ now = 0
  /\ registered = FALSE
  /\ name = 0 /\ expiresAt = 0 /\ torn = FALSE /\ failCount = 0
  /\ locked = FALSE
  /\ gen = [g \in Generators |-> "idle"]
  /\ since = [g \in Generators |-> 0]
  /\ cacheName = [g \in Generators |-> 0]
  /\ fails = [g \in Generators |-> 0]
  /\ refresh = [r \in Refreshers |-> "none"]
  /\ made = [r \in Refreshers |-> 0]
  /\ until = <<>>
  /\ row = [name |-> 0, until |-> 0]
-----------------------------------------------------------------------------
(***************************************************************************)
(* The backoff, in time.Duration's arithmetic of WordBits bits. The code   *)
(* never multiplies by time.Minute: 15 is 15 nanoseconds.                  *)
(***************************************************************************)
Wrapped(x) ==
  LET low == x % 2^WordBits IN IF low >= 2^(WordBits - 1) THEN low - 2^WordBits ELSE low

ShiftedOne(k) == IF k < WordBits THEN 2^k ELSE 0

Backoff(count) ==
  LET backoffMins == Wrapped(15 * ShiftedOne(count - 3)) IN
    IF backoffMins > 60 * Minute THEN 60 * Minute ELSE backoffMins

\* time.Now().Before(entry.ExpiresAt.Add(backoffMins))
InBackoff(count, mark) == now * Minute < mark * Minute + Backoff(count)
-----------------------------------------------------------------------------
(***************************************************************************)
(* GenerateReply's choice of cacheName.                                    *)
(***************************************************************************)
Go(g, from, to) ==
  /\ gen[g] = from
  /\ gen' = [gen EXCEPT ![g] = to]

\* v, ok := state.CacheRegistry.Load(persona.Nick)
Load(g) ==
  /\ Go(g, "idle", IF registered THEN "breaker" ELSE "missing")
  /\ UNCHANGED <<now, registered, entry, locked, since, cacheName, fails, refVars, until, row>>

\* LoadOrStore: the first one stores the zero entry and tries to refresh it.
LoadOrStore(g) ==
  /\ Go(g, "missing", IF registered THEN "recheck" ELSE "trylock")
  /\ registered' = TRUE
  /\ UNCHANGED <<now, entry, locked, since, cacheName, fails, refVars, until, row>>

\* if entry.FailCount >= 3, before or after the look at ExpiresAt
ReadFails(g) ==
  /\ \/ /\ failCount >= 3
        /\ Go(g, "breaker", "backoff") \/ Go(g, "breaker2", "backoff2")
        /\ fails' = [fails EXCEPT ![g] = failCount]
     \/ /\ failCount < 3
        /\ Go(g, "breaker", "expiry") \/ Go(g, "breaker2", "trylock")
        /\ UNCHANGED fails
  /\ UNCHANGED <<now, registered, entry, locked, since, cacheName, refVars, until, row>>

\* A read of a half written time may find anything.
Finds(verdict) == torn \/ verdict

\* Inside the backoff the reply is generated without a cache.
CheckBackoff(g) ==
  /\ \/ /\ Go(g, "backoff", "call") \/ Go(g, "backoff2", "call")
        /\ Finds(InBackoff(fails[g], expiresAt))
     \/ /\ Go(g, "backoff", "expiry") \/ Go(g, "backoff2", "trylock")
        /\ Finds(~InBackoff(fails[g], expiresAt))
  /\ fails' = [fails EXCEPT ![g] = 0]
  /\ UNCHANGED <<now, registered, entry, locked, since, cacheName, refVars, until, row>>

\* Mutant of CheckExpiry: the entry is used up to its end.
CheckExpiryLate(g) ==
  /\ \/ /\ \/ Go(g, "expiry", "fresh") /\ Finds(now <= expiresAt)
           \/ Go(g, "recheck", "fresh") /\ Finds(now < expiresAt)
        /\ since' = [since EXCEPT ![g] = now]
     \/ /\ \/ Go(g, "expiry", "trylock") /\ Finds(now > expiresAt)
           \/ Go(g, "recheck", "breaker2") /\ Finds(now >= expiresAt)
        /\ UNCHANGED since
  /\ UNCHANGED <<now, registered, entry, locked, cacheName, fails, refVars, until, row>>

\* time.Now().After(entry.ExpiresAt.Add(-5 * time.Minute)), and Before in the
\* branch of an entry that another generator has just stored.
CheckExpiry(g) ==
  /\ \/ /\ \/ Go(g, "expiry", "fresh") /\ Finds(now <= expiresAt - Margin)
           \/ Go(g, "recheck", "fresh") /\ Finds(now < expiresAt - Margin)
        /\ since' = [since EXCEPT ![g] = now]
     \/ /\ \/ Go(g, "expiry", "trylock") /\ Finds(now > expiresAt - Margin)
           \/ Go(g, "recheck", "breaker2") /\ Finds(now >= expiresAt - Margin)
        /\ UNCHANGED since
  /\ UNCHANGED <<now, registered, entry, locked, cacheName, fails, refVars, until, row>>

\* if entry.FailCount == 0
CheckClean(g) ==
  /\ Go(g, "fresh", IF failCount = 0 THEN "name" ELSE "call")
  /\ UNCHANGED <<now, registered, entry, locked, since, cacheName, fails, refVars, until, row>>

\* cacheName = entry.Name
ReadName(g) ==
  /\ Go(g, "name", "call")
  /\ cacheName' = [cacheName EXCEPT ![g] = name]
  /\ UNCHANGED <<now, registered, entry, locked, since, fails, refVars, until, row>>

\* Mutant of TryLock: a refresh is started whether or not the mutex is free.
TryLockBlind(g) ==
  /\ Go(g, "trylock", "call")
  /\ locked' = TRUE
  /\ \E r \in Refreshers :
       refresh[r] = "none" /\ refresh' = [refresh EXCEPT ![r] = "create"]
  /\ UNCHANGED <<now, registered, entry, since, cacheName, fails, made, until, row>>

\* if entry.Mu.TryLock() { go refreshCache(...) }
TryLock(g) ==
  /\ Go(g, "trylock", "call")
  /\ \/ locked /\ UNCHANGED <<locked, refresh>>
     \/ /\ ~locked
        /\ locked' = TRUE
        /\ \E r \in Refreshers :
             refresh[r] = "none" /\ refresh' = [refresh EXCEPT ![r] = "create"]
  /\ UNCHANGED <<now, registered, entry, since, cacheName, fails, made, until, row>>

\* CallGeminiText, with the cache if there is one: its request has been served.
Call(g) ==
  /\ Go(g, "call", "idle")
  /\ cacheName' = [cacheName EXCEPT ![g] = 0]
  /\ since' = [since EXCEPT ![g] = 0]
  /\ UNCHANGED <<now, registered, entry, locked, fails, refVars, until, row>>
-----------------------------------------------------------------------------
(***************************************************************************)
(* refreshCache.                                                           *)
(***************************************************************************)
RefreshGo(r, from, to) ==
  /\ refresh[r] = from
  /\ refresh' = [refresh EXCEPT ![r] = to]

\* The API creates a cache; the answer is on its way.
Create(r) ==
  /\ Len(until) < MaxCreates
  /\ RefreshGo(r, "create", "created")
  /\ until' = Append(until, now + Ttl)
  /\ made' = [made EXCEPT ![r] = Len(until) + 1]
  /\ UNCHANGED <<now, registered, entry, locked, genVars, row>>

\* NewClient or Caches.Create fails, or the answer is lost: entry.FailCount++
CreateFails(r) ==
  /\ failCount < MaxFails
  /\ RefreshGo(r, "create", "failed") \/ RefreshGo(r, "created", "failed")
  /\ failCount' = failCount + 1
  /\ UNCHANGED <<now, registered, name, expiresAt, torn, locked, genVars, made, until, row>>

\* Mutant of MarkFailure: the mark is put back by the margin.
MarkFailureEarly(r) ==
  /\ RefreshGo(r, "failed", "marked")
  /\ expiresAt' = now - Margin
  /\ torn' = TRUE
  /\ UNCHANGED <<now, registered, name, failCount, locked, genVars, made, until, row>>

\* entry.ExpiresAt = time.Now(), begun and finished; the deferred Unlock.
MarkFailure(r) ==
  /\ RefreshGo(r, "failed", "marked")
  /\ expiresAt' = now
  /\ torn' = TRUE
  /\ UNCHANGED <<now, registered, name, failCount, locked, genVars, made, until, row>>

LeaveFailure(r) ==
  /\ RefreshGo(r, "marked", "none")
  /\ torn' = FALSE
  /\ made' = [made EXCEPT ![r] = 0]
  /\ locked' = FALSE
  /\ UNCHANGED <<now, registered, name, expiresAt, failCount, genVars, until, row>>

\* entry.Name = resp.Name
WriteName(r) ==
  /\ RefreshGo(r, "created", "named")
  /\ name' = made[r]
  /\ UNCHANGED <<now, registered, expiresAt, torn, failCount, locked, genVars, made, until, row>>

\* entry.ExpiresAt = time.Now().Add(ttl), begun and finished.
WriteExpiry(r) ==
  /\ RefreshGo(r, "named", "dating")
  /\ expiresAt' = now + Ttl
  /\ torn' = TRUE
  /\ UNCHANGED <<now, registered, name, failCount, locked, genVars, made, until, row>>

ExpiryWritten(r) ==
  /\ RefreshGo(r, "dating", "dated")
  /\ torn' = FALSE
  /\ UNCHANGED <<now, registered, name, expiresAt, failCount, locked, genVars, made,
                 until, row>>

\* Mutant of ResetFails: a success does not end the failures.
ResetFailsForgotten(r) ==
  /\ RefreshGo(r, "dated", "saving")
  /\ UNCHANGED <<now, registered, entry, locked, genVars, made, until, row>>

\* entry.FailCount = 0
ResetFails(r) ==
  /\ RefreshGo(r, "dated", "saving")
  /\ failCount' = 0
  /\ UNCHANGED <<now, registered, name, expiresAt, torn, locked, genVars, made, until, row>>

\* Mutant of SaveRow: the row counts its time to live from the INSERT.
SaveRowLater(r) ==
  /\ RefreshGo(r, "saving", "none")
  /\ row' = [name |-> made[r], until |-> now + Ttl] \/ UNCHANGED row
  /\ made' = [made EXCEPT ![r] = 0]
  /\ locked' = FALSE
  /\ UNCHANGED <<now, registered, entry, genVars, until>>

\* INSERT ... ON CONFLICT DO UPDATE, whose error is only logged; the deferred Unlock.
SaveRow(r) ==
  /\ RefreshGo(r, "saving", "none")
  /\ row' = [name |-> made[r], until |-> expiresAt] \/ UNCHANGED row
  /\ made' = [made EXCEPT ![r] = 0]
  /\ locked' = FALSE
  /\ UNCHANGED <<now, registered, entry, genVars, until>>
-----------------------------------------------------------------------------
\* The process dies, and Init of the next one loads the row.
Restart ==
  /\ registered' = (row.name # 0)
  /\ name' = row.name
  /\ expiresAt' = row.until
  /\ torn' = FALSE
  /\ failCount' = 0
  /\ locked' = FALSE
  /\ gen' = [g \in Generators |-> "idle"]
  /\ since' = [g \in Generators |-> 0]
  /\ cacheName' = [g \in Generators |-> 0]
  /\ fails' = [g \in Generators |-> 0]
  /\ refresh' = [r \in Refreshers |-> "none"]
  /\ made' = [r \in Refreshers |-> 0]
  /\ UNCHANGED <<now, until, row>>

\* The cache is made, and the entry does not say so yet.
Answering == {"created", "named", "dating", "dated"}

\* The generator has found the entry fresh and has not yet used it.
Relying(g) ==
  gen[g] \in {"fresh", "name"} \/ (gen[g] = "call" /\ cacheName[g] # 0)

\* Time passes, but an answer takes no longer than CreateDelay to be recorded
\* and a verdict no longer than GenDelay to be used.
Clock ==
  /\ now < MaxTime
  /\ \A r \in Refreshers :
       refresh[r] \in Answering => now + 1 + Ttl <= until[made[r]] + CreateDelay
  /\ \A g \in Generators : Relying(g) => now < since[g] + GenDelay
  /\ now' = now + 1
  /\ UNCHANGED <<registered, entry, locked, genVars, refVars, until, row>>
-----------------------------------------------------------------------------
Generator(g) ==
  \/ Load(g) \/ LoadOrStore(g) \/ ReadFails(g) \/ CheckBackoff(g) \/ CheckExpiry(g)
  \/ CheckClean(g) \/ ReadName(g) \/ TryLock(g) \/ Call(g)

Refresher(r) ==
  \/ Create(r) \/ CreateFails(r) \/ MarkFailure(r) \/ LeaveFailure(r)
  \/ WriteName(r) \/ WriteExpiry(r) \/ ExpiryWritten(r) \/ ResetFails(r)
  \/ SaveRow(r)

Next ==
  \/ \E g \in Generators : Generator(g)
  \/ \E r \in Refreshers : Refresher(r)
  \/ Restart
  \/ Clock

Spec == Init /\ [][Next]_vars
-----------------------------------------------------------------------------
Caches == 1..Len(until)

Places == {"idle", "missing", "breaker", "breaker2", "backoff", "backoff2", "expiry",
           "recheck", "fresh", "name", "trylock", "call"}

\* The values of the variables.
TypeOK ==
  /\ now \in Nat
  /\ registered \in BOOLEAN /\ torn \in BOOLEAN /\ locked \in BOOLEAN
  /\ until \in Seq(Nat)
  /\ name \in {0} \union Caches
  /\ expiresAt \in Nat /\ failCount \in Nat
  /\ gen \in [Generators -> Places]
  /\ since \in [Generators -> 0..now]
  /\ cacheName \in [Generators -> {0} \union Caches]
  /\ fails \in [Generators -> Nat]
  /\ refresh \in [Refreshers -> Answering \union {"none", "create", "failed", "marked", "saving"}]
  /\ made \in [Refreshers -> {0} \union Caches]
  /\ row \in [name : {0} \union Caches, until : Nat]

\* At most one refreshCache at a time, and the mutex is held for as long as
\* it runs and no longer (llm.go: TryLock in one goroutine, Unlock in another).
OneRefresher ==
  /\ \A q, r \in Refreshers : refresh[q] # "none" /\ refresh[r] # "none" => q = r
  /\ locked <=> \E r \in Refreshers : refresh[r] # "none"

\* The API is never asked to use a cache that it has forgotten: with reads that
\* overlap the writes, restarts from the row and a failure's mark in ExpiresAt,
\* the margin covers what the delays take (llm.go: Add(-5 * time.Minute)).
NoExpiredCache ==
  \A g \in Generators :
    gen[g] = "call" /\ cacheName[g] # 0
      => cacheName[g] \in Caches /\ now <= until[cacheName[g]]

\* The row never promises more than the entry it was saved from: a process
\* that starts from it is as safe as the one that wrote it.
RowIsSafe ==
  row.name # 0 => row.until <= until[row.name] + CreateDelay

\* A bot whose refreshes fail is not kept from its cache for longer than the
\* backoff, an hour at most: whenever no refresh runs, the mark that the backoff
\* counts from is not in the future (llm.go: ExpiresAt holds the mark after a
\* failure and the end of the cache after a success).
BackoffEnds == failCount >= 3 /\ ~locked => expiresAt <= now

\* README.md:13, "Exponential back-off triggers upon sustained Google API
\* failures": a generator that has seen three failures and the mark of the last
\* goes on to a refresh only 15 minutes (backoffMins := 15 * ...) after it.
BackoffHonoured ==
  [][\A g \in Generators :
       gen[g] \in {"backoff", "backoff2"} /\ gen'[g] \in {"expiry", "trylock"} /\ ~torn
         => now >= expiresAt + 15]_vars
=============================================================================
