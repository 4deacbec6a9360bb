--------------------------- MODULE NetworkProofs ---------------------------
(***************************************************************************)
(* Proofs about Connection, Feed and Ghost, for any channels, feeds,       *)
(* goroutines, clients, configurations and bounds, and about the process   *)
(* that keeps them all.                                                    *)
(*                                                                         *)
(* Of the connection: the pauses of the library stay within its limit, or  *)
(* Retry gives up, and its loop begins anew.                               *)
(*                                                                         *)
(* A feed undisturbed has one goroutine at most, and what was announced    *)
(* ends at the time in the database, or, while it announces, at the item   *)
(* it has come to. What a disturbed feed keeps is that neither the         *)
(* database nor a goroutine has a time that was not announced.             *)
(*                                                                         *)
(* That a ghost's session without TLS cannot end the process is not        *)
(* inductive: it rests on the race of the two relays for sync.Once, of     *)
(* which only the winner may close `done`.                                 *)
(***************************************************************************)
EXTENDS MCNetwork, TLAPS

\* The constants of a connection are numbers.
LEMMA ConnNumbers ==
  /\ ReconnectDelay \in Nat /\ Initial \in Nat /\ Multiplier \in Nat /\ MaxInterval \in Nat
  /\ MaxElapsed \in Nat /\ MaxLosses \in Nat /\ Jitter \in 0..100
  BY ConnectionAssumption

\* The pause before the next dial is a number of ticks, and so is the interval it is
\* drawn around, however it grows.
LEMMA PauseAndInterval ==
  ASSUME NEW i \in Nat
  PROVE  Around(i) \subseteq Nat /\ Grown(i) \in Nat
<1>1. i * (100 - Jitter) \in Nat
  BY ConnNumbers
<1>2. (i * (100 - Jitter)) \div 100 \in Nat
  BY <1>1
<1>3. i * Multiplier \in Nat
  BY ConnNumbers
<1>4. (i * Multiplier) \div 100 \in Nat
  BY <1>3
<1>5. \A n \in Around(i) : n \in Int /\ n >= (i * (100 - Jitter)) \div 100
  BY DEF Around
<1> QED
  BY <1>2, <1>4, <1>5, ConnNumbers DEF Grown

-----------------------------------------------------------------------------
\* The values of the variables of a connection, at the start and through its steps.
LEMMA ConnInitType == ConnInit => ConnTypeOK
<1> SUFFICES ASSUME ConnInit PROVE ConnTypeOK
  OBVIOUS
<1>1. budget \in 0..ReconnectDelay /\ elapsed \in 0..MaxElapsed /\ pause \in 0..MaxElapsed
      /\ losses \in 0..MaxLosses /\ interval \in Nat
  BY ConnNumbers DEF ConnInit
<1> QED
  BY <1>1 DEF ConnInit, ConnTypeOK

LEMMA RedialType ==
  ASSUME ConnTypeOK, Redial, joined' \subseteq Channels, out' \subseteq Channels, budget' = budget, losses' \in 0..MaxLosses, pool' = pool
  PROVE  ConnTypeOK'
  BY ConnNumbers DEF ConnTypeOK, Redial

LEMMA DialerReturnsType ==
  ASSUME ConnTypeOK, DialerReturns
  PROVE  ConnTypeOK'
<1>1. losses' \in 0..MaxLosses /\ joined' = {} /\ out' = {} /\ budget' = budget /\ pool' = pool
  BY ConnNumbers DEF DialerReturns, ConnTypeOK
<1>2. PICK next \in Around(interval) :
        \/ GivesUp(next) /\ Redial
        \/ /\ ~GivesUp(next) /\ link' = "down" /\ pause' = next
           /\ interval' = Grown(interval) /\ UNCHANGED elapsed
  BY DEF DialerReturns
<1>3. CASE ~GivesUp(next) /\ link' = "down" /\ pause' = next /\ interval' = Grown(interval) /\ UNCHANGED elapsed
  <2>1. next \in Nat /\ interval' \in Nat
    BY <1>2, <1>3, PauseAndInterval DEF ConnTypeOK
  <2>2. next \in 0..MaxElapsed
    BY <1>3, <2>1, ConnNumbers DEF GivesUp, ConnTypeOK
  <2> QED
    BY <1>1, <1>3, <2>1, <2>2 DEF ConnTypeOK
<1> QED
  BY <1>1, <1>2, <1>3, RedialType

LEMMA ConnClockType ==
  ASSUME ConnTypeOK, ConnClock
  PROVE  ConnTypeOK'
  BY ConnNumbers DEF ConnTypeOK, ConnClock, Least

LEMMA ConnNextType ==
  ASSUME ConnTypeOK, ConnNext
  PROVE  ConnTypeOK'
<1>1. CASE \/ PauseOver \/ Connected \/ Registered \/ ConnectToDB
           \/ \E c \in Channels : Join(c) \/ Leave(c) \/ JoinAgain(c)
  BY <1>1 DEF ConnTypeOK, PauseOver, Connected, Registered, ConnectToDB, Join, Leave, JoinAgain, retryVars
<1>2. CASE PauseCut
  BY <1>2, RedialType DEF ConnTypeOK, PauseCut
<1> QED
  BY <1>1, <1>2, DialerReturnsType, ConnClockType DEF ConnNext, Keeper
-----------------------------------------------------------------------------

\* The values of the variables of the feeds alone.
OwnTypeOK ==
  /\ published \in [Feeds -> Nat]
  /\ row \in [Feeds -> Nat \union {NoRow}]
  /\ fetch \in [Fetches -> FetchStates]
  /\ said \in [Feeds -> SUBSET Nat] /\ lost \subseteq Feeds /\ repeated \subseteq Feeds
  /\ disturbed \subseteq Feeds /\ outside \subseteq Feeds

\* What a goroutine has announced up to was announced, and its feed has what it fetched.
FetchSound(g) ==
  /\ fetch[g].at = "announce" => \A i \in 1..fetch[g].newest : i \in said[fetch[g].of]
  /\ fetch[g].at \in {"select", "insert", "announce"} => fetch[g].last <= published[fetch[g].of]

\* The database has no time that was not announced, or not published.
RowSound(f) ==
  /\ \A i \in 1..row[f] : i \in said[f]
  /\ row[f] <= published[f]

\* While a feed is fetched its channel is in reach, or was not at some time.
LinkSound(f) == (Busy(f) # {} => InReach(f) \/ f \in outside) /\ (f \in lost => f \in outside)

\* A feed whose fetches neither overlapped nor broke off.
Undisturbed(f) ==
  /\ f \notin repeated
  /\ \A g, h \in Busy(f) : g = h
  /\ (\A g \in Busy(f) : fetch[g].at # "announce") => \A i \in said[f] : i <= row[f]
  /\ \A g \in Busy(f) :
       /\ fetch[g].at \in {"select", "insert"} => row[f] <= fetch[g].last
       /\ fetch[g].at = "announce" =>
            fetch[g].newest <= fetch[g].last /\ \A i \in said[f] : i <= fetch[g].newest

FeedInv ==
  /\ OwnTypeOK
  /\ \A g \in Fetches : FetchSound(g)
  /\ \A f \in Feeds : RowSound(f) /\ LinkSound(f) /\ (f \notin disturbed => Undisturbed(f))
-----------------------------------------------------------------------------
\* What a goroutine may be doing.
LEMMA FetchKinds ==
  ASSUME OwnTypeOK, NEW g \in Fetches
  PROVE  \/ fetch[g] = Resting /\ fetch[g].at = "rest"
         \/ fetch[g].at = "fetch" /\ fetch[g].of \in Feeds
         \/ fetch[g].at \in {"select", "insert"} /\ fetch[g].of \in Feeds /\ fetch[g].last \in Nat
         \/ fetch[g].at = "announce" /\ fetch[g].of \in Feeds /\ fetch[g].last \in Nat /\ fetch[g].newest \in Nat
  BY DEF OwnTypeOK, FetchStates, Resting

LEMMA RestingForm == Resting \in FetchStates /\ Resting.at = "rest"
  BY DEF FetchStates, Resting
-----------------------------------------------------------------------------
\* What is promised of a goroutine, of a row and of a feed outlasts steps that only add
\* to what was announced and published, and goroutines that give up before announcing.
LEMMA FetchFrame ==
  ASSUME OwnTypeOK, OwnTypeOK', NEW g \in Fetches, FetchSound(g), fetch'[g] = fetch[g],
         \A f \in Feeds : said[f] \subseteq said'[f] /\ published[f] <= published'[f]
  PROVE  FetchSound(g)'
<1>1. CASE fetch[g].at = "announce"
  <2>1. fetch[g].of \in Feeds /\ fetch[g].last \in Nat
    BY <1>1, FetchKinds
  <2>2. published[fetch[g].of] \in Nat /\ published'[fetch[g].of] \in Nat
    BY <2>1 DEF OwnTypeOK
  <2>3. fetch'[g].last <= published'[fetch'[g].of]
    BY <1>1, <2>1, <2>2 DEF FetchSound
  <2> QED
    BY <1>1, <2>1, <2>3 DEF FetchSound
<1>2. CASE fetch[g].at \in {"select", "insert"}
  <2>1. fetch[g].of \in Feeds /\ fetch[g].last \in Nat
    BY <1>2, FetchKinds
  <2>2. published[fetch[g].of] \in Nat /\ published'[fetch[g].of] \in Nat
    BY <2>1 DEF OwnTypeOK
  <2> QED
    BY <1>2, <2>1, <2>2 DEF FetchSound
<1>3. CASE fetch[g].at \in {"rest", "fetch"}
  BY <1>3 DEF FetchSound
<1> QED
  BY <1>1, <1>2, <1>3, FetchKinds

LEMMA RowFrame ==
  ASSUME OwnTypeOK, OwnTypeOK', NEW f \in Feeds, RowSound(f), row'[f] = row[f],
         said[f] \subseteq said'[f], published[f] <= published'[f]
  PROVE  RowSound(f)'
<1>1. published[f] \in Nat /\ published'[f] \in Nat /\ row[f] \in Nat \union {NoRow}
  BY DEF OwnTypeOK
<1> QED
  BY <1>1 DEF RowSound, NoRow

LEMMA UndisturbedFrame ==
  ASSUME OwnTypeOK, NEW f \in Feeds, Undisturbed(f),
         row'[f] = row[f], said'[f] = said[f], f \in repeated' => f \in repeated,
         \A g \in Fetches :
           \/ fetch'[g] = fetch[g]
           \/ (g \notin Busy(f) /\ g \notin Busy(f)')
           \/ fetch[g].at # "announce" /\ fetch'[g].at = "rest"
  PROVE  Undisturbed(f)'
<1>1. \A g \in Busy(f)' : g \in Busy(f) /\ fetch'[g] = fetch[g]
  BY DEF Busy
<1>2. ASSUME \A g \in Busy(f)' : fetch'[g].at # "announce"
      PROVE  \A g \in Busy(f) : fetch[g].at # "announce"
  BY <1>2 DEF Busy
<1> QED
  BY <1>1, <1>2 DEF Undisturbed

\* A step of a goroutine with one feed leaves the other feeds and goroutines as they were.
LEMMA OneGoroutine ==
  ASSUME FeedInv, OwnTypeOK', NEW g \in Fetches, NEW f \in Feeds, fetch[g].at # "rest", fetch[g].of = f,
         NEW r \in FetchStates, fetch' = [fetch EXCEPT ![g] = r], r.at = "rest" \/ r.of = f,
         UNCHANGED <<published, link, joined, outside>>, disturbed \subseteq disturbed',
         \A e \in Feeds : said[e] \subseteq said'[e],
         \A e \in Feeds \ {f} : UNCHANGED <<row[e], said[e]>> /\ (e \in repeated' => e \in repeated),
         \A e \in Feeds : e \in lost' => e \in lost \/ (e = f /\ ~InReach(f)),
         FetchSound(g)', RowSound(f)',
         f \notin disturbed' => Undisturbed(f)'
  PROVE  FeedInv'
<1>1. OwnTypeOK /\ g \in Busy(f)
  BY FetchKinds DEF FeedInv, Busy
<1>2. fetch'[g] = r /\ \A h \in Fetches : h # g => fetch'[h] = fetch[h]
  BY <1>1 DEF OwnTypeOK
<1>3. \A e \in Feeds : Busy(e)' \subseteq Busy(e)
  BY <1>2 DEF Busy
<1>4. \A h \in Fetches : FetchSound(h)'
  <2> SUFFICES ASSUME NEW h \in Fetches, h # g PROVE FetchSound(h)'
    OBVIOUS
  <2>1. \A e \in Feeds : said[e] \subseteq said'[e] /\ published[e] <= published'[e]
    BY <1>1 DEF OwnTypeOK
  <2>2. h \in Fetches /\ FetchSound(h) /\ fetch'[h] = fetch[h]
    BY <1>2 DEF FeedInv
  <2> QED
    BY ONLY <1>1, <2>1, <2>2, OwnTypeOK', FetchFrame
<1>5. \A e \in Feeds : LinkSound(e)'
  BY <1>1, <1>3 DEF FeedInv, LinkSound, InReach
<1>6. ASSUME NEW e \in Feeds, e # f
      PROVE  RowSound(e)' /\ (e \notin disturbed' => Undisturbed(e)')
  <2>1. e \in Feeds /\ published[e] <= published'[e] /\ row'[e] = row[e] /\ said[e] \subseteq said'[e] /\ RowSound(e)
    BY <1>1, <1>6 DEF OwnTypeOK, FeedInv
  <2>2. RowSound(e)'
    BY ONLY <1>1, <1>6, <2>1, OwnTypeOK', RowFrame
  <2>3. \A h \in Fetches : fetch'[h] = fetch[h] \/ (h \notin Busy(e) /\ h \notin Busy(e)')
    BY <1>2, <1>6 DEF Busy
  <2>4. e \notin disturbed' => Undisturbed(e)'
    BY <1>1, <1>6, <2>3, UndisturbedFrame DEF FeedInv
  <2> QED
    BY <2>2, <2>4
<1> QED
  BY <1>1, <1>4, <1>5, <1>6 DEF FeedInv

\* In a feed undisturbed the goroutine that steps is the only one.
LEMMA OnlyGoroutine ==
  ASSUME OwnTypeOK, NEW f \in Feeds, Undisturbed(f), NEW g \in Busy(f),
         NEW r \in FetchStates, fetch' = [fetch EXCEPT ![g] = r], r.at = "rest" \/ r.of = f
  PROVE  Busy(f)' = (IF r.at = "rest" THEN {} ELSE {g}) /\ fetch'[g] = r
<1>1. g \in Fetches /\ \A h \in Busy(f) : h = g
  BY DEF Undisturbed, Busy
<1>2. fetch'[g] = r /\ \A h \in Fetches : h # g => fetch'[h] = fetch[h]
  BY <1>1 DEF OwnTypeOK
<1> QED
  BY <1>1, <1>2 DEF Busy
-----------------------------------------------------------------------------
\* What one goroutine does to the values of the variables.
LEMMA FetchType ==
  ASSUME OwnTypeOK, NEW g \in Fetches, NEW r \in FetchStates, fetch' = [fetch EXCEPT ![g] = r],
         UNCHANGED <<published, row, chatVars, outside>>, disturbed' \subseteq Feeds
  PROVE  OwnTypeOK'
  BY DEF OwnTypeOK, chatVars

\* A goroutine that gives up, or goes from one statement to the next, has announced nothing.
LEMMA GivesUpInv ==
  ASSUME FeedInv, NEW g \in Fetches, fetch[g].at \in {"fetch", "select", "insert"},
         fetch' = [fetch EXCEPT ![g] = Resting],
         UNCHANGED <<link, joined, published, row, chatVars, disturbed, outside>>
  PROVE  FeedInv'
<1>1. OwnTypeOK /\ fetch[g].of \in Feeds
  BY FetchKinds DEF FeedInv
<1>2. PICK f \in Feeds : fetch[g].of = f
  BY <1>1
<1>3. OwnTypeOK'
  BY <1>1, FetchType, RestingForm DEF OwnTypeOK
<1>4. fetch'[g].at = "rest" /\ \A h \in Fetches : h # g => fetch'[h] = fetch[h]
  BY <1>1, RestingForm DEF OwnTypeOK
<1>5. FetchSound(g)'
  BY <1>4 DEF FetchSound
<1>6. RowSound(f)'
  BY DEF FeedInv, RowSound, chatVars
<1>7. f \notin disturbed' => Undisturbed(f)'
  <2>1. row'[f] = row[f] /\ said'[f] = said[f] /\ repeated' = repeated
    BY DEF chatVars
  <2>2. \A h \in Fetches : fetch'[h] = fetch[h] \/ (fetch[h].at # "announce" /\ fetch'[h].at = "rest")
    BY <1>4
  <2> QED
    BY <1>1, <2>1, <2>2, UndisturbedFrame DEF FeedInv
<1> QED
  BY <1>1, <1>2, <1>3, <1>5, <1>6, <1>7, RestingForm, OneGoroutine DEF chatVars

LEMMA NextStatementInv ==
  ASSUME FeedInv, NEW g \in Fetches, NEW f \in Feeds, fetch[g].of = f,
         NEW at \in {"select", "insert"}, NEW last \in Nat,
         \/ fetch[g].at = "fetch" /\ last = published[f]
         \/ fetch[g].at = "select" /\ last = fetch[g].last,
         fetch' = [fetch EXCEPT ![g] = Fetched(at, f, last)],
         UNCHANGED <<link, joined, published, row, chatVars, disturbed, outside>>
  PROVE  FeedInv'
<1> DEFINE r == Fetched(at, f, last)
<1>1. OwnTypeOK /\ published[f] \in Nat /\ row[f] \in Nat \union {NoRow}
  BY DEF FeedInv, OwnTypeOK
<1>2. r \in FetchStates /\ r.at = at /\ r.of = f /\ r.last = last /\ r.at # "rest"
  BY DEF FetchStates, Fetched
<1> HIDE DEF r
<1>3. fetch' = [fetch EXCEPT ![g] = r] /\ fetch'[g] = r
  BY <1>1 DEF r, OwnTypeOK
<1>4. OwnTypeOK'
  <2>1. disturbed' \subseteq Feeds
    BY <1>1 DEF OwnTypeOK
  <2> QED
    BY <1>1, <1>2, <1>3, <2>1, FetchType
<1>5. last <= published[f]
  BY <1>1 DEF FeedInv, FetchSound
<1>6. FetchSound(g)'
  BY <1>2, <1>3, <1>5 DEF FetchSound
<1>7. RowSound(f)' /\ row[f] <= published[f]
  BY DEF FeedInv, RowSound, chatVars
<1>8. f \notin disturbed' => Undisturbed(f)'
  <2> SUFFICES ASSUME f \notin disturbed PROVE Undisturbed(f)'
    OBVIOUS
  <2>1. Undisturbed(f) /\ g \in Busy(f)
    BY DEF FeedInv, Busy
  <2>2. Busy(f)' = (IF r.at = "rest" THEN {} ELSE {g})
    BY ONLY <1>1, <1>2, <1>3, <2>1, f \in Feeds, OnlyGoroutine
  <2>3. \A i \in said[f] : i <= row[f]
    BY <2>1 DEF Undisturbed
  <2>4. row[f] <= last
    BY <1>7, <2>1 DEF Undisturbed
  <2>5. row'[f] = row[f] /\ said'[f] = said[f] /\ f \notin repeated'
    BY <2>1 DEF Undisturbed, chatVars
  <2>6. fetch'[g].at # "announce" /\ fetch'[g].last = last
    BY <1>2, <1>3
  <2> QED
    BY <1>2, <2>2, <2>3, <2>4, <2>5, <2>6 DEF Undisturbed
<1> QED
  BY <1>1, <1>2, <1>3, <1>4, <1>6, <1>7, <1>8, OneGoroutine DEF chatVars
LEMMA SelectInv ==
  ASSUME FeedInv, NEW g \in Fetches, NEW f \in Feeds, fetch[g].of = f, Select(g), row[f] # NoRow
  PROVE  FeedInv'
<1> DEFINE r == Announcing(f, fetch[g].last, row[f])
<1>1. OwnTypeOK /\ fetch[g].at = "select" /\ published[f] \in Nat /\ row[f] \in Nat /\ fetch[g].last \in Nat
  BY FetchKinds DEF FeedInv, OwnTypeOK, Select
<1>2. r \in FetchStates /\ r.at = "announce" /\ r.of = f /\ r.last = fetch[g].last /\ r.newest = row[f]
  BY <1>1 DEF FetchStates, Announcing
<1>3. fetch' = [fetch EXCEPT ![g] = r]
  BY DEF Select
<1>4. UNCHANGED <<link, joined, published, row, chatVars, disturbed, outside>>
  BY DEF Select, connVars
<1> HIDE DEF r
<1>5. fetch'[g] = r
  BY <1>1, <1>3 DEF OwnTypeOK
<1>6. OwnTypeOK'
  <2>1. disturbed' \subseteq Feeds
    BY <1>1, <1>4 DEF OwnTypeOK
  <2> QED
    BY <1>1, <1>2, <1>3, <1>4, <2>1, FetchType
<1>7. RowSound(f)' /\ RowSound(f)
  BY <1>4 DEF FeedInv, RowSound, chatVars
<1>8. FetchSound(g)'
  <2>1. fetch[g].last <= published[f]
    BY <1>1 DEF FeedInv, FetchSound
  <2> QED
    BY <1>2, <1>4, <1>5, <1>7, <2>1 DEF FetchSound, RowSound, chatVars
<1>9. f \notin disturbed' => Undisturbed(f)'
  <2> SUFFICES ASSUME f \notin disturbed PROVE Undisturbed(f)'
    BY <1>4
  <2>1. Undisturbed(f) /\ g \in Busy(f)
    BY <1>1 DEF FeedInv, Busy
  <2>2. Busy(f)' = (IF r.at = "rest" THEN {} ELSE {g})
    BY ONLY <1>1, <1>2, <1>3, <2>1, f \in Feeds, OnlyGoroutine
  <2>3. (\A i \in said[f] : i <= row[f]) /\ row[f] <= fetch[g].last
    BY <1>1, <2>1 DEF Undisturbed
  <2>4. row'[f] = row[f] /\ said'[f] = said[f] /\ f \notin repeated'
    BY <1>4, <2>1 DEF Undisturbed, chatVars
  <2> QED
    BY <1>2, <1>5, <2>2, <2>3, <2>4 DEF Undisturbed
<1> QED
  BY <1>1, <1>2, <1>3, <1>4, <1>6, <1>7, <1>8, <1>9, OneGoroutine DEF chatVars

\* The first INSERT of a feed: nothing of it was announced, if it was not disturbed.
LEMMA InsertInv ==
  ASSUME FeedInv, NEW g \in Fetches, NEW f \in Feeds, fetch[g].of = f, Insert(g), row[f] = NoRow
  PROVE  FeedInv'
<1> DEFINE r == Announcing(f, fetch[g].last, 0)
<1>1. OwnTypeOK /\ fetch[g].at = "insert" /\ published[f] \in Nat /\ fetch[g].last \in Nat
  BY FetchKinds DEF FeedInv, OwnTypeOK, Insert
<1>2. r \in FetchStates /\ r.at = "announce" /\ r.of = f /\ r.last = fetch[g].last /\ r.newest = 0
  BY <1>1 DEF FetchStates, Announcing
<1>3. fetch' = [fetch EXCEPT ![g] = r] /\ row' = [row EXCEPT ![f] = 0]
  BY DEF Insert
<1>4. UNCHANGED <<link, joined, published, chatVars, disturbed, outside>>
  BY DEF Insert, connVars
<1> HIDE DEF r
<1>5. fetch'[g] = r /\ row'[f] = 0 /\ \A e \in Feeds \ {f} : row'[e] = row[e]
  BY <1>1, <1>3 DEF OwnTypeOK
<1>6. OwnTypeOK'
  BY <1>1, <1>2, <1>3, <1>4 DEF OwnTypeOK, chatVars
<1>7. RowSound(f)'
  BY <1>1, <1>4, <1>5 DEF RowSound
<1>8. FetchSound(g)'
  <2>1. fetch[g].last <= published[f]
    BY <1>1 DEF FeedInv, FetchSound
  <2> QED
    BY <1>2, <1>4, <1>5, <2>1 DEF FetchSound
<1>9. f \notin disturbed' => Undisturbed(f)'
  <2> SUFFICES ASSUME f \notin disturbed PROVE Undisturbed(f)'
    BY <1>4
  <2>1. Undisturbed(f) /\ g \in Busy(f)
    BY <1>1 DEF FeedInv, Busy
  <2>2. Busy(f)' = (IF r.at = "rest" THEN {} ELSE {g})
    BY ONLY <1>1, <1>2, <1>3, <2>1, f \in Feeds, OnlyGoroutine
  <2>3. said[f] = {}
    <3>1. \A i \in said[f] : i \in Nat /\ i <= -1
      BY <1>1, <2>1 DEF Undisturbed, NoRow, OwnTypeOK
    <3> QED
      BY <3>1
  <2>4. said'[f] = said[f] /\ f \notin repeated'
    BY <1>4, <2>1 DEF Undisturbed, chatVars
  <2> QED
    BY <1>1, <1>2, <1>5, <2>2, <2>3, <2>4 DEF Undisturbed
<1> QED
  BY <1>1, <1>2, <1>3, <1>4, <1>5, <1>6, <1>7, <1>8, <1>9, OneGoroutine DEF chatVars

\* One Cmd.Message: the next item, after all up to the one the goroutine has come to.
LEMMA AnnounceInv ==
  ASSUME FeedInv, NEW g \in Fetches, NEW f \in Feeds, fetch[g].of = f, Announce(g)
  PROVE  FeedInv'
<1> DEFINE i == fetch[g].newest + 1
           r == Announcing(f, fetch[g].last, i)
<1>1. /\ OwnTypeOK /\ fetch[g].at = "announce" /\ published[f] \in Nat /\ fetch[g].last \in Nat
      /\ fetch[g].newest \in Nat /\ i \in Nat /\ i <= fetch[g].last
  BY FetchKinds DEF FeedInv, OwnTypeOK, Announce
<1>2. r \in FetchStates /\ r.at = "announce" /\ r.of = f /\ r.last = fetch[g].last /\ r.newest = i
  BY <1>1 DEF FetchStates, Announcing
<1>3. /\ fetch' = [fetch EXCEPT ![g] = r]
      /\ said' = [said EXCEPT ![f] = @ \union {i}]
      /\ MayBeLost(f)
      /\ repeated' = repeated \union {e \in {f} : i \in said[f]}
  BY DEF Announce
<1>4. UNCHANGED <<link, joined, published, row, disturbed, outside>>
  BY DEF Announce, connVars
<1> HIDE DEF r, i
<1>5. /\ fetch'[g] = r /\ said'[f] = said[f] \union {i}
      /\ repeated' = repeated \union {e \in {f} : i \in said[f]}
      /\ \A e \in Feeds \ {f} : said'[e] = said[e]
  BY <1>1, <1>3 DEF OwnTypeOK
<1>6. OwnTypeOK'
  <2>1. said' \in [Feeds -> SUBSET Nat] /\ lost' \subseteq Feeds /\ repeated' \subseteq Feeds
    BY <1>1, <1>3 DEF OwnTypeOK, MayBeLost
  <2>2. fetch' \in [Fetches -> FetchStates]
    BY <1>1, <1>2, <1>3 DEF OwnTypeOK
  <2> QED
    BY <1>1, <1>4, <2>1, <2>2 DEF OwnTypeOK
<1>7. RowSound(f)'
  BY <1>4, <1>5 DEF FeedInv, RowSound
<1>8. FetchSound(g)'
  <2>1. fetch[g].last <= published[f] /\ \A j \in 1..fetch[g].newest : j \in said[f]
    BY <1>1 DEF FeedInv, FetchSound
  <2>2. \A j \in 1..i : j \in said'[f]
    BY <1>1, <1>5, <2>1 DEF i
  <2> QED
    BY <1>2, <1>4, <1>5, <2>1, <2>2 DEF FetchSound
<1>9. f \notin disturbed' => Undisturbed(f)'
  <2> SUFFICES ASSUME f \notin disturbed PROVE Undisturbed(f)'
    BY <1>4
  <2>1. Undisturbed(f) /\ g \in Busy(f)
    BY <1>1 DEF FeedInv, Busy
  <2>2. Busy(f)' = (IF r.at = "rest" THEN {} ELSE {g})
    BY ONLY <1>1, <1>2, <1>3, <2>1, f \in Feeds, OnlyGoroutine
  <2>3. \A j \in said[f] : j \in Nat /\ j <= fetch[g].newest
    BY <1>1, <2>1 DEF Undisturbed, OwnTypeOK
  <2>4. f \notin repeated'
    BY <1>1, <1>5, <2>1, <2>3 DEF Undisturbed, i
  <2>5. \A j \in said'[f] : j <= i
    BY <1>1, <1>5, <2>3 DEF i
  <2> QED
    BY <1>1, <1>2, <1>5, <2>2, <2>4, <2>5 DEF Undisturbed
<1>10. \A e \in Feeds : said[e] \subseteq said'[e]
  BY <1>5
<1>11. \A e \in Feeds : e \in lost' => e \in lost \/ (e = f /\ ~InReach(f))
  BY <1>3 DEF MayBeLost
<1>12. \A e \in Feeds \ {f} : UNCHANGED <<row[e], said[e]>> /\ (e \in repeated' => e \in repeated)
  BY <1>4, <1>5
<1> QED
  BY <1>1, <1>2, <1>3, <1>4, <1>6, <1>7, <1>8, <1>9, <1>10, <1>11, <1>12, OneGoroutine

\* The time written is that of the last item announced, or, in a feed disturbed, an
\* earlier one.
LEMMA UpdateInv ==
  ASSUME FeedInv, NEW g \in Fetches, NEW f \in Feeds, fetch[g].of = f, Update(g)
  PROVE  FeedInv'
<1>1. /\ OwnTypeOK /\ fetch[g].at = "announce" /\ published[f] \in Nat /\ fetch[g].last \in Nat
      /\ fetch[g].newest \in Nat /\ fetch[g].last <= fetch[g].newest
  BY FetchKinds DEF FeedInv, OwnTypeOK, Update
<1>2. Resting \in FetchStates /\ Resting.at = "rest"
  BY RestingForm
<1>3. fetch' = [fetch EXCEPT ![g] = Resting] /\ row' = [row EXCEPT ![f] = fetch[g].last]
  BY DEF Update
<1>4. UNCHANGED <<link, joined, published, chatVars, disturbed, outside>>
  BY DEF Update, connVars
<1>5. fetch'[g] = Resting /\ row'[f] = fetch[g].last /\ \A e \in Feeds \ {f} : row'[e] = row[e]
  BY <1>1, <1>3 DEF OwnTypeOK
<1>6. OwnTypeOK'
  BY <1>1, <1>2, <1>3, <1>4 DEF OwnTypeOK, chatVars
<1>7. RowSound(f)'
  <2>1. fetch[g].last <= published[f] /\ \A j \in 1..fetch[g].newest : j \in said[f]
    BY <1>1 DEF FeedInv, FetchSound
  <2>2. \A j \in 1..fetch[g].last : j \in said[f]
    BY <1>1, <2>1
  <2> QED
    BY <1>4, <1>5, <2>1, <2>2 DEF RowSound, chatVars
<1>8. FetchSound(g)'
  BY <1>2, <1>5 DEF FetchSound
<1>9. f \notin disturbed' => Undisturbed(f)'
  <2> SUFFICES ASSUME f \notin disturbed PROVE Undisturbed(f)'
    BY <1>4
  <2>1. Undisturbed(f) /\ g \in Busy(f)
    BY <1>1 DEF FeedInv, Busy
  <2>2. Busy(f)' = {}
    BY ONLY <1>1, <1>2, <1>3, <2>1, f \in Feeds, OnlyGoroutine
  <2>3. \A j \in said[f] : j <= fetch[g].newest /\ fetch[g].newest <= fetch[g].last
    BY <1>1, <2>1 DEF Undisturbed
  <2>4. \A j \in said[f] : j <= fetch[g].last
    BY <1>1, <2>3
  <2>5. said'[f] = said[f] /\ f \notin repeated'
    BY <1>4, <2>1 DEF Undisturbed, chatVars
  <2> QED
    BY <1>5, <2>2, <2>4, <2>5 DEF Undisturbed
<1> QED
  BY <1>1, <1>2, <1>3, <1>4, <1>5, <1>6, <1>7, <1>8, <1>9, OneGoroutine DEF chatVars

\* The time cannot be written: the feed is disturbed from then on.
LEMMA UpdateFailsInv ==
  ASSUME FeedInv, NEW g \in Fetches, NEW f \in Feeds, fetch[g].of = f, fetch[g].at = "announce",
         fetch' = [fetch EXCEPT ![g] = Resting], disturbed' = disturbed \union {f},
         UNCHANGED <<link, joined, published, row, chatVars, outside>>
  PROVE  FeedInv'
<1>1. OwnTypeOK
  BY DEF FeedInv
<1>2. Resting \in FetchStates /\ Resting.at = "rest"
  BY RestingForm
<1>3. fetch'[g] = Resting
  BY <1>1 DEF OwnTypeOK
<1>4. OwnTypeOK'
  <2>1. disturbed' \subseteq Feeds
    BY <1>1 DEF OwnTypeOK
  <2> QED
    BY <1>1, <1>2, <2>1, FetchType
<1>5. RowSound(f)' /\ FetchSound(g)'
  BY <1>2, <1>3 DEF FeedInv, RowSound, FetchSound, chatVars
<1> QED
  BY <1>1, <1>2, <1>4, <1>5, OneGoroutine DEF chatVars

LEMMA GetFeedInv ==
  ASSUME FeedInv, NEW g \in Fetches, GetFeed(g)
  PROVE  FeedInv'
<1>1. OwnTypeOK
  BY DEF FeedInv
<1>2. fetch[g].at \in {"fetch", "select", "insert", "announce"}
  BY DEF GetFeed, Parse, Select, Insert, Announce, Update
<1>3. PICK f \in Feeds : fetch[g].of = f
  BY <1>1, <1>2, FetchKinds
<1>4. CASE Parse(g)
  <2>1. UNCHANGED <<link, joined, published, row, chatVars, disturbed, outside>> /\ fetch[g].at = "fetch"
    BY <1>4 DEF Parse, connVars
  <2>2. CASE published[f] = 0
    BY <1>3, <1>4, <2>1, <2>2, GivesUpInv DEF Parse
  <2>3. CASE published[f] # 0
    <3>1. fetch' = [fetch EXCEPT ![g] = Fetched("select", f, published[f])]
      BY <1>3, <1>4, <2>3 DEF Parse
    <3>2. published[f] \in Nat
      BY <1>1 DEF OwnTypeOK
    <3> QED
      BY <1>3, <2>1, <3>1, <3>2, NextStatementInv
  <2> QED
    BY <2>2, <2>3
<1>5. CASE Select(g)
  <2>1. CASE row[f] = NoRow
    <3>1. UNCHANGED <<link, joined, published, row, chatVars, disturbed, outside>> /\ fetch[g].at = "select"
      BY <1>5 DEF Select, connVars
    <3>2. fetch' = [fetch EXCEPT ![g] = Fetched("insert", f, fetch[g].last)]
      BY <1>3, <1>5, <2>1 DEF Select
    <3>3. fetch[g].last \in Nat
      BY <1>1, <3>1, FetchKinds
    <3> QED
      BY <1>3, <3>1, <3>2, <3>3, NextStatementInv
  <2> QED
    BY <1>3, <1>5, <2>1, SelectInv
<1>6. CASE Insert(g)
  <2>1. CASE row[f] # NoRow
    <3>1. fetch' = [fetch EXCEPT ![g] = Resting] /\ row' = row /\ fetch[g].at = "insert"
      BY <1>3, <1>6, <2>1 DEF Insert
    <3> QED
      BY <1>6, <3>1, GivesUpInv DEF Insert, connVars
  <2> QED
    BY <1>3, <1>6, <2>1, InsertInv
<1> QED
  BY <1>3, <1>4, <1>5, <1>6, AnnounceInv, UpdateInv DEF GetFeed

LEMMA GetFeedFailsInv ==
  ASSUME FeedInv, NEW g \in Fetches, GetFeedFails(g)
  PROVE  FeedInv'
<1>1. OwnTypeOK /\ UNCHANGED <<link, joined, published, row, chatVars, outside>>
  BY DEF FeedInv, GetFeedFails, connVars
<1>2. CASE fetch[g].at \in {"fetch", "insert"}
  <2>1. fetch' = [fetch EXCEPT ![g] = Resting] /\ UNCHANGED disturbed
    BY <1>2 DEF GetFeedFails
  <2> QED
    BY <1>1, <1>2, <2>1, GivesUpInv
<1>3. CASE fetch[g].at = "select"
  <2>1. PICK f \in Feeds : fetch[g].of = f
    BY <1>1, <1>3, FetchKinds
  <2>2. fetch' = [fetch EXCEPT ![g] = Fetched("insert", f, fetch[g].last)] /\ UNCHANGED disturbed
    BY <1>3, <2>1 DEF GetFeedFails
  <2>3. fetch[g].last \in Nat
    BY <1>1, <1>3, FetchKinds
  <2> QED
    BY <1>1, <1>3, <2>1, <2>2, <2>3, NextStatementInv
<1>4. CASE fetch[g].at = "announce"
  <2>1. PICK f \in Feeds : fetch[g].of = f
    BY <1>1, <1>4, FetchKinds
  <2> QED
    BY <1>1, <1>4, <2>1, UpdateFailsInv DEF GetFeedFails
<1> QED
  BY <1>2, <1>3, <1>4 DEF GetFeedFails
-----------------------------------------------------------------------------
\* A period begins: the feed is disturbed if a fetch of it goes on, and its fetch is
\* outside if the bot is not in the channel.
LEMMA DispatchInv ==
  ASSUME FeedInv, NEW f \in Feeds, Dispatch(f)
  PROVE  FeedInv'
<1> DEFINE resting == {g \in Fetches : fetch[g].at = "rest"}
           k == CHOOSE g \in resting : TRUE
           r == [at |-> "fetch", of |-> f]
<1>1. /\ OwnTypeOK /\ IsConnected /\ UNCHANGED <<link, joined, published, row, chatVars>>
      /\ outside' = outside \union TooEarly(f)
  BY DEF FeedInv, Dispatch, connVars
<1>2. k \in Fetches /\ fetch[k].at = "rest" /\ fetch' = [fetch EXCEPT ![k] = r]
  BY DEF Dispatch, Go
<1>3. r \in FetchStates /\ r.at = "fetch" /\ r.of = f
  BY DEF FetchStates
<1> HIDE DEF k, r, resting
<1>4. fetch'[k] = r /\ \A h \in Fetches : h # k => fetch'[h] = fetch[h]
  BY <1>1, <1>2 DEF OwnTypeOK
<1>5. disturbed' = disturbed \union {e \in {f} : Busy(e) # {}}
  BY DEF Dispatch
<1>6. OwnTypeOK'
  <2>1. disturbed' \subseteq Feeds /\ outside' \subseteq Feeds
    BY <1>1, <1>5 DEF OwnTypeOK, TooEarly
  <2>2. fetch' \in [Fetches -> FetchStates]
    BY <1>1, <1>2, <1>3 DEF OwnTypeOK
  <2> QED
    BY <1>1, <2>1, <2>2 DEF OwnTypeOK, chatVars
<1>7. \A h \in Fetches : FetchSound(h)'
  BY <1>1, <1>3, <1>4 DEF FeedInv, FetchSound, chatVars
<1>8. ASSUME NEW e \in Feeds PROVE RowSound(e)' /\ LinkSound(e)'
  <2>1. RowSound(e)'
    BY <1>1 DEF FeedInv, RowSound, chatVars
  <2>2. (InReach(e)' <=> InReach(e)) /\ (e \in outside => e \in outside') /\ lost' = lost /\ LinkSound(e)
    BY <1>1 DEF FeedInv, InReach, chatVars
  <2>3. CASE e = f
    <3>1. InReach(f) \/ f \in outside'
      BY <1>1 DEF TooEarly
    <3> QED
      BY <2>1, <2>2, <2>3, <3>1 DEF LinkSound
  <2>4. CASE e # f
    <3>1. Busy(e)' # {} => Busy(e) # {}
      BY <1>2, <1>3, <1>4, <2>4 DEF Busy
    <3> QED
      BY <2>1, <2>2, <3>1 DEF LinkSound
  <2> QED
    BY <2>3, <2>4
<1>9. ASSUME NEW e \in Feeds, e # f, e \notin disturbed' PROVE Undisturbed(e)'
  <2>1. \A h \in Fetches : fetch'[h] = fetch[h] \/ (h \notin Busy(e) /\ h \notin Busy(e)')
    BY <1>2, <1>3, <1>4, <1>9 DEF Busy
  <2>2. row'[e] = row[e] /\ said'[e] = said[e] /\ repeated' = repeated /\ Undisturbed(e)
    BY <1>1, <1>5, <1>9 DEF FeedInv, chatVars
  <2> QED
    BY ONLY <1>1, <2>1, <2>2, e \in Feeds, UndisturbedFrame
<1>10. ASSUME f \notin disturbed' PROVE Undisturbed(f)'
  <2>1. Busy(f) = {} /\ Undisturbed(f)
    BY <1>5, <1>10 DEF FeedInv
  <2>2. Busy(f)' = {k}
    BY <1>2, <1>3, <1>4, <2>1 DEF Busy
  <2>3. (\A i \in said[f] : i <= row[f]) /\ f \notin repeated
    BY <2>1 DEF Undisturbed
  <2>4. row'[f] = row[f] /\ said'[f] = said[f] /\ repeated' = repeated
    BY <1>1 DEF chatVars
  <2> QED
    BY <1>3, <1>4, <2>2, <2>3, <2>4 DEF Undisturbed
<1> QED
  BY <1>6, <1>7, <1>8, <1>9, <1>10 DEF FeedInv

LEMMA PublishInv ==
  ASSUME FeedInv, NEW f \in Feeds, Publish(f)
  PROVE  FeedInv'
<1>1. /\ OwnTypeOK /\ UNCHANGED <<link, joined, row, chatVars, outside, fetch, disturbed>>
      /\ published' = [published EXCEPT ![f] = @ + 1]
  BY DEF FeedInv, Publish, connVars
<1>2. OwnTypeOK' /\ \A e \in Feeds : published[e] <= published'[e] /\ said[e] \subseteq said'[e]
  BY <1>1 DEF OwnTypeOK, chatVars
<1>3. \A g \in Fetches : FetchSound(g)'
  BY <1>1, <1>2, FetchFrame DEF FeedInv
<1>4. \A e \in Feeds : RowSound(e)'
  BY <1>1, <1>2, RowFrame DEF FeedInv
<1>5. \A e \in Feeds : LinkSound(e)' /\ (e \notin disturbed' => Undisturbed(e)')
  BY <1>1 DEF FeedInv, LinkSound, InReach, Undisturbed, Busy, chatVars
<1> QED
  BY <1>2, <1>3, <1>4, <1>5 DEF FeedInv

\* The connection may break at any step of it, and the bot may leave a channel; the
\* feeds fetched then are remembered.
LEMMA ConnStepInv ==
  ASSUME FeedInv, ConnStep
  PROVE  FeedInv'
<1>1. /\ OwnTypeOK /\ UNCHANGED <<published, row, fetch, chatVars, disturbed>>
      /\ outside' = outside \union {f \in Feeds : Busy(f) # {} /\ InReach(f) /\ ~InReach(f)'}
  BY DEF FeedInv, ConnStep
<1>2. OwnTypeOK'
  <2>1. outside' \subseteq Feeds
    BY <1>1 DEF OwnTypeOK
  <2> QED
    BY <1>1, <2>1 DEF OwnTypeOK, chatVars
<1>3. \A g \in Fetches : FetchSound(g)'
  BY <1>1 DEF FeedInv, FetchSound, chatVars
<1>4. \A e \in Feeds : RowSound(e)' /\ (e \notin disturbed' => Undisturbed(e)')
  BY <1>1 DEF FeedInv, RowSound, Undisturbed, Busy, chatVars
<1>5. ASSUME NEW e \in Feeds PROVE LinkSound(e)'
  <2>1. Busy(e)' = Busy(e) /\ lost' = lost /\ LinkSound(e)
    BY <1>1 DEF FeedInv, Busy, chatVars
  <2>2. e \in outside => e \in outside'
    BY <1>1
  <2>3. Busy(e) # {} => InReach(e)' \/ e \in outside'
    BY <1>1, <2>1 DEF LinkSound
  <2> QED
    BY <2>1, <2>2, <2>3 DEF LinkSound
<1> QED
  BY <1>2, <1>3, <1>4, <1>5 DEF FeedInv

\* A restart: what was announced without its time being written disturbs the feed.
LEMMA RestartInv ==
  ASSUME FeedInv, Restart
  PROVE  FeedInv'
<1>1. /\ OwnTypeOK /\ UNCHANGED <<published, row, chatVars, outside>>
      /\ fetch' = [g \in Fetches |-> Resting]
      /\ disturbed' = disturbed \union {fetch[g].of : g \in {h \in Fetches : fetch[h].at = "announce"}}
  BY DEF FeedInv, Restart
<1>2. \A g \in Fetches : fetch'[g] = Resting /\ fetch'[g].at = "rest"
  BY <1>1, RestingForm
<1>3. \A e \in Feeds : Busy(e)' = {}
  BY <1>2 DEF Busy
<1>4. OwnTypeOK'
  <2>1. disturbed' \subseteq Feeds
    <3>1. \A g \in Fetches : fetch[g].at = "announce" => fetch[g].of \in Feeds
      BY <1>1, FetchKinds
    <3> QED
      BY <1>1, <3>1 DEF OwnTypeOK
  <2>2. fetch' \in [Fetches -> FetchStates]
    BY <1>1, RestingForm
  <2> QED
    BY <1>1, <2>1, <2>2 DEF OwnTypeOK, chatVars
<1>5. \A g \in Fetches : FetchSound(g)'
  BY <1>2 DEF FetchSound
<1>6. \A e \in Feeds : RowSound(e)' /\ LinkSound(e)'
  BY <1>1, <1>3 DEF FeedInv, RowSound, LinkSound, InReach, chatVars
<1>7. ASSUME NEW e \in Feeds, e \notin disturbed' PROVE Undisturbed(e)'
  <2>1. Undisturbed(e)
    BY <1>1, <1>7 DEF FeedInv
  <2>2. \A g \in Fetches : fetch[g].at = "announce" => g \notin Busy(e)
    BY <1>1, <1>7 DEF Busy
  <2>3. \A i \in said[e] : i <= row[e]
    BY <2>1, <2>2 DEF Undisturbed, Busy
  <2>4. row'[e] = row[e] /\ said'[e] = said[e] /\ e \notin repeated'
    BY <1>1, <2>1 DEF Undisturbed, chatVars
  <2> QED
    BY <1>3, <2>3, <2>4 DEF Undisturbed
<1> QED
  BY <1>4, <1>5, <1>6, <1>7 DEF FeedInv

\* A step that leaves the feeds, the link and the channels alone.
LEMMA FeedElsewhere ==
  ASSUME FeedInv, UNCHANGED <<link, joined, published, row, fetch, chatVars, disturbed, outside>>
  PROVE  FeedInv'
  BY DEF FeedInv, OwnTypeOK, FetchSound, RowSound, LinkSound, InReach, Undisturbed, Busy, chatVars
-----------------------------------------------------------------------------
LEMMA FeedInitInv == FeedInit => FeedInv
<1> SUFFICES ASSUME FeedInit PROVE FeedInv
  OBVIOUS
<1>1. OwnTypeOK
  BY RestingForm DEF FeedInit, OwnTypeOK
<1>2. \A g \in Fetches : fetch[g].at = "rest"
  BY RestingForm DEF FeedInit
<1>3. \A f \in Feeds : Busy(f) = {}
  BY <1>2 DEF Busy
<1>4. \A g \in Fetches : FetchSound(g)
  BY <1>2 DEF FetchSound
<1>5. \A f \in Feeds : RowSound(f) /\ LinkSound(f) /\ Undisturbed(f)
  BY <1>3 DEF FeedInit, RowSound, LinkSound, Undisturbed, NoRow
<1> QED
  BY <1>1, <1>4, <1>5 DEF FeedInv

LEMMA FeedStepInv == FeedInv /\ [FeedNext]_feedVars => FeedInv'
<1> SUFFICES ASSUME FeedInv, [FeedNext]_feedVars PROVE FeedInv'
  OBVIOUS
<1>1. CASE UNCHANGED feedVars
  BY <1>1, FeedElsewhere DEF feedVars, connVars, feedOwn, chatVars
<1>2. CASE RunRSS
  BY <1>2, FeedElsewhere DEF RunRSS, connVars
<1> QED
  BY <1>1, <1>2, RestartInv, ConnStepInv, DispatchInv, PublishInv, GetFeedInv, GetFeedFailsInv DEF FeedNext

\* The values of the variables: those of the connection and of the two bounds beside
\* what FeedInv says.
LEMMA FeedInitType == FeedInit => FeedTypeOK
<1> SUFFICES ASSUME FeedInit PROVE FeedTypeOK
  OBVIOUS
<1>1. ConnTypeOK
  BY ConnInitType DEF FeedInit
<1>2. OwnTypeOK
  BY FeedInitInv DEF FeedInv
<1>3. dispatching = FALSE /\ faults = 0
  BY DEF FeedInit
<1>4. faults \in 0..MaxFaults
  BY <1>3, FeedAssumption
<1> QED
  BY <1>1, <1>2, <1>3, <1>4 DEF OwnTypeOK, FeedTypeOK

LEMMA RestartType ==
  ASSUME ConnTypeOK, Restart
  PROVE  ConnTypeOK'
<1>1. /\ link' = "dialling" /\ joined' = {} /\ out' = {} /\ pool' = FALSE
      /\ budget' = ReconnectDelay /\ interval' = Initial
      /\ elapsed' = 0 /\ pause' = 0 /\ losses' = losses
  BY DEF Restart
<1>2. budget' \in 0..ReconnectDelay /\ elapsed' \in 0..MaxElapsed /\ pause' \in 0..MaxElapsed
      /\ interval' \in Nat /\ losses' \in 0..MaxLosses
  BY <1>1, ConnNumbers DEF ConnTypeOK
<1> QED
  BY <1>1, <1>2 DEF ConnTypeOK

LEMMA FeedStepType == FeedInv /\ FeedTypeOK /\ [FeedNext]_feedVars => FeedTypeOK'
<1> SUFFICES ASSUME FeedInv, FeedTypeOK, [FeedNext]_feedVars PROVE FeedTypeOK'
  OBVIOUS
<1>1. OwnTypeOK'
  BY FeedStepInv DEF FeedInv
<1>2. ConnTypeOK'
  <2>1. CASE UNCHANGED connVars
    BY <2>1 DEF FeedTypeOK, ConnTypeOK, connVars
  <2>2. UNCHANGED connVars \/ ConnNext \/ Restart
    BY DEF FeedNext, feedVars, RunRSS, ConnStep, Dispatch, Publish, GetFeed, GetFeedFails,
         Parse, Select, Insert, Announce, Update
  <2> QED
    BY <2>1, <2>2, ConnNextType, RestartType DEF FeedTypeOK
<1>3. dispatching' \in BOOLEAN /\ faults' \in 0..MaxFaults
  <2>1. dispatching' = dispatching \/ dispatching' = TRUE \/ dispatching' = FALSE
    BY DEF FeedNext, feedVars, feedOwn, RunRSS, ConnStep, Dispatch, Publish, GetFeed, GetFeedFails,
         Restart, Parse, Select, Insert, Announce, Update
  <2>2. faults' = faults \/ Fault
    BY DEF FeedNext, feedVars, feedOwn, RunRSS, ConnStep, Dispatch, Publish, GetFeed, GetFeedFails,
         Restart, Parse, Select, Insert, Announce, Update
  <2>3. dispatching' \in BOOLEAN
    BY <2>1 DEF FeedTypeOK
  <2>4. faults' \in 0..MaxFaults
    <3>1. faults \in 0..MaxFaults /\ MaxFaults \in Nat
      BY FeedAssumption DEF FeedTypeOK
    <3> QED
      BY <2>2, <3>1 DEF Fault
  <2> QED
    BY <2>3, <2>4
<1> QED
  BY <1>1, <1>2, <1>3 DEF OwnTypeOK, FeedTypeOK

\* The values of the variables of the connection and of the feeds.
THEOREM FeedTypeCorrect == FeedSpec => []FeedTypeOK
  BY FeedInitType, FeedInitInv, FeedStepType, FeedStepInv, PTL DEF FeedSpec

\* The time in the database never passes an item that was not announced (rss.go:66-77),
\* for any number of overlapping fetches, failures and restarts.
THEOREM NothingIsSkipped == FeedSpec => []NothingSkipped
<1>1. FeedInv => NothingSkipped
  BY DEF FeedInv, RowSound, NothingSkipped
<1> QED
  BY <1>1, FeedInitInv, FeedStepInv, PTL DEF FeedSpec

\* An item comes twice only of a feed whose fetches overlapped or broke off.
THEOREM OnceIfUndisturbed == FeedSpec => []OnceUndisturbed
<1>1. FeedInv => OnceUndisturbed
  BY DEF FeedInv, Undisturbed, OnceUndisturbed, OwnTypeOK
<1> QED
  BY <1>1, FeedInitInv, FeedStepInv, PTL DEF FeedSpec

\* Items are lost only of feeds that were fetched out of reach of their channel: before
\* the bot had registered or joined it, or as it lost the connection or the channel.
THEOREM LossesExplained == FeedSpec => []LostOnlyOutOfReach
<1>1. FeedInv => LostOnlyOutOfReach
  BY DEF FeedInv, LinkSound, LostOnlyOutOfReach, OwnTypeOK
<1> QED
  BY <1>1, FeedInitInv, FeedStepInv, PTL DEF FeedSpec
-----------------------------------------------------------------------------

\* Places inside the function given to sync.Once.
InOnce == {"client", "server", "done"}

\* What a session promises: a nil connection comes of TLS, the relays start only with
\* the wait for `done`, and only the one that took the Once, and has not left it, closes.
SessionSound(s) ==
  /\ serverConn[s] = "nil" => mode[s].tls
  /\ handler[s] \in {"none", "dial"} =>
       once[s] = "free" /\ \A d \in Directions : relay[s][d] = "off"
  /\ \A d \in Directions : relay[s][d] # "off" /\ once[s] # "done" => handler[s] = "wait"
  /\ \A d \in Directions : relay[s][d] \in InOnce => once[s] = "taken"
  /\ \A d, e \in Directions : relay[s][d] \in InOnce /\ relay[s][e] \in InOnce => d = e

GhostInv ==
  /\ GhostTypeOK
  /\ \A s \in Sessions : SessionSound(s)
  /\ PlainGhostsSurvive
-----------------------------------------------------------------------------
\* The type invariant holds at the start.
LEMMA GhostInitType == GhostInit => GhostTypeOK
  BY DEF GhostInit, GhostTypeOK, Directions

\* A step of a ghost keeps the type invariant.
LEMMA GhostStepType == GhostTypeOK /\ [GhostNext]_ghostVars => GhostTypeOK'
<1> SUFFICES ASSUME GhostTypeOK, [GhostNext]_ghostVars
             PROVE  GhostTypeOK'
  OBVIOUS
<1>1. ASSUME UNCHANGED ghostVars PROVE GhostTypeOK'
  BY <1>1 DEF GhostTypeOK, ghostVars
<1>2. ASSUME NEW s \in Sessions, AcceptClient(s) PROVE GhostTypeOK'
  BY <1>2 DEF GhostTypeOK, AcceptClient
<1>3. ASSUME NEW s \in Sessions, CertificateFails(s) PROVE GhostTypeOK'
  BY <1>3 DEF GhostTypeOK, CertificateFails
<1>4. ASSUME NEW s \in Sessions, DialOk(s) PROVE GhostTypeOK'
  BY <1>4 DEF GhostTypeOK, DialOk, StartRelays
<1>5. ASSUME NEW s \in Sessions, DialFails(s) PROVE GhostTypeOK'
  <2>1. CASE mode[s].tls
    <3>1. /\ mode' = mode /\ gone' = gone /\ once' = once /\ fate' = fate
          /\ clientConn' = [clientConn EXCEPT ![s] = "closed"]
          /\ serverConn' = [serverConn EXCEPT ![s] = "nil"]
          /\ handler' = [handler EXCEPT ![s] = "wait"]
          /\ relay' = [relay EXCEPT ![s] = [d \in Directions |-> "read"]]
      BY <1>5, <2>1 DEF DialFails, StartRelays
    <3> QED
      BY <3>1 DEF GhostTypeOK
  <2>2. CASE ~mode[s].tls
    BY <1>5, <2>2 DEF GhostTypeOK, DialFails
  <2> QED
    BY <2>1, <2>2
<1>6. ASSUME NEW s \in Sessions, NEW e \in {"client", "server"}, PeerGoes(s, e) PROVE GhostTypeOK'
  BY <1>6 DEF GhostTypeOK, PeerGoes
<1>7. ASSUME NEW s \in Sessions, NEW d \in Directions, ReadLine(s, d) \/ Relaying(s, d)
      PROVE  GhostTypeOK'
  <2>1. CASE ReadLine(s, d)
    BY <1>7, <2>1 DEF GhostTypeOK, ReadLine, RelayTo
  <2>2. CASE ReadError(s, d)
    BY <1>7, <2>2 DEF GhostTypeOK, ReadError, RelayTo
  <2>3. CASE WriteLine(s, d)
    BY <1>7, <2>3 DEF GhostTypeOK, WriteLine, RelayTo
  <2>4. CASE WriteError(s, d)
    BY <1>7, <2>4 DEF GhostTypeOK, WriteError, RelayTo
  <2>5. CASE UseNil(s, d)
    BY <1>7, <2>5 DEF GhostTypeOK, UseNil
  <2>6. CASE CloseOnce(s, d)
    <3>1. CASE once[s] = "free" /\ once' = [once EXCEPT ![s] = "taken"] /\ RelayTo(s, d, "client")
      BY <1>7, <2>6, <3>1 DEF GhostTypeOK, CloseOnce, RelayTo
    <3>2. CASE once[s] = "done" /\ UNCHANGED once /\ RelayTo(s, d, "over")
      BY <1>7, <2>6, <3>2 DEF GhostTypeOK, CloseOnce, RelayTo
    <3> QED
      BY <2>6, <3>1, <3>2 DEF CloseOnce
  <2>7. CASE CloseClient(s, d)
    BY <1>7, <2>7 DEF GhostTypeOK, CloseClient, RelayTo
  <2>8. CASE CloseServer(s, d)
    BY <1>7, <2>8 DEF GhostTypeOK, CloseServer, RelayTo
  <2>9. CASE CloseDone(s, d)
    BY <1>7, <2>9 DEF GhostTypeOK, CloseDone, RelayTo
  <2> QED
    BY <1>7, <2>1, <2>2, <2>3, <2>4, <2>5, <2>6, <2>7, <2>8, <2>9 DEF Relaying
<1> QED
  BY <1>1, <1>2, <1>3, <1>4, <1>5, <1>6, <1>7 DEF GhostNext
-----------------------------------------------------------------------------
\* What a session promises depends on its own state.
LEMMA SoundElsewhere ==
  ASSUME NEW s \in Sessions, SessionSound(s),
         UNCHANGED <<mode[s], handler[s], serverConn[s], relay[s], once[s]>>
  PROVE  SessionSound(s)'
  BY DEF SessionSound

\* A step of the handler keeps it: no relay is on before the wait for `done` begins.
LEMMA HandlerKeepsSound ==
  ASSUME GhostTypeOK, NEW s \in Sessions, SessionSound(s),
         AcceptClient(s) \/ DialOk(s) \/ DialFails(s)
  PROVE  SessionSound(s)'
<1>1. CASE AcceptClient(s)
  BY <1>1 DEF AcceptClient, GhostTypeOK, SessionSound
<1>2. CASE DialOk(s)
  BY <1>2 DEF DialOk, StartRelays, GhostTypeOK, SessionSound, InOnce
<1>3. CASE DialFails(s)
  BY <1>3 DEF DialFails, StartRelays, GhostTypeOK, SessionSound, InOnce
<1> QED
  BY <1>1, <1>2, <1>3

\* A step of a relay keeps it: the Once lets one relay in, and the other waits for it.
LEMMA RelayKeepsSound ==
  ASSUME GhostTypeOK, NEW s \in Sessions, SessionSound(s), NEW d \in Directions,
         ReadLine(s, d) \/ Relaying(s, d)
  PROVE  SessionSound(s)'
<1>1. CASE ReadLine(s, d) \/ ReadError(s, d) \/ WriteLine(s, d) \/ WriteError(s, d)
  <2> PICK place \in {"read", "write", "closing"} : relay' = [relay EXCEPT ![s][d] = place]
    BY <1>1 DEF ReadLine, ReadError, WriteLine, WriteError, RelayTo
  <2>1. relay[s][d] # "off" /\ UNCHANGED <<mode, handler, serverConn, once>>
    BY <1>1 DEF ReadLine, ReadError, WriteLine, WriteError
  <2>2. \A e \in Directions : relay'[s][e] = IF e = d THEN place ELSE relay[s][e]
    BY DEF GhostTypeOK
  <2> QED
    BY <2>1, <2>2 DEF SessionSound, InOnce
<1>2. CASE UseNil(s, d)
  BY <1>2 DEF UseNil, SessionSound
<1>3. CASE CloseOnce(s, d)
  BY <1>3 DEF CloseOnce, RelayTo, GhostTypeOK, SessionSound, InOnce
<1>4. CASE CloseClient(s, d)
  BY <1>4 DEF CloseClient, RelayTo, GhostTypeOK, SessionSound, InOnce
<1>5. CASE CloseServer(s, d)
  BY <1>5 DEF CloseServer, RelayTo, GhostTypeOK, SessionSound, InOnce
<1>6. CASE CloseDone(s, d)
  BY <1>6 DEF CloseDone, RelayTo, GhostTypeOK, SessionSound, InOnce
<1> QED
  BY <1>1, <1>2, <1>3, <1>4, <1>5, <1>6 DEF Relaying

\* The process ends by a session with TLS only, in one step of it.
LEMMA EndedByTLS ==
  ASSUME GhostTypeOK, NEW s \in Sessions, SessionSound(s), NEW d \in Directions,
         CertificateFails(s) \/ UseNil(s, d) \/ CloseDone(s, d), fate = "runs", fate' # "runs"
  PROVE  mode[s].tls
<1>1. CASE CertificateFails(s)
  BY <1>1 DEF CertificateFails, BadCertificate
<1>2. CASE UseNil(s, d)
  <2>1. clientConn[s] # "nil"
    BY DEF GhostTypeOK
  <2>2. serverConn[s] = "nil"
    BY <1>2, <2>1 DEF UseNil, Src, Dest
  <2> QED
    BY <2>2 DEF SessionSound
<1>3. CASE CloseDone(s, d)
  <2>1. once[s] = "taken" /\ relay[s][d] # "off"
    BY <1>3 DEF CloseDone, SessionSound, InOnce
  <2>2. handler[s] = "wait"
    BY <2>1 DEF SessionSound
  <2> QED
    BY <1>3, <2>2 DEF CloseDone
<1> QED
  BY <1>1, <1>2, <1>3
-----------------------------------------------------------------------------
LEMMA GhostInitInv == GhostInit => GhostInv
<1> SUFFICES ASSUME GhostInit PROVE GhostInv
  OBVIOUS
<1>1. \A s \in Sessions : SessionSound(s)
  BY DEF GhostInit, SessionSound, InOnce
<1>2. PlainGhostsSurvive
  BY DEF GhostInit, PlainGhostsSurvive
<1> QED
  BY <1>1, <1>2, GhostInitType DEF GhostInv

LEMMA GhostStepInv == GhostInv /\ [GhostNext]_ghostVars => GhostInv'
<1> SUFFICES ASSUME GhostInv, [GhostNext]_ghostVars
             PROVE  GhostInv'
  OBVIOUS
<1> GhostTypeOK /\ PlainGhostsSurvive /\ \A s \in Sessions : SessionSound(s)
  BY DEF GhostInv
<1>1. CASE UNCHANGED ghostVars
  <2>1. \A s \in Sessions : SessionSound(s)'
    BY <1>1 DEF ghostVars, SessionSound
  <2> QED
    BY <1>1, <2>1, GhostStepType DEF GhostInv, ghostVars, PlainGhostsSurvive
<1>2. CASE GhostNext
  <2> DEFINE Step(s) ==
        \/ AcceptClient(s) \/ CertificateFails(s) \/ DialOk(s) \/ DialFails(s)
        \/ PeerGoes(s, "client") \/ PeerGoes(s, "server")
        \/ \E d \in Directions : ReadLine(s, d) \/ Relaying(s, d)
  <2> PICK s \in Sessions : Step(s)
    <3>1. \E s \in Sessions : Step(s)
      BY <1>2, Zenon DEF GhostNext
    <3> HIDE DEF Step
    <3> QED
      BY <3>1
  <2>0. fate = "runs" /\ mode' = mode
    <3>1. \A d \in Directions : ReadLine(s, d) \/ Relaying(s, d) => mode' = mode
      BY DEF ReadLine, Relaying, ReadError, WriteLine, WriteError, UseNil, CloseOnce, CloseClient,
           CloseServer, CloseDone
    <3>2. AcceptClient(s) \/ CertificateFails(s) \/ DialOk(s) \/ DialFails(s) => mode' = mode
      BY DEF AcceptClient, CertificateFails, DialOk, DialFails
    <3>3. PeerGoes(s, "client") \/ PeerGoes(s, "server") => mode' = mode
      BY DEF PeerGoes
    <3>4. fate = "runs"
      BY <1>2 DEF GhostNext
    <3> QED
      BY <3>1, <3>2, <3>3, <3>4
  <2>1. SessionSound(s)'
    <3>1. CASE CertificateFails(s) \/ PeerGoes(s, "client") \/ PeerGoes(s, "server")
      BY <3>1, SoundElsewhere DEF CertificateFails, PeerGoes
    <3> QED
      BY <3>1, HandlerKeepsSound, RelayKeepsSound
  <2>2. ASSUME NEW t \in Sessions, t # s PROVE SessionSound(t)'
    <3>1. UNCHANGED <<mode[t], handler[t], serverConn[t], relay[t], once[t]>>
      BY <2>2 DEF GhostTypeOK, AcceptClient, CertificateFails, DialOk, DialFails, StartRelays, PeerGoes, ReadLine,
           Relaying, ReadError, WriteLine, WriteError, UseNil, CloseOnce, CloseClient, CloseServer, CloseDone, RelayTo
    <3> QED
      BY <3>1, SoundElsewhere
  <2>3. PlainGhostsSurvive'
    <3>1. SUFFICES ASSUME fate' # "runs" PROVE mode[s].tls
      BY <2>0 DEF PlainGhostsSurvive
    <3>2. \E d \in Directions : CertificateFails(s) \/ UseNil(s, d) \/ CloseDone(s, d)
      BY <2>0, <3>1 DEF Directions, AcceptClient, DialOk, DialFails, PeerGoes, ReadLine,
           Relaying, ReadError, WriteLine, WriteError, CloseOnce, CloseClient, CloseServer
    <3> QED
      BY <2>0, <3>1, <3>2, EndedByTLS
  <2> QED
    BY <2>1, <2>2, <2>3, GhostStepType DEF GhostInv
<1> QED
  BY <1>1, <1>2

\* The values of the variables of a ghost.
THEOREM GhostTypeCorrect == GhostSpec => []GhostTypeOK
<1>1. GhostInit => GhostTypeOK
  BY GhostInitType
<1>2. GhostTypeOK /\ [GhostNext]_ghostVars => GhostTypeOK'
  BY GhostStepType
<1> QED
  BY <1>1, <1>2, PTL DEF GhostSpec

\* Ghosts without TLS never end the process (ghost.go:176-243): however the two relays
\* of a session race to close, `done` is closed once, and no nil connection is used.
THEOREM PlainGhostsAreSafe == GhostSpec => []PlainGhostsSurvive
<1>1. GhostInit => GhostInv
  BY GhostInitInv
<1>2. GhostInv /\ [GhostNext]_ghostVars => GhostInv'
  BY GhostStepInv
<1>3. GhostInv => PlainGhostsSurvive
  BY DEF GhostInv
<1> QED
  BY <1>1, <1>2, <1>3, PTL DEF GhostSpec
-----------------------------------------------------------------------------
(* The composition: what one part of the process does the other does not   *)
(* see, so that a behaviour of both is one of each.                        *)

LEMMA FeedsAlone == [NetworkNext]_networkVars => [FeedNext]_feedVars
  BY DEF NetworkNext, OfFeed, OfGhost, networkVars

LEMMA GhostsAlone == [NetworkNext]_networkVars => [GhostNext]_ghostVars
  BY DEF NetworkNext, OfFeed, OfGhost, networkVars

\* The process with both parts implements each of them.
THEOREM NetworkImplements == NetworkSpec => FeedSpec /\ GhostSpec
<1>1. NetworkInit => FeedInit /\ GhostInit
  BY DEF NetworkInit
<1> QED
  BY <1>1, FeedsAlone, GhostsAlone, PTL DEF NetworkSpec, FeedSpec, GhostSpec

\* The values of the variables of both parts.
THEOREM NetworkTypeCorrect == NetworkSpec => []NetworkTypeOK
<1>1. FeedTypeOK /\ GhostTypeOK => NetworkTypeOK
  BY DEF NetworkTypeOK
<1> QED
  BY <1>1, NetworkImplements, FeedTypeCorrect, GhostTypeCorrect, PTL

\* What was proved of the feeds and of the ghosts holds of the process with both.
THEOREM NetworkKeeps ==
  NetworkSpec => [](NothingSkipped /\ OnceUndisturbed /\ LostOnlyOutOfReach /\ PlainGhostsSurvive)
  BY NetworkImplements, NothingIsSkipped, OnceIfUndisturbed, LossesExplained, PlainGhostsAreSafe, PTL
=============================================================================
