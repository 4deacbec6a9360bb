-------------------------------- MODULE Feed --------------------------------
(***************************************************************************)
(* The feeds of rss.go: runRSS waits for the pool that connectToDB sets,   *)
(* feedDispatcher starts a goroutine for each feed in every period in      *)
(* which the client IsConnected, and GetFeed fetches, compares with the    *)
(* newest time in the database, announces and writes the time back. The    *)
(* connection is that of Connection: what Cmd.Message is given while there *)
(* is none is dropped, and the server may refuse what comes before it has  *)
(* registered the bot or for a channel that the bot is not in.             *)
(*                                                                         *)
(* A feed is dated by its items, whose times are taken to be distinct and  *)
(* later for each that is new: item i is published at time i. A period may *)
(* end before the fetches of the last have, so they overlap. A panic of    *)
(* any goroutine ends the process; it starts again from the database. What *)
(* is on its way when the connection breaks is not followed further.       *)
(***************************************************************************)
EXTENDS Connection

CONSTANTS
  Feeds,            \* feeds of different names
  ChannelOf,        \* the channel of each feed's group
  Fetches,          \* goroutines of GetFeed
  MaxItem,          \* bounds for model checking: on the items of a feed, ...
  MaxFaults         \* ... and on failures of fetches and statements, and restarts

ASSUME ChannelAssumption == ChannelOf \in [Feeds -> Channels]
ASSUME FeedAssumption == MaxItem \in Nat /\ MaxFaults \in Nat

VARIABLES
  published,        \* the newest item of each feed
  row,              \* newest_unix_time of each feed in the table rss, or NoRow
  dispatching,      \* runRSS has created the table and started the dispatcher
  fetch,            \* what each goroutine does
  said,             \* items given to Cmd.Message
  lost,             \* feeds of which an item was dropped or refused
  repeated,         \* feeds of which an item was given to it more than once
  disturbed,        \* feeds of which fetches overlapped, or one broke off after announcing
  outside,          \* feeds fetched out of reach of their channel: the fetch began with a
                    \* connection, but before the bot was in it, or the bot lost it meanwhile
  faults

feedOwn == <<published, row, dispatching, fetch, said, lost, repeated, disturbed, outside, faults>>
chatVars == <<said, lost, repeated>>
feedVars == <<connVars, feedOwn>>

NoRow == -1
Resting == [at |-> "rest"]
Fetched(at, f, last) == [at |-> at, of |-> f, last |-> last]
Announcing(f, last, newest) == [at |-> "announce", of |-> f, last |-> last, newest |-> newest]

FeedInit ==
  /\ ConnInit
  /\ published = [f \in Feeds |-> 0]
  /\ row = [f \in Feeds |-> NoRow]
  /\ dispatching = FALSE
  /\ fetch = [g \in Fetches |-> Resting]
  /\ said = [f \in Feeds |-> {}] /\ lost = {} /\ repeated = {}
  /\ disturbed = {} /\ outside = {}
  /\ faults = 0

Busy(f) == {g \in Fetches : fetch[g].at # "rest" /\ fetch[g].of = f}

\* The channel of the feed: Cmd.Message is sent, and the server accepts it.
InReach(f) == link = "up" /\ ChannelOf[f] \in joined
TooEarly(f) == {e \in {f} : IsConnected /\ ~InReach(f)}

Fault == faults < MaxFaults /\ faults' = faults + 1

\* The table is created once there is a pool.
RunRSS ==
  /\ ~dispatching /\ pool
  /\ dispatching' = TRUE
  /\ UNCHANGED <<connVars, published, row, fetch, chatVars, disturbed, outside, faults>>

\* go GetFeed. (Goroutines at rest are alike.)
Go(f) ==
  LET resting == {g \in Fetches : fetch[g].at = "rest"} IN
    /\ resting # {}
    /\ fetch' = [fetch EXCEPT ![CHOOSE g \in resting : TRUE] = [at |-> "fetch", of |-> f]]

\* Mutants of Dispatch: no ticker, one fetch and no more; and whether or not the client
\* is connected.
DispatchOnce(f) ==
  /\ dispatching /\ IsConnected /\ row[f] = NoRow
  /\ Go(f)
  /\ disturbed' = disturbed \union {e \in {f} : Busy(e) # {}}
  /\ outside' = outside \union TooEarly(f)
  /\ UNCHANGED <<connVars, published, row, dispatching, chatVars, faults>>

DispatchBlind(f) ==
  /\ dispatching
  /\ Go(f)
  /\ disturbed' = disturbed \union {e \in {f} : Busy(e) # {}}
  /\ outside' = outside \union TooEarly(f)
  /\ UNCHANGED <<connVars, published, row, dispatching, chatVars, faults>>

\* A period begins with a connection, whether or not the bot is in the channel yet.
Dispatch(f) ==
  /\ dispatching /\ IsConnected
  /\ Go(f)
  /\ disturbed' = disturbed \union {e \in {f} : Busy(e) # {}}
  /\ outside' = outside \union TooEarly(f)
  /\ UNCHANGED <<connVars, published, row, dispatching, chatVars, faults>>

\* The server answers with its items; the goroutine will read them later.
Parse(g) ==
  /\ fetch[g].at = "fetch"
  /\ LET f == fetch[g].of IN
       fetch' = [fetch EXCEPT ![g] = IF published[f] = 0 THEN Resting
                                     ELSE Fetched("select", f, published[f])]
  /\ UNCHANGED <<connVars, published, row, dispatching, chatVars, disturbed, outside, faults>>

\* SELECT newest_unix_time.
Select(g) ==
  /\ fetch[g].at = "select"
  /\ LET r == row[fetch[g].of] IN
       fetch' = [fetch EXCEPT ![g] = IF r = NoRow THEN Fetched("insert", @.of, @.last)
                                     ELSE Announcing(@.of, @.last, r)]
  /\ UNCHANGED <<connVars, published, row, dispatching, chatVars, disturbed, outside, faults>>

\* No row was found, or the SELECT failed: INSERT, refused if there is one now.
Insert(g) ==
  /\ fetch[g].at = "insert"
  /\ LET f == fetch[g].of IN
       IF row[f] = NoRow
         THEN /\ row' = [row EXCEPT ![f] = 0]
              /\ fetch' = [fetch EXCEPT ![g] = Announcing(f, @.last, 0)]
         ELSE row' = row /\ fetch' = [fetch EXCEPT ![g] = Resting]
  /\ UNCHANGED <<connVars, published, dispatching, chatVars, disturbed, outside, faults>>

\* What becomes of a message to the channel of the feed, out of reach: dropped by girc, or
\* refused by the server, as it may.
MayBeLost(f) ==
  \/ lost' = lost \union {f} /\ ~InReach(f)
  \/ lost' = lost /\ (IsConnected \/ InReach(f))

\* The items newer than what was read, one Cmd.Message after the other.
Announce(g) ==
  /\ fetch[g].at = "announce" /\ fetch[g].newest < fetch[g].last
  /\ LET f == fetch[g].of
         i == fetch[g].newest + 1 IN
       /\ fetch' = [fetch EXCEPT ![g] = Announcing(f, @.last, i)]
       /\ said' = [said EXCEPT ![f] = @ \union {i}]
       /\ MayBeLost(f)
       /\ repeated' = repeated \union {e \in {f} : i \in said[f]}
  /\ UNCHANGED <<connVars, published, row, dispatching, disturbed, outside, faults>>

\* Mutants of Update: the time of the last fetch of all, and the old time again.
UpdateWithNow(g) ==
  /\ fetch[g].at = "announce" /\ fetch[g].newest >= fetch[g].last
  /\ row' = [row EXCEPT ![fetch[g].of] = published[fetch[g].of]]
  /\ fetch' = [fetch EXCEPT ![g] = Resting]
  /\ UNCHANGED <<connVars, published, dispatching, chatVars, disturbed, outside, faults>>

UpdateLess(g) ==
  /\ fetch[g].at = "announce" /\ fetch[g].newest >= fetch[g].last
  /\ row' = [row EXCEPT ![fetch[g].of] = fetch[g].last - 1]
  /\ fetch' = [fetch EXCEPT ![g] = Resting]
  /\ UNCHANGED <<connVars, published, dispatching, chatVars, disturbed, outside, faults>>

\* UPDATE with the newest item of what this goroutine fetched, older or not.
Update(g) ==
  /\ fetch[g].at = "announce" /\ fetch[g].newest >= fetch[g].last
  /\ row' = [row EXCEPT ![fetch[g].of] = fetch[g].last]
  /\ fetch' = [fetch EXCEPT ![g] = Resting]
  /\ UNCHANGED <<connVars, published, dispatching, chatVars, disturbed, outside, faults>>

\* The fetch or a statement fails: it is logged, and nothing else is done. A SELECT
\* that fails is followed by the INSERT.
GetFeedFails(g) ==
  /\ Fault
  /\ \/ /\ fetch[g].at \in {"fetch", "insert"}
        /\ fetch' = [fetch EXCEPT ![g] = Resting]
        /\ UNCHANGED disturbed
     \/ /\ fetch[g].at = "select"
        /\ fetch' = [fetch EXCEPT ![g] = Fetched("insert", @.of, @.last)]
        /\ UNCHANGED disturbed
     \/ /\ fetch[g].at = "announce" /\ fetch[g].newest >= fetch[g].last
        /\ fetch' = [fetch EXCEPT ![g] = Resting]
        /\ disturbed' = disturbed \union {fetch[g].of}
  /\ UNCHANGED <<connVars, published, row, dispatching, chatVars, outside>>

\* The process dies and is started again; the bounds are not.
Restart ==
  /\ Fault
  /\ link' = "dialling" /\ joined' = {} /\ out' = {} /\ pool' = FALSE
  /\ budget' = ReconnectDelay /\ interval' = Initial
  /\ elapsed' = 0 /\ pause' = 0
  /\ dispatching' = FALSE
  /\ fetch' = [g \in Fetches |-> Resting]
  /\ disturbed' = disturbed \union {fetch[g].of : g \in {h \in Fetches : fetch[h].at = "announce"}}
  /\ UNCHANGED <<losses, published, row, chatVars, outside>>

Publish(f) ==
  /\ published[f] < MaxItem
  /\ published' = [published EXCEPT ![f] = @ + 1]
  /\ UNCHANGED <<connVars, row, dispatching, fetch, chatVars, disturbed, outside, faults>>

\* The connection moves on beside the feeds.
ConnStep ==
  /\ ConnNext
  /\ outside' = outside \union {f \in Feeds : Busy(f) # {} /\ InReach(f) /\ ~InReach(f)'}
  /\ UNCHANGED <<published, row, dispatching, fetch, chatVars, disturbed, faults>>

GetFeed(g) == Parse(g) \/ Select(g) \/ Insert(g) \/ Announce(g) \/ Update(g)

FeedNext ==
  \/ RunRSS \/ Restart \/ ConnStep
  \/ \E f \in Feeds : Dispatch(f) \/ Publish(f)
  \/ \E g \in Fetches : GetFeed(g) \/ GetFeedFails(g)

\* Fairness: the goroutines run, calls end (they have timeouts), periods pass, and
\* the connection is kept as Connection says.
FeedFairness ==
  /\ WF_feedVars(ConnStep /\ Keeper) /\ WF_feedVars(ConnStep /\ ConnClock)
  /\ WF_feedVars(ConnStep /\ ConnectToDB) /\ WF_feedVars(RunRSS)
  /\ \A c \in Channels : WF_feedVars(ConnStep /\ Join(c))
  /\ \A f \in Feeds : WF_feedVars(Dispatch(f))
  /\ \A g \in Fetches : WF_feedVars(GetFeed(g))

FeedSpec == FeedInit /\ [][FeedNext]_feedVars
-----------------------------------------------------------------------------
FetchStates ==
  {Resting} \union [at : {"fetch"}, of : Feeds]
  \union [at : {"select", "insert"}, of : Feeds, last : Nat]
  \union [at : {"announce"}, of : Feeds, last : Nat, newest : Nat]

FeedTypeOK ==
  /\ ConnTypeOK
  /\ published \in [Feeds -> Nat]
  /\ row \in [Feeds -> Nat \union {NoRow}]
  /\ dispatching \in BOOLEAN
  /\ fetch \in [Fetches -> FetchStates]
  /\ said \in [Feeds -> SUBSET Nat] /\ lost \subseteq Feeds /\ repeated \subseteq Feeds
  /\ disturbed \subseteq Feeds /\ outside \subseteq Feeds
  /\ faults \in 0..MaxFaults

\* The time in the database never passes an item that was not given to Cmd.Message,
\* whichever fetches overlap, fail or die (rss.go:66-77): an item may come twice, not
\* never. (Items whose times are those of others are not modelled.)
NothingSkipped == \A f \in Feeds : \A i \in 1..row[f] : i \in said[f]

\* An item is announced twice only if fetches of its feed overlapped or one died or
\* could not write the time after announcing.
OnceUndisturbed == repeated \subseteq disturbed

\* Why an item may be lost, although its time is written: the dispatcher asks IsConnected
\* when the period begins, and nothing else, and GetFeed does not ask again (rss.go:68,
\* 94). A fetch of its feed was begun before the bot had registered or joined the channel,
\* or the bot lost the connection or the channel during one; for no other reason.
LostOnlyOutOfReach == lost \subseteq outside

\* When failures stop, every item that is published is given to Cmd.Message.
AllAnnounced == \A f \in Feeds : \A i \in 1..MaxItem : published[f] >= i ~> i \in said[f]
=============================================================================
