------------------------------ MODULE MCNetwork ------------------------------
(***************************************************************************)
(* The parts of the process that keep connections, for TLC: the client     *)
(* with its feeds, and the ghosts. They have no state in common: a         *)
(* behaviour is one of one part, chosen at the start, and the other rests. *)
(***************************************************************************)
EXTENDS Feed, Ghost

VARIABLE part

networkVars == <<feedVars, ghostVars, part>>

\* All configurations of a ghost.
MCModes == [proxy : BOOLEAN, tls : BOOLEAN, cert : {"valid", "absent", "unusable"}]

\* The channel of the feeds.
MCChannelOf == [f \in Feeds |-> CHOOSE c \in Channels : TRUE]

NetworkInit ==
  /\ FeedInit /\ GhostInit
  /\ part \in {"feed", "ghost"}
  /\ part = "feed" => \A s \in Sessions : mode[s] = CHOOSE m \in Modes : TRUE

OfFeed == part = "feed" /\ UNCHANGED <<ghostVars, part>>
OfGhost == part = "ghost" /\ UNCHANGED <<feedVars, part>>

NetworkNext == (OfFeed /\ FeedNext) \/ (OfGhost /\ GhostNext)

\* FeedFairness; and the relays of a ghost run while the process does.
NetworkFairness ==
  /\ WF_networkVars(OfFeed /\ ConnStep /\ Keeper)
  /\ WF_networkVars(OfFeed /\ ConnStep /\ ConnClock)
  /\ WF_networkVars(OfFeed /\ ConnStep /\ ConnectToDB)
  /\ WF_networkVars(OfFeed /\ RunRSS)
  /\ \A c \in Channels : WF_networkVars(OfFeed /\ ConnStep /\ Join(c))
  /\ \A f \in Feeds : WF_networkVars(OfFeed /\ Dispatch(f))
  /\ \A g \in Fetches : WF_networkVars(OfFeed /\ GetFeed(g))
  /\ \A s \in Sessions, d \in Directions :
       WF_networkVars(OfGhost /\ fate = "runs" /\ Relaying(s, d))

NetworkSpec == NetworkInit /\ [][NetworkNext]_networkVars /\ NetworkFairness
-----------------------------------------------------------------------------
\* The values of the variables of both parts.
NetworkTypeOK == FeedTypeOK /\ GhostTypeOK

\* BackInChannels, of the part with the client: neither losses nor the ends of Retry
\* keep the bot out of its channels for ever, refusals and leaves apart (main.go:853-857, 983-998).
Reconnects == part = "feed" => BackInChannels
=============================================================================
