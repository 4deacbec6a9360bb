---------------------------- MODULE SwarmProofs ----------------------------
(***************************************************************************)
(* Proofs about Swarm, for any swarm, any number of goroutines and any     *)
(* threshold and cooldown.                                                 *)
(*                                                                         *)
(* BreakerHolds is about failures since the last success or unmute, which  *)
(* the code does not count: `failures` goes back to zero when the breaker  *)
(* has tripped. What bounds them is that a tripped breaker leaves all bots *)
(* silenced until an unmute, so that only the replies under way can fail.  *)
(***************************************************************************)
EXTENDS Swarm, FiniteSetTheorems, TLAPS

USE SwarmAssumption

\* The replies that have an API call to make or a failure to record.
UnderWay == {g \in Speakers : pc[g] \in {"calling", "failed"}}

AllSilent == \A b \in Bots : ~enabled[b]

\* FailMu: one goroutine at most silences the swarm, and a free mutex leaves neither
\* bots to silence nor a count at the threshold.
MutexInv ==
  /\ \A g, h \in Speakers : pc[g] = "silencing" /\ pc[h] = "silencing" => g = h
  /\ FailMuFree => failures < Threshold /\ silencing = {}

\* Either the code counts as many failures as there were, or the breaker has tripped:
\* then all bots are silent, and the replies under way are all that can still fail.
CountInv ==
  \/ streak <= failures
  \/ AllSilent /\ streak + Cardinality(UnderWay) <= Threshold + Cardinality(Speakers) - 1

\* While the breaker silences, a bot it has already silenced speaks only by an unmute.
SilencingInv ==
  ~FailMuFree => streak = 0 \/ \A b \in Bots \ silencing : ~enabled[b]

BreakerInv == TypeOK /\ MutexInv /\ CountInv /\ SilencingInv
-----------------------------------------------------------------------------
LEMMA SpeakersCount ==
  /\ Cardinality(Speakers) \in Nat /\ Cardinality(Speakers) >= 1
  /\ IsFiniteSet(UnderWay) /\ Cardinality(UnderWay) \in Nat
<1>1. Cardinality(Speakers) \in Nat
  BY FS_CardinalityType
<1>2. Cardinality(Speakers) # 0
  BY FS_EmptySet
<1>3. IsFiniteSet(UnderWay)
  BY FS_Subset DEF UnderWay
<1> QED
  BY <1>1, <1>2, <1>3, FS_CardinalityType

\* The count of the replies under way, when none joins them.
LEMMA UnderWayShrinks ==
  ASSUME UnderWay' \subseteq UnderWay
  PROVE  Cardinality(UnderWay') \in Nat /\ Cardinality(UnderWay') <= Cardinality(UnderWay)
  BY SpeakersCount, FS_Subset, FS_CardinalityType

\* The steps of one speaker that are not about the breaker.
Aside(g) ==
  \/ Start(g) \/ CallGemini(g) \/ Enqueue(g) \/ Accept(g)
  \/ RecordSpeak(g) \/ Return(g) \/ SendDirect(g) \/ Remember(g)
-----------------------------------------------------------------------------
LEMMA InitInv == Init => BreakerInv
<1> SUFFICES ASSUME Init PROVE BreakerInv
  OBVIOUS
<1> AnyBot \in Bots
  BY DEF AnyBot
<1>1. TypeOK
  BY DEF Init, TypeOK, Places, Queue!Init, Queue!Fates
<1>2. MutexInv /\ CountInv /\ SilencingInv
  BY DEF Init, MutexInv, CountInv, SilencingInv, FailMuFree
<1> QED
  BY <1>1, <1>2 DEF BreakerInv

\* What handlers, Silence, the scheduler and time do to the types.
LEMMA HandlerType ==
  ASSUME TypeOK, NEW h \in Handlers, Handler(h) PROVE TypeOK'
<1>1. CASE ProcessMessage(h)
  BY <1>1 DEF ProcessMessage, TypeOK, speakerVars, breakerVars, queueVars
<1>2. ASSUME NEW b \in Bots, Look(h, b) PROVE TypeOK'
  <2>1. left' \in [Handlers -> SUBSET Bots] /\ looking' \in [Handlers -> SUBSET Bots]
    BY <1>2 DEF Look, TypeOK
  <2> QED
    BY <1>2, <2>1 DEF Look, TypeOK, speakerVars, breakerVars, queueVars
<1>3. ASSUME NEW b \in Bots, TooSoon(h, b) PROVE TypeOK'
  BY <1>3 DEF TooSoon, TypeOK, speakerVars, breakerVars, queueVars
<1>4. ASSUME NEW b \in Bots, SetEnabled(h, b) PROVE TypeOK'
  BY <1>4 DEF SetEnabled, TypeOK, speakerVars, queueVars
<1>5. ASSUME NEW b \in Bots, NEW g \in Speakers, GoSpeak(h, b, g) PROVE TypeOK'
  BY <1>5 DEF GoSpeak, TypeOK, breakerVars, queueVars, Places
<1>6. ASSUME NEW c \in Commands, Command(h, c) PROVE TypeOK'
  BY <1>6 DEF Command, TypeOK, speakerVars, breakerVars, queueVars
<1>7. CASE Finish(h)
  BY <1>7 DEF Finish, TypeOK, speakerVars, breakerVars, queueVars
<1> QED
  BY <1>1, <1>2, <1>3, <1>4, <1>5, <1>6, <1>7 DEF Handler

LEMMA StepPlaces ==
  ASSUME TypeOK, NEW g \in Speakers, NEW from, NEW to \in Places, Step(g, from, to)
  PROVE  pc' \in [Speakers -> Places]
BY DEF Step, TypeOK

LEMMA AsideType ==
  ASSUME TypeOK, NEW g \in Speakers, Aside(g) PROVE TypeOK'
<1> AnyBot \in Bots
  BY DEF AnyBot
<1>1. CASE Start(g) \/ CallGemini(g) \/ SendDirect(g) \/ Remember(g)
  <2>1. pc' \in [Speakers -> Places] /\ bot' \in [Speakers -> Bots]
    <3>1. \E from, to \in Places : Step(g, from, to)
      BY <1>1 DEF Start, CallGemini, SendDirect, Remember, Places
    <3>2. bot' = bot \/ bot' = [bot EXCEPT ![g] = AnyBot]
      BY <1>1 DEF Start, CallGemini, SendDirect, Remember
    <3>3. bot' \in [Speakers -> Bots]
      BY <3>2 DEF TypeOK
    <3> QED
      BY <3>1, <3>3, StepPlaces
  <2> QED
    BY <1>1, <2>1 DEF Start, CallGemini, SendDirect, Remember, TypeOK, handlerVars, breakerVars, queueVars
<1>2. CASE Enqueue(g)
  BY <1>2 DEF Enqueue, Step, Queue!Call, Queue!Fates, TypeOK, Places, handlerVars, breakerVars
<1>3. CASE Accept(g)
  BY <1>3 DEF Accept, Queue!Accept, Queue!Fates, TypeOK, handlerVars, speakerVars, breakerVars
<1>4. CASE RecordSpeak(g)
  <2>1. lastSpoke' \in [Bots -> 0..Cooldown] /\ pc' \in [Speakers -> Places]
    BY <1>4 DEF RecordSpeak, Step, TypeOK, Places
  <2> QED
    BY <1>4, <2>1 DEF RecordSpeak, TypeOK, handlerVars, breakerVars, queueVars
<1>5. CASE Return(g)
  <2>1. pc' \in [Speakers -> Places]
    BY <1>5 DEF Return, Step, TypeOK, Places
  <2>2. call' \in [Speakers -> Queue!Fates] /\ line' = line
    BY <1>5 DEF Return, Queue!Return, Queue!Fates, TypeOK
  <2> QED
    BY <1>5, <2>1, <2>2 DEF Return, TypeOK, handlerVars, breakerVars
<1> QED
  BY <1>1, <1>2, <1>3, <1>4, <1>5 DEF Aside

LEMMA ServeType == ASSUME TypeOK, Serve PROVE TypeOK'
<1>1. line' \in Seq(Speakers)
  BY DEF Serve, Queue!Serve, TypeOK
<1>2. call' \in [Speakers -> Queue!Fates]
  BY DEF Serve, Queue!Serve, Queue!Fates, TypeOK
<1> QED
  BY <1>1, <1>2 DEF Serve, TypeOK, handlerVars, speakerVars, breakerVars

LEMMA ClockType == ASSUME TypeOK, Clock PROVE TypeOK'
<1>1. \A b \in Bots : Older(lastSpoke[b], Cooldown) \in 0..Cooldown
  BY DEF TypeOK, Older
<1> QED
  BY <1>1 DEF Clock, TypeOK, handlerVars, speakerVars, breakerVars, queueVars
-----------------------------------------------------------------------------
\* A step that leaves the breaker's state, the bots' and the replies alone.
LEMMA BreakerElsewhere ==
  ASSUME BreakerInv, TypeOK', UNCHANGED <<pc, enabled, breakerVars>>
  PROVE  BreakerInv'
  BY DEF BreakerInv, MutexInv, CountInv, SilencingInv, FailMuFree, AllSilent, UnderWay, breakerVars

\* A speaker that does neither take nor hold FailMu: its bot is enabled if it begins to
\* call, and then the code has counted all failures.
LEMMA AsideInv ==
  ASSUME BreakerInv, NEW g \in Speakers, Aside(g)
  PROVE  BreakerInv'
<1>1. TypeOK' /\ TypeOK
  BY AsideType DEF BreakerInv
<1>2. UNCHANGED <<enabled, breakerVars>>
  BY DEF Aside, Start, CallGemini, Enqueue, Accept, RecordSpeak, Return, SendDirect, Remember, speakerVars
<1>3. /\ \A h \in Speakers : h # g => pc'[h] = pc[h]
      /\ pc'[g] = "silencing" <=> pc[g] = "silencing"
      /\ pc'[g] \in {"calling", "failed"} => pc[g] \in {"calling", "failed"} \/ enabled[bot[g]]
  <2>1. CASE Accept(g)
    BY <2>1 DEF Accept, speakerVars
  <2>2. CASE Start(g)
    BY <1>1, <2>2 DEF Start, Step, TypeOK
  <2>3. CASE CallGemini(g)
    BY <1>1, <2>3 DEF CallGemini, Step, TypeOK
  <2>4. CASE Enqueue(g) \/ RecordSpeak(g) \/ Return(g) \/ SendDirect(g) \/ Remember(g)
    BY <1>1, <2>4 DEF Enqueue, RecordSpeak, Return, SendDirect, Remember, Step, TypeOK
  <2> QED
    BY <2>1, <2>2, <2>3, <2>4 DEF Aside
<1>4. FailMuFree' <=> FailMuFree
  BY <1>3 DEF FailMuFree
<1>5. MutexInv'
  BY <1>2, <1>3, <1>4 DEF BreakerInv, MutexInv, breakerVars
<1>6. SilencingInv'
  BY <1>2, <1>4 DEF BreakerInv, SilencingInv, breakerVars
<1>7. CountInv'
  <2>1. CASE streak <= failures
    BY <1>2, <2>1 DEF CountInv, breakerVars
  <2>2. CASE AllSilent /\ streak + Cardinality(UnderWay) <= Threshold + Cardinality(Speakers) - 1
    <3>1. UnderWay' \subseteq UnderWay
      BY <1>1, <1>3, <2>2 DEF UnderWay, AllSilent, TypeOK
    <3>2. streak' + Cardinality(UnderWay') <= Threshold + Cardinality(Speakers) - 1
      <4>1. Cardinality(UnderWay') \in Nat /\ Cardinality(UnderWay') <= Cardinality(UnderWay)
        BY <3>1, UnderWayShrinks
      <4>2. streak' = streak /\ streak \in Nat
        BY <1>1, <1>2 DEF TypeOK, breakerVars
      <4> QED
        BY <2>2, <4>1, <4>2, SpeakersCount
    <3> QED
      BY <1>2, <2>2, <3>2 DEF CountInv, AllSilent
  <2> QED
    BY <2>1, <2>2 DEF BreakerInv, CountInv
<1> QED
  BY <1>1, <1>5, <1>6, <1>7 DEF BreakerInv

\* The admin's commands: an unmute starts the count of the streak again, a mute only silences.
LEMMA SetEnabledInv ==
  ASSUME BreakerInv, NEW h \in Handlers, NEW b \in Bots, SetEnabled(h, b)
  PROVE  BreakerInv'
<1>1. TypeOK' /\ TypeOK
  BY HandlerType DEF BreakerInv, Handler
<1>2. UNCHANGED <<pc, bot, silencing, failures>>
  BY DEF SetEnabled, speakerVars
<1>3. MutexInv'
  BY <1>2 DEF BreakerInv, MutexInv, FailMuFree
<1>4. CASE at[h] = "unmute"
  <2>1. streak' = 0
    BY <1>4 DEF SetEnabled
  <2>2. CountInv' /\ SilencingInv'
    BY <1>1, <2>1 DEF CountInv, SilencingInv, TypeOK
  <2> QED
    BY <1>1, <1>3, <2>2 DEF BreakerInv
<1>5. CASE at[h] = "mute"
  <2>1. streak' = streak /\ enabled' = [enabled EXCEPT ![b] = FALSE]
    BY <1>5 DEF SetEnabled
  <2>2. \A c \in Bots : ~enabled[c] => ~enabled'[c]
    BY <1>1, <2>1 DEF TypeOK
  <2>3. CountInv'
    BY <1>2, <2>1, <2>2 DEF BreakerInv, CountInv, AllSilent, UnderWay
  <2>4. SilencingInv'
    BY <1>2, <2>1, <2>2 DEF BreakerInv, SilencingInv, FailMuFree
  <2> QED
    BY <1>1, <1>3, <2>3, <2>4 DEF BreakerInv
<1> QED
  BY <1>4, <1>5 DEF SetEnabled

\* A message answered: the new goroutine has not begun to call.
LEMMA GoSpeakInv ==
  ASSUME BreakerInv, NEW h \in Handlers, NEW b \in Bots, NEW g \in Speakers, GoSpeak(h, b, g)
  PROVE  BreakerInv'
<1>1. TypeOK' /\ TypeOK
  BY HandlerType DEF BreakerInv, Handler
<1>2. UNCHANGED <<enabled, breakerVars>>
  BY DEF GoSpeak
<1>3. UnderWay' = UnderWay /\ \A k \in Speakers : pc'[k] = "silencing" <=> pc[k] = "silencing"
  BY <1>1 DEF GoSpeak, UnderWay, TypeOK
<1>4. FailMuFree' <=> FailMuFree
  BY <1>3 DEF FailMuFree
<1> QED
  BY <1>1, <1>2, <1>3, <1>4
  DEF BreakerInv, MutexInv, CountInv, SilencingInv, AllSilent, breakerVars

LEMMA HandlerInv ==
  ASSUME BreakerInv, NEW h \in Handlers, Handler(h)
  PROVE  BreakerInv'
<1>1. TypeOK'
  BY HandlerType DEF BreakerInv
<1>2. ASSUME ~\E b \in Bots : SetEnabled(h, b), ~\E b \in Bots, g \in Speakers : GoSpeak(h, b, g)
      PROVE  UNCHANGED <<pc, enabled, breakerVars>>
  BY <1>2 DEF Handler, ProcessMessage, Look, TooSoon, Command, Finish, speakerVars
<1> QED
  BY <1>1, <1>2, BreakerElsewhere, SetEnabledInv, GoSpeakInv

\* A reply came: the code and the streak both count from zero.
LEMMA SucceedInv ==
  ASSUME BreakerInv, NEW g \in Speakers, Succeed(g)
  PROVE  BreakerInv'
<1>1. TypeOK /\ MutexInv
  BY DEF BreakerInv
<1>2. pc' = [pc EXCEPT ![g] = "typing"] /\ failures' = 0 /\ streak' = 0 /\ FailMuFree
  BY DEF Succeed, Step
<1>3. TypeOK'
  BY <1>1, <1>2 DEF Succeed, TypeOK, Places, handlerVars, queueVars
<1>4. FailMuFree' /\ silencing' = {}
  BY <1>1, <1>2 DEF FailMuFree, MutexInv, TypeOK, Succeed
<1> QED
  BY <1>2, <1>3, <1>4 DEF BreakerInv, MutexInv, CountInv, SilencingInv, FailMuFree

\* A failure: under FailMu one reply less can fail, and one failure more is recorded.
LEMMA CountFailureInv ==
  ASSUME BreakerInv, NEW g \in Speakers, CountFailure(g)
  PROVE  BreakerInv'
<1>1. TypeOK /\ MutexInv /\ CountInv /\ FailMuFree /\ failures < Threshold /\ silencing = {}
  BY DEF BreakerInv, MutexInv, CountFailure
<1>2. PICK to \in {"typing", "silencing"} :
        /\ pc[g] = "failed" /\ pc' = [pc EXCEPT ![g] = to]
        /\ to = "typing" => failures' < Threshold /\ silencing' = {}
        /\ to = "silencing" => silencing' = Bots
  BY <1>1 DEF CountFailure, Step
<1>3. failures' = failures + 1 /\ streak' = streak + 1 /\ UNCHANGED <<handlerVars, enabled, bot, lastSpoke, queueVars>>
  BY DEF CountFailure
<1>4. failures' \in 0..Threshold /\ streak' \in Nat
  BY <1>1, <1>3 DEF TypeOK
<1>5. TypeOK'
  BY <1>1, <1>2, <1>3, <1>4 DEF TypeOK, Places, handlerVars, queueVars
<1>6. MutexInv'
  BY <1>1, <1>2 DEF MutexInv, FailMuFree, TypeOK
<1>7. SilencingInv'
  BY <1>1, <1>2 DEF SilencingInv, FailMuFree, TypeOK
<1>8. CountInv'
  <2>1. CASE streak <= failures
    BY <1>1, <1>3, <2>1 DEF CountInv, TypeOK
  <2>2. CASE AllSilent /\ streak + Cardinality(UnderWay) <= Threshold + Cardinality(Speakers) - 1
    <3>1. UnderWay' = UnderWay \ {g} /\ g \in UnderWay
      BY <1>1, <1>2 DEF UnderWay, TypeOK
    <3>2. Cardinality(UnderWay') = Cardinality(UnderWay) - 1
      BY <3>1, SpeakersCount, FS_RemoveElement
    <3>3. streak' + Cardinality(UnderWay') <= Threshold + Cardinality(Speakers) - 1
      BY <1>1, <1>3, <2>2, <3>2, SpeakersCount DEF TypeOK
    <3> QED
      BY <1>3, <2>2, <3>3 DEF CountInv, AllSilent
  <2> QED
    BY <1>1, <2>1, <2>2 DEF CountInv
<1> QED
  BY <1>5, <1>6, <1>7, <1>8 DEF BreakerInv

\* The breaker silences one bot.
LEMMA SilenceInv ==
  ASSUME BreakerInv, NEW b \in Bots, Silence(b)
  PROVE  BreakerInv'
<1>1. TypeOK /\ b \in silencing /\ silencing' = silencing \ {b} /\ enabled' = [enabled EXCEPT ![b] = FALSE]
  BY DEF BreakerInv, Silence
<1>2. UNCHANGED <<pc, bot, failures, streak>>
  BY DEF Silence, speakerVars
<1>3. TypeOK'
  BY <1>1 DEF Silence, TypeOK, handlerVars, speakerVars, queueVars
<1>4. \A c \in Bots : ~enabled[c] \/ c = b => ~enabled'[c]
  BY <1>1 DEF TypeOK
<1>5. MutexInv'
  BY <1>1, <1>2 DEF BreakerInv, MutexInv, FailMuFree
<1>6. CountInv'
  BY <1>2, <1>4 DEF BreakerInv, CountInv, AllSilent, UnderWay
<1>7. SilencingInv'
  BY <1>1, <1>2, <1>4 DEF BreakerInv, SilencingInv, FailMuFree
<1> QED
  BY <1>3, <1>5, <1>6, <1>7 DEF BreakerInv

\* The breaker is done: unless a bot was unmuted all are silent, and the goroutine that
\* held FailMu is not under way.
LEMMA SilencedInv ==
  ASSUME BreakerInv, NEW g \in Speakers, Silenced(g)
  PROVE  BreakerInv'
<1>1. TypeOK /\ MutexInv /\ CountInv /\ SilencingInv
  BY DEF BreakerInv
<1>2. /\ silencing = {} /\ pc[g] = "silencing" /\ pc' = [pc EXCEPT ![g] = "typing"]
      /\ failures' = 0 /\ UNCHANGED <<enabled, silencing, streak>>
  BY DEF Silenced, Step
<1>3. TypeOK'
  BY <1>1, <1>2 DEF Silenced, TypeOK, Places, handlerVars, queueVars
<1>4. FailMuFree' /\ ~FailMuFree
  BY <1>1, <1>2 DEF FailMuFree, MutexInv, TypeOK
<1>5. MutexInv' /\ SilencingInv'
  BY <1>2, <1>4 DEF MutexInv, SilencingInv, FailMuFree
<1>6. UnderWay' = UnderWay /\ UnderWay \subseteq Speakers \ {g}
  BY <1>1, <1>2 DEF UnderWay, TypeOK
<1>7. Cardinality(UnderWay) <= Cardinality(Speakers) - 1
  <2>1. IsFiniteSet(Speakers \ {g}) /\ Cardinality(Speakers \ {g}) = Cardinality(Speakers) - 1
    BY FS_RemoveElement
  <2> QED
    BY <1>6, <2>1, FS_Subset
<1>8. CountInv'
  <2>1. CASE streak = 0
    BY <1>2, <2>1 DEF CountInv
  <2>2. CASE AllSilent
    <3>1. streak + Cardinality(UnderWay) <= Threshold + Cardinality(Speakers) - 1
      BY <1>1, <1>7, SpeakersCount DEF CountInv, TypeOK
    <3> QED
      BY <1>2, <1>6, <2>2, <3>1 DEF CountInv, AllSilent
  <2> QED
    BY <1>1, <1>2, <1>4, <2>1, <2>2 DEF SilencingInv, AllSilent
<1> QED
  BY <1>3, <1>5, <1>8 DEF BreakerInv

LEMMA StepInv == BreakerInv /\ [Next]_vars => BreakerInv'
<1> SUFFICES ASSUME BreakerInv, [Next]_vars PROVE BreakerInv'
  OBVIOUS
<1>1. CASE UNCHANGED vars
  <2>1. TypeOK'
    BY <1>1 DEF BreakerInv, TypeOK, vars, handlerVars, speakerVars, breakerVars, queueVars
  <2> QED
    BY <1>1, <2>1, BreakerElsewhere DEF vars, speakerVars
<1>2. CASE Serve
  BY <1>2, ServeType, BreakerElsewhere DEF BreakerInv, Serve, speakerVars
<1>3. CASE Clock
  BY <1>3, ClockType, BreakerElsewhere DEF BreakerInv, Clock, speakerVars
<1>4. ASSUME NEW g \in Speakers, Locking(g) \/ Speaking(g) PROVE BreakerInv'
  BY <1>4, SucceedInv, CountFailureInv, SilencedInv, AsideInv DEF Locking, Speaking, Aside
<1> QED
  BY <1>1, <1>2, <1>3, <1>4, HandlerInv, SilenceInv DEF Next
-----------------------------------------------------------------------------
\* The values of the variables; that the count of failures stays within the threshold
\* rests on FailMu.
THEOREM TypeCorrect == Spec => []TypeOK
<1>1. BreakerInv => TypeOK
  BY DEF BreakerInv
<1> QED
  BY <1>1, InitInv, StepInv, PTL DEF Spec

\* The breaker holds (llm.go:303-314), for every swarm and every threshold: not more
\* failures in a row than the threshold and one for each other reply under way.
THEOREM BreakerAlwaysHolds == Spec => []BreakerHolds
<1>1. BreakerInv => BreakerHolds
  BY SpeakersCount DEF BreakerInv, CountInv, TypeOK, BreakerHolds
<1> QED
  BY <1>1, InitInv, StepInv, PTL DEF Spec
-----------------------------------------------------------------------------
(***************************************************************************)
(* The swarm and its scheduler. Of the scheduler the swarm uses what       *)
(* OutboundQueue says, and nothing else: SchedulerKeepsPromise, in         *)
(* SpeakSchedulerProofs, shows that the loop of scheduler.go gives it.     *)
(***************************************************************************)

\* The line holds each accepted call once, and no other.
LineInv ==
  /\ \A g \in Speakers : call[g] = "accepted" <=> \E i \in DOMAIN line : line[i] = g
  /\ \A i, j \in DOMAIN line : line[i] = line[j] => i = j

\* A goroutine has a call while it is in Enqueue, and at most one message is on the wire
\* that is not recorded yet.
CallsInv ==
  /\ \A g \in Speakers : call[g] # "none" <=> pc[g] \in {"enqueued", "recorded"}
  /\ \A g \in Speakers : pc[g] = "recorded" => call[g] = "sent"
  /\ \A g, h \in Speakers :
       call[g] = "sent" /\ pc[g] = "enqueued" /\ call[h] = "sent" /\ pc[h] = "enqueued" => g = h

SchedulingInv == TypeOK /\ LineInv /\ CallsInv

LEMMA SchedulingInit == Init => LineInv /\ CallsInv
  BY DEF Init, Queue!Init, LineInv, CallsInv

\* What moves a goroutine outside Enqueue leaves the scheduler as it is.
LEMMA MovesElsewhere ==
  ASSUME CallsInv, UNCHANGED queueVars, NEW g \in Speakers, NEW to,
         pc \in [Speakers -> Places], pc' = [pc EXCEPT ![g] = to],
         pc[g] \notin {"enqueued", "recorded"}, to \notin {"enqueued", "recorded"}
  PROVE  CallsInv'
  BY DEF CallsInv, queueVars

LEMMA SchedulingStep == SchedulingInv /\ [Next]_vars => LineInv' /\ CallsInv'
<1> SUFFICES ASSUME SchedulingInv, [Next]_vars PROVE LineInv' /\ CallsInv'
  OBVIOUS
<1>0. TypeOK /\ LineInv /\ CallsInv /\ pc \in [Speakers -> Places]
  BY DEF SchedulingInv, TypeOK
<1>1. UNCHANGED queueVars => LineInv'
  BY <1>0 DEF LineInv, queueVars
<1>2. UNCHANGED <<queueVars, pc>> => CallsInv'
  BY <1>0 DEF CallsInv, queueVars
<1>3. CASE UNCHANGED vars
  BY <1>1, <1>2, <1>3 DEF vars, speakerVars
<1>4. CASE Clock
  BY <1>1, <1>2, <1>4 DEF Clock, speakerVars
<1>5. ASSUME NEW b \in Bots, Silence(b) PROVE LineInv' /\ CallsInv'
  BY <1>1, <1>2, <1>5 DEF Silence, speakerVars
<1>6. ASSUME NEW h \in Handlers, Handler(h) PROVE LineInv' /\ CallsInv'
  <2>1. CASE ProcessMessage(h)
    BY <1>1, <1>2, <2>1 DEF ProcessMessage, speakerVars
  <2>2. ASSUME NEW b \in Bots, Look(h, b) \/ TooSoon(h, b) \/ SetEnabled(h, b)
        PROVE  LineInv' /\ CallsInv'
    BY <1>1, <1>2, <2>2 DEF Look, TooSoon, SetEnabled, speakerVars
  <2>3. ASSUME NEW b \in Bots, NEW g \in Speakers, GoSpeak(h, b, g)
        PROVE  LineInv' /\ CallsInv'
    <3>1. UNCHANGED queueVars /\ pc[g] = "free" /\ pc' = [pc EXCEPT ![g] = "started"]
      BY <2>3 DEF GoSpeak
    <3> QED
      BY <1>0, <1>1, <3>1, MovesElsewhere
  <2>4. ASSUME NEW c \in Commands, Command(h, c) PROVE LineInv' /\ CallsInv'
    BY <1>1, <1>2, <2>4 DEF Command, speakerVars
  <2>5. CASE Finish(h)
    BY <1>1, <1>2, <2>5 DEF Finish, speakerVars
  <2> QED
    BY <1>6, <2>1, <2>2, <2>3, <2>4, <2>5 DEF Handler
<1>7. ASSUME NEW g \in Speakers, Locking(g) \/ Speaking(g) PROVE LineInv' /\ CallsInv'
  <2>1. CASE Start(g)
    BY <1>0, <1>1, <2>1, MovesElsewhere DEF Start, Step
  <2>2. CASE CallGemini(g)
    BY <1>0, <1>1, <2>2, MovesElsewhere DEF CallGemini, Step
  <2>3. CASE Silenced(g)
    BY <1>0, <1>1, <2>3, MovesElsewhere DEF Silenced, Step
  <2>4. CASE Locking(g)
    BY <1>0, <1>1, <2>4, MovesElsewhere DEF Locking, Succeed, CountFailure, Step
  <2>5. CASE SendDirect(g)
    BY <1>0, <1>1, <2>5, MovesElsewhere DEF SendDirect, Step
  <2>6. CASE Remember(g)
    BY <1>0, <1>1, <2>6, MovesElsewhere DEF Remember, Step
  <2>7. CASE Enqueue(g)
    <3>1. /\ call' = [call EXCEPT ![g] = "offered"] /\ line' = line /\ call[g] = "none"
          /\ pc' = [pc EXCEPT ![g] = "enqueued"]
      BY <2>7 DEF Enqueue, Step, Queue!Call
    <3>2. call \in [Speakers -> Queue!Fates]
      BY <1>0 DEF TypeOK
    <3>3. LineInv'
      BY <1>0, <3>1, <3>2 DEF LineInv
    <3>4. CallsInv'
      BY <1>0, <3>1, <3>2 DEF CallsInv
    <3> QED
      BY <3>3, <3>4
  <2>8. CASE Accept(g)
    <3>1. /\ call' = [call EXCEPT ![g] = "accepted"] /\ line' = Append(line, g)
          /\ call[g] = "offered" /\ pc' = pc
      BY <2>8 DEF Accept, Queue!Accept, speakerVars
    <3>2. call \in [Speakers -> Queue!Fates] /\ line \in Seq(Speakers)
      BY <1>0 DEF TypeOK
    <3>3. LineInv'
      <4>1. /\ DOMAIN line' = DOMAIN line \union {Len(line) + 1}
            /\ line'[Len(line) + 1] = g /\ Len(line) + 1 \notin DOMAIN line
            /\ \A i \in DOMAIN line : line'[i] = line[i]
        BY <3>1, <3>2
      <4>2. \A i \in DOMAIN line : line[i] # g
        BY <1>0, <3>1 DEF LineInv
      <4>3. \A d \in Speakers : call'[d] = IF d = g THEN "accepted" ELSE call[d]
        BY <3>1, <3>2
      <4> QED
        BY <1>0, <4>1, <4>2, <4>3 DEF LineInv
    <3>4. CallsInv'
      BY <1>0, <3>1, <3>2 DEF CallsInv
    <3> QED
      BY <3>3, <3>4
  <2>9. CASE RecordSpeak(g)
    <3>1. UNCHANGED queueVars /\ call[g] = "sent" /\ pc[g] = "enqueued"
          /\ pc' = [pc EXCEPT ![g] = "recorded"]
      BY <2>9 DEF RecordSpeak, Step
    <3> QED
      BY <1>0, <1>1, <3>1 DEF CallsInv, queueVars
  <2>10. CASE Return(g)
    <3>1. /\ call' = [call EXCEPT ![g] = "none"] /\ line' = line
          /\ call[g] \in {"sent", "failed"}
          /\ \E to \in {"remember", "fallback"} : pc' = [pc EXCEPT ![g] = to]
      BY <2>10 DEF Return, Step, Queue!Return
    <3>2. call \in [Speakers -> Queue!Fates]
      BY <1>0 DEF TypeOK
    <3>3. LineInv'
      BY <1>0, <3>1, <3>2 DEF LineInv
    <3>4. CallsInv'
      BY <1>0, <3>1, <3>2 DEF CallsInv
    <3> QED
      BY <3>3, <3>4
  <2> QED
    BY <1>7, <2>1, <2>2, <2>3, <2>4, <2>5, <2>6, <2>7, <2>8, <2>9, <2>10 DEF Speaking
<1>8. CASE Serve
  <2>0. call \in [Speakers -> Queue!Fates] /\ line \in Seq(Speakers)
    BY <1>0 DEF TypeOK
  <2>1. /\ line # <<>> /\ line' = Tail(line) /\ pc' = pc
        /\ \A g \in Speakers : call[g] = "sent" => pc[g] = "recorded"
    BY <1>8 DEF Serve, Queue!Serve, speakerVars
  <2>2. PICK fate \in {"sent", "failed"} : call' = [call EXCEPT ![Head(line)] = fate]
    BY <1>8 DEF Serve, Queue!Serve
  <2>3. /\ 1 \in DOMAIN line /\ Head(line) = line[1] /\ line[1] \in Speakers
        /\ \A i \in DOMAIN line' : i # 0 /\ i + 1 \in DOMAIN line /\ line'[i] = line[i + 1]
        /\ \A i \in DOMAIN line : i = 1 \/ (i - 1 \in DOMAIN line' /\ line'[i - 1] = line[i])
        /\ DOMAIN line' \subseteq Nat /\ DOMAIN line \subseteq Nat
    BY <2>0, <2>1
  <2>4. call[line[1]] = "accepted"
    BY <1>0, <2>3 DEF LineInv
  <2>5. \A d \in Speakers : call'[d] = IF d = line[1] THEN fate ELSE call[d]
    BY <2>0, <2>2, <2>3
  <2>6. LineInv'
    <3>1. \A i, j \in DOMAIN line' : line'[i] = line'[j] => i = j
      BY <1>0, <2>3 DEF LineInv
    <3>2. \A i \in DOMAIN line' : line'[i] # line[1]
      BY <1>0, <2>3 DEF LineInv
    <3>3. ASSUME NEW d \in Speakers
          PROVE  call'[d] = "accepted" <=> \E i \in DOMAIN line' : line'[i] = d
      <4>1. CASE d = line[1]
        BY <2>5, <3>2, <4>1
      <4>2. CASE d # line[1]
        <5>1. (\E i \in DOMAIN line : line[i] = d) <=> \E i \in DOMAIN line' : line'[i] = d
          BY <2>3, <4>2
        <5> QED
          BY <1>0, <2>5, <4>2, <5>1 DEF LineInv
      <4> QED
        BY <4>1, <4>2
    <3> QED
      BY <3>1, <3>3 DEF LineInv
  <2>7. CallsInv'
    BY <1>0, <2>1, <2>3, <2>4, <2>5 DEF CallsInv
  <2> QED
    BY <2>6, <2>7
<1> QED
  BY <1>3, <1>4, <1>5, <1>6, <1>7, <1>8 DEF Next

\* Each goroutine in Enqueue has one call, and each accepted message one place in the line
\* (scheduler.go); a message that was sent is recorded before the next one goes out
\* (recordSpeak in scheduler.go's loop).
THEOREM CallsMatchSpeakers == Spec => [](LineInv /\ CallsInv)
<1>1. SchedulingInv => LineInv /\ CallsInv
  BY DEF SchedulingInv
<1>2. Init => SchedulingInv
  BY InitInv, SchedulingInit DEF BreakerInv, SchedulingInv
<1>3. TypeOK' /\ SchedulingInv /\ [Next]_vars => SchedulingInv'
  BY SchedulingStep DEF SchedulingInv
<1> QED
  BY <1>1, <1>2, <1>3, TypeCorrect, PTL DEF Spec

\* To the swarm the scheduler is what OutboundQueue says: no reply, command or failure of a
\* bot touches the line otherwise.
THEOREM SwarmUsesScheduler == Spec => Queue!Spec
<1>1. Init => Queue!Init
  BY DEF Init
<1>2. [Next]_vars => [Queue!Next]_(Queue!vars)
  <2> SUFFICES ASSUME [Next]_vars, ~UNCHANGED queueVars PROVE Queue!Next
    BY DEF Queue!vars, queueVars
  <2>1. Serve \/ \E g \in Speakers : Enqueue(g) \/ Accept(g) \/ Return(g)
    BY DEF Next, vars, Handler, ProcessMessage, Look, TooSoon, SetEnabled, GoSpeak, Command,
           Finish, Locking, Succeed, CountFailure, Speaking, Start, CallGemini, Silenced,
           RecordSpeak, SendDirect, Remember, Silence, Clock
  <2> QED
    BY <2>1 DEF Serve, Enqueue, Accept, Return, Queue!Next
<1> QED
  BY <1>1, <1>2, PTL DEF Spec, Queue!Spec
=============================================================================
