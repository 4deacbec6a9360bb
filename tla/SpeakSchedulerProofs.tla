------------------------ MODULE SpeakSchedulerProofs ------------------------
(***************************************************************************)
(* Proofs about SpeakScheduler, for any number of callers, any queue size  *)
(* and any cooldown.                                                       *)
(***************************************************************************)
EXTENDS SpeakScheduler, SequenceTheorems, TLAPS

USE SchedulerAssumption

(* What the pacing argument needs of the type invariant: nothing but the   *)
(* ticker, the ages and the loop's position.                               *)
PacingType ==
  /\ loop \in {"ready", "sending", "recording", "cooling", "exited"}
  /\ phase \in 0..(Cooldown - 1)
  /\ tick \in {0, 1}
  /\ sentAge \in [1..3 -> 0..Forever]

PacingInv == PacingType /\ Pacing

LEMMA PacingInit == Init => PacingInv
  BY DEF Init, PacingInv, PacingType, Pacing, Forever

LEMMA PacingStep == PacingInv /\ [Next]_vars => PacingInv'
<1> SUFFICES ASSUME PacingInv, [Next]_vars PROVE PacingInv'
  OBVIOUS
<1> USE DEF PacingInv, PacingType, Pacing, Forever
<1>1. CASE Take
  BY <1>1 DEF Take, tickerVars
<1>2. CASE SendOk
  <2>1. /\ sentAge'[1] = 0
        /\ sentAge'[2] = sentAge[1]
        /\ sentAge'[3] = sentAge[2]
        /\ sentAge' \in [1..3 -> 0..Forever]
    BY <1>2 DEF SendOk
  <2>2. QED
    BY <1>2, <2>1 DEF SendOk, tickerVars
<1>3. CASE SendError
  BY <1>3 DEF SendError, tickerVars
<1>4. CASE Record
  BY <1>4 DEF Record, tickerVars
<1>5. CASE Cooled
  BY <1>5 DEF Cooled
<1>6. CASE Exit
  BY <1>6 DEF Exit, tickerVars
<1>7. CASE Cancel
  BY <1>7 DEF Cancel, tickerVars
<1>8. CASE Clock
  <2>1. /\ \A i \in 1..3 : sentAge'[i] = IF sentAge[i] < Forever THEN sentAge[i] + 1 ELSE sentAge[i]
        /\ sentAge' \in [1..3 -> 0..Forever]
    BY <1>8 DEF Clock, Older
  <2>2. /\ sentAge'[1] <= sentAge'[2] /\ sentAge'[2] <= sentAge'[3]
        /\ \A i \in 1..3 : sentAge[i] \in 0..Forever
    BY <2>1
  <2>3. CASE phase + 1 = Cooldown
    <3>1. phase' = 0 /\ tick' = 1 /\ loop' = loop
      BY <1>8, <2>3 DEF Clock
    <3>2. QED
      BY <2>1, <2>2, <2>3, <3>1
  <2>4. CASE phase + 1 # Cooldown
    <3>1. phase' = phase + 1 /\ phase' < Cooldown /\ tick' = tick /\ loop' = loop
      BY <1>8, <2>4 DEF Clock
    <3>2. QED
      BY <2>1, <2>2, <3>1
  <2>5. QED
    BY <2>3, <2>4
<1>9. ASSUME NEW c \in Callers, Caller(c) PROVE PacingInv'
  BY <1>9 DEF Caller, Enqueue, Offer, Handoff, Return, tickerVars
<1>10. CASE UNCHANGED vars
  BY <1>10 DEF vars, tickerVars
<1>11. QED
  BY <1>1, <1>2, <1>3, <1>4, <1>5, <1>6, <1>7, <1>8, <1>9, <1>10 DEF Next, Loop

(* The ages of the last three messages, the ticker and its buffer, at each *)
(* place of the loop: the invariant that BurstBounded rests on.            *)
THEOREM AlwaysPaced == Spec => []Pacing
<1>1. PacingInv => Pacing
  BY DEF PacingInv
<1>2. QED
  BY PacingInit, PacingStep, <1>1, PTL DEF Spec

(* Four consecutive messages never go out within one Cooldown, whatever    *)
(* tick the loop consumes.                                                 *)
THEOREM BurstBounded == Spec => []BurstBound
<1>1. PacingInv => BurstBound
  BY DEF PacingInv, Pacing, BurstBound
<1>2. QED
  BY PacingInit, PacingStep, <1>1, PTL DEF Spec
-----------------------------------------------------------------------------
(* Type correctness. *)

LEMMA FreshType == Fresh \in Requests
  BY DEF Fresh, Requests, Messages

LEMMA RememberedType ==
  ASSUME NEW lst \in Seq(RecentMessages), Len(lst) <= HistoryLimit, NEW m \in Messages
  PROVE  /\ Remembered(lst, m) \in Seq(RecentMessages)
         /\ Len(Remembered(lst, m)) <= HistoryLimit
<1> DEFINE r == [msg |-> m, age |-> 0]
           front == <<r>>
           all == front \o lst
           n == IF Len(lst) < HistoryLimit THEN Len(lst) + 1 ELSE HistoryLimit
<1>1. r \in RecentMessages
  BY DEF RecentMessages
<1>2. front \in Seq(RecentMessages) /\ Len(front) = 1
  BY <1>1
<1>3. all \in Seq(RecentMessages) /\ Len(all) = Len(lst) + 1 /\ Len(lst) \in Nat
  BY <1>2, ConcatProperties, LenProperties
<1>4. n \in Int /\ n >= 1 /\ n <= Len(all) /\ n <= HistoryLimit
  BY <1>3
<1>5. \A i \in 1..n : all[i] \in RecentMessages
  BY <1>3, <1>4, ElementOfSeq
<1> HIDE DEF n, all
<1>6. SubSeq(all, 1, n) \in Seq(RecentMessages) /\ Len(SubSeq(all, 1, n)) = n
  BY <1>4, <1>5, SubSeqProperties
<1>7. Remembered(lst, m) = SubSeq(all, 1, n)
  BY DEF Remembered, all, n
<1>8. QED
  BY <1>4, <1>6, <1>7

LEMMA AllOlderType ==
  ASSUME NEW lst \in Seq(RecentMessages)
  PROVE  /\ AllOlder(lst) \in Seq(RecentMessages)
         /\ Len(AllOlder(lst)) = Len(lst)
<1>1. /\ Len(lst) \in Nat /\ DOMAIN lst = 1..Len(lst)
      /\ \A i \in 1..Len(lst) : lst[i] \in RecentMessages
  BY LenProperties, ElementOfSeq
<1>2. \A i \in 1..Len(lst) :
        [msg |-> lst[i].msg, age |-> Older(lst[i].age, DupWindow)] \in RecentMessages
  BY <1>1 DEF RecentMessages, Older
<1>3. AllOlder(lst) \in [1..Len(lst) -> RecentMessages]
  BY <1>1, <1>2 DEF AllOlder
<1>4. QED
  BY <1>1, <1>3, SeqDef

LEMMA TypeInit == Init => TypeOK
<1> SUFFICES ASSUME Init PROVE TypeOK
  OBVIOUS
<1>1. request \in [Callers -> Requests]
  BY FreshType DEF Init
<1>2. queue \in Seq(Callers) /\ Len(queue) <= MaxQueue
  BY EmptySeq DEF Init
<1>3. /\ recentMessages \in [Channels -> Seq(RecentMessages)]
      /\ \A ch \in Channels : Len(recentMessages[ch]) <= HistoryLimit
  BY EmptySeq DEF Init
<1>4. /\ pc \in [Callers -> {"idle", "offer", "await"}]
      /\ done \in [Callers -> {"empty", "nil", "error"}]
      /\ sentAge \in [1..3 -> 0..Forever]
  BY DEF Init, Forever
<1>5. /\ loop = "ready" /\ holding = <<>> /\ cancelled = FALSE
      /\ phase \in 0..(Cooldown - 1) /\ tick \in {0, 1}
  BY DEF Init
<1>6. QED
  BY <1>1, <1>2, <1>3, <1>4, <1>5 DEF TypeOK

LEMMA TypeStep == TypeOK /\ [Next]_vars => TypeOK'
<1> SUFFICES ASSUME TypeOK, [Next]_vars PROVE TypeOK'
  OBVIOUS
<1> USE DEF TypeOK, tickerVars, callerVars
<1>1. ASSUME NEW c \in Callers, NEW ch \in Channels, NEW t \in Texts, Enqueue(c, ch, t)
      PROVE  TypeOK'
  <2>1. request' \in [Callers -> Requests]
    BY <1>1 DEF Enqueue, Requests, Messages
  <2>2. QED
    BY <1>1, <2>1 DEF Enqueue
<1>2. ASSUME NEW c \in Callers, Offer(c) PROVE TypeOK'
  <2>1. queue' \in Seq(Callers) /\ Len(queue') = Len(queue) + 1 /\ Len(queue) \in Nat
    BY <1>2, AppendProperties, LenProperties DEF Offer
  <2>2. QED
    BY <1>2, <2>1 DEF Offer
<1>3. ASSUME NEW c \in Callers, Handoff(c) PROVE TypeOK'
  BY <1>3 DEF Handoff
<1>4. ASSUME NEW c \in Callers, Return(c) PROVE TypeOK'
  BY <1>4, FreshType DEF Return
<1>5. CASE Take
  <2>1. Head(queue) \in Callers /\ queue' \in Seq(Callers) /\ Len(queue') <= MaxQueue
    BY <1>5, HeadTailProperties, LenProperties DEF Take
  <2>2. QED
    BY <1>5, <2>1 DEF Take
<1>6. CASE SendOk
  BY <1>6 DEF SendOk, Forever
<1>7. CASE SendError
  BY <1>7 DEF SendError
<1>8. CASE Record
  <2>1. PICK c \in Callers : holding = <<c>>
    BY <1>8 DEF Record
  <2>2. Head(holding) = c
    BY <2>1
  <2>3. request[c].channel \in Channels /\ request[c].msg \in Messages
    BY DEF Requests
  <2>4. /\ recentMessages' \in [Channels -> Seq(RecentMessages)]
        /\ \A ch \in Channels : Len(recentMessages'[ch]) <= HistoryLimit
    BY <1>8, <2>2, <2>3, RememberedType DEF Record
  <2>5. QED
    BY <1>8, <2>2, <2>4 DEF Record
<1>9. CASE Cooled
  BY <1>9 DEF Cooled
<1>10. CASE Exit
  BY <1>10 DEF Exit
<1>11. CASE Cancel
  BY <1>11 DEF Cancel
<1>12. CASE Clock
  <2>1. /\ recentMessages' \in [Channels -> Seq(RecentMessages)]
        /\ \A ch \in Channels : Len(recentMessages'[ch]) <= HistoryLimit
    BY <1>12, AllOlderType DEF Clock
  <2>2. sentAge' \in [1..3 -> 0..Forever]
    <3>1. Forever \in Nat /\ sentAge \in [1..3 -> 0..Forever]
      BY DEF Forever
    <3>2. \A age \in 0..Forever : Older(age, Forever) \in 0..Forever
      BY <3>1 DEF Older
    <3>3. sentAge' = [i \in 1..3 |-> Older(sentAge[i], Forever)]
      BY <1>12 DEF Clock
    <3> QED
      BY <3>1, <3>2, <3>3
  <2>3. phase' \in 0..(Cooldown - 1) /\ tick' \in {0, 1}
    BY <1>12 DEF Clock
  <2>4. QED
    BY <1>12, <2>1, <2>2, <2>3 DEF Clock
<1>13. CASE UNCHANGED vars
  BY <1>13 DEF vars
<1>14. QED
  BY <1>1, <1>2, <1>3, <1>4, <1>5, <1>6, <1>7, <1>8, <1>9, <1>10, <1>11, <1>12, <1>13
     DEF Next, Loop, Caller

(* Every variable keeps its type; the channel and each channel's recent    *)
(* messages never outgrow their limits.                                    *)
THEOREM TypeCorrect == Spec => []TypeOK
  BY TypeInit, TypeStep, PTL DEF Spec
-----------------------------------------------------------------------------
(* Each caller is in one place. *)

PlaceInv == TypeOK /\ OnePlaceEach

LEMMA PlaceInit == Init => PlaceInv
<1> SUFFICES ASSUME Init PROVE OnePlaceEach
  BY TypeInit DEF PlaceInv
<1>1. DOMAIN queue = {} /\ holding = <<>>
  BY DEF Init
<1>2. \A c \in Callers : done[c] = "empty" /\ holding # <<c>>
  BY DEF Init
<1>3. QED
  BY <1>1, <1>2 DEF OnePlaceEach

LEMMA PlaceStep == PlaceInv /\ [Next]_vars => PlaceInv'
<1> SUFFICES ASSUME PlaceInv, [Next]_vars PROVE OnePlaceEach'
  BY TypeStep DEF PlaceInv
<1>0. TypeOK /\ TypeOK'
  BY TypeStep DEF PlaceInv
<1>q. /\ Len(queue) \in Nat /\ DOMAIN queue = 1..Len(queue)
      /\ \A i \in 1..Len(queue) : queue[i] \in Callers
  BY <1>0, LenProperties, ElementOfSeq DEF TypeOK
<1>p. /\ pc \in [Callers -> {"idle", "offer", "await"}]
      /\ done \in [Callers -> {"empty", "nil", "error"}]
      /\ loop \notin {"sending", "recording"} => holding = <<>>
      /\ loop \in {"sending", "recording"} => \E c \in Callers : holding = <<c>>
  BY <1>0 DEF TypeOK
<1> USE DEF PlaceInv, OnePlaceEach, callerVars
<1>1. ASSUME NEW c \in Callers, NEW ch \in Channels, NEW t \in Texts, Enqueue(c, ch, t)
      PROVE  OnePlaceEach'
  BY <1>1, <1>p, <1>q DEF Enqueue
<1>2. ASSUME NEW c \in Callers, Offer(c) PROVE OnePlaceEach'
  <2>1. /\ Len(queue') = Len(queue) + 1 /\ DOMAIN queue' = 1..(Len(queue) + 1)
        /\ \A i \in 1..Len(queue) : queue'[i] = queue[i]
        /\ queue'[Len(queue) + 1] = c
    BY <1>0, <1>2, <1>q, AppendProperties, LenProperties DEF TypeOK, Offer
  <2>2. /\ done[c] = "empty" /\ holding # <<c>>
        /\ \A i \in 1..Len(queue) : queue[i] # c
    BY <1>2, <1>p, <1>q DEF Offer
  <2>3. /\ \A d \in Callers : pc'[d] = IF d = c THEN "await" ELSE pc[d]
        /\ done' = done /\ holding' = holding
    BY <1>2, <1>p DEF Offer
  <2>4. QED
    BY <1>p, <1>q, <2>1, <2>2, <2>3
<1>3. ASSUME NEW c \in Callers, Handoff(c) PROVE OnePlaceEach'
  BY <1>3, <1>p, <1>q DEF Handoff
<1>4. ASSUME NEW c \in Callers, Return(c) PROVE OnePlaceEach'
  BY <1>4, <1>p, <1>q DEF Return
<1>5. CASE Take
  <2>1. /\ Len(queue) > 0 /\ Head(queue) = queue[1] /\ DOMAIN queue' = 1..(Len(queue) - 1)
        /\ \A i \in 1..(Len(queue) - 1) : queue'[i] = queue[i + 1]
    BY <1>0, <1>5, <1>q, HeadTailProperties, LenProperties DEF TypeOK, Take
  <2>2. holding' = <<queue[1]>> /\ pc' = pc /\ done' = done
    BY <1>5, <2>1 DEF Take
  <2>3. queue[1] \in Callers /\ pc[queue[1]] = "await" /\ done[queue[1]] = "empty"
    BY <1>q, <2>1
  <2>4. ASSUME NEW i \in DOMAIN queue'
        PROVE  /\ pc'[queue'[i]] = "await" /\ done'[queue'[i]] = "empty"
               /\ holding' # <<queue'[i]>>
               /\ \A j \in DOMAIN queue' : i # j => queue'[i] # queue'[j]
    <3>1. i + 1 \in DOMAIN queue /\ queue'[i] = queue[i + 1] /\ i + 1 # 1
      BY <1>q, <2>1
    <3>2. \A j \in DOMAIN queue' : j + 1 \in DOMAIN queue /\ queue'[j] = queue[j + 1]
      BY <1>q, <2>1
    <3>3. queue[i + 1] # queue[1]
      BY <1>q, <2>1, <3>1
    <3>4. QED
      BY <1>q, <2>1, <2>2, <3>1, <3>2, <3>3
  <2>5. ASSUME NEW c \in Callers
        PROVE  /\ holding' = <<c>> => pc'[c] = "await" /\ done'[c] = "empty"
               /\ done'[c] # "empty" => pc'[c] = "await"
    BY <2>2, <2>3
  <2>6. QED
    BY <2>4, <2>5
<1>6. CASE SendOk
  BY <1>6, <1>p, <1>q DEF SendOk
<1>7. CASE SendError
  <2>1. PICK c \in Callers : holding = <<c>>
    BY <1>7, <1>p DEF SendError
  <2>2. Head(holding) = c
    BY <2>1
  <2>3. QED
    BY <1>7, <1>p, <1>q, <2>1, <2>2 DEF SendError
<1>8. CASE Record
  <2>1. PICK c \in Callers : holding = <<c>>
    BY <1>8, <1>p DEF Record
  <2>2. Head(holding) = c
    BY <2>1
  <2>3. QED
    BY <1>8, <1>p, <1>q, <2>1, <2>2 DEF Record
<1>9. CASE Cooled
  BY <1>9 DEF Cooled
<1>10. CASE Exit
  BY <1>10 DEF Exit
<1>11. CASE Cancel
  BY <1>11 DEF Cancel
<1>12. CASE Clock
  BY <1>12 DEF Clock
<1>13. CASE UNCHANGED vars
  BY <1>13 DEF vars
<1>14. QED
  BY <1>1, <1>2, <1>3, <1>4, <1>5, <1>6, <1>7, <1>8, <1>9, <1>10, <1>11, <1>12, <1>13
     DEF Next, Loop, Caller
-----------------------------------------------------------------------------
(* The scheduler implements OutboundQueue. *)

LEMMA PromiseInit == Init => Promise!Init
<1> SUFFICES ASSUME Init PROVE Promise!Init
  OBVIOUS
<1>1. \A c \in Callers : CallState(c) = "none"
  BY DEF Init, CallState
<1>2. Untried = <<>>
  BY ConcatEmptySeq, EmptySeq DEF Init, Untried
<1>3. QED
  BY <1>1, <1>2 DEF Promise!Init

(* The fate of every caller but one is kept. *)
Others(c) == \A d \in Callers \ {c} : CallState(d)' = CallState(d)

LEMMA CallChange ==
  ASSUME NEW c \in Callers, NEW fate, Others(c), CallState(c)' = fate
  PROVE  [d \in Callers |-> CallState(d)]'
           = [[d \in Callers |-> CallState(d)] EXCEPT ![c] = fate]
  BY DEF Others

LEMMA PromiseStep == PlaceInv /\ [Next]_vars => [Promise!Next]_(Promise!vars)
<1> SUFFICES ASSUME PlaceInv, [Next]_vars PROVE [Promise!Next]_(Promise!vars)
  OBVIOUS
<1> DEFINE Stays == /\ \A d \in Callers : CallState(d)' = CallState(d)
                    /\ Untried' = Untried
<1>0. TypeOK /\ OnePlaceEach
  BY DEF PlaceInv
<1>q. queue \in Seq(Callers) /\ <<>> \o queue = queue
  BY <1>0, ConcatEmptySeq DEF TypeOK
<1>p. /\ pc \in [Callers -> {"idle", "offer", "await"}]
      /\ done \in [Callers -> {"empty", "nil", "error"}]
      /\ loop \notin {"sending", "recording"} => holding = <<>>
      /\ loop \in {"sending", "recording"} => \E c \in Callers : holding = <<c>>
  BY <1>0 DEF TypeOK
<1>h. \A c \in Callers :
        /\ holding = <<c>> => pc[c] = "await" /\ done[c] = "empty"
        /\ done[c] # "empty" => pc[c] = "await"
  BY <1>0 DEF OnePlaceEach
<1>o. \A c \in Callers :
        pc[c] = "offer" => done[c] \notin {"error", "nil"} /\ holding # <<c>>
  BY <1>h
<1>e. \A c, d : <<c>> = <<d>> => c = d
  OBVIOUS
<1>s. Stays => UNCHANGED Promise!vars
  BY DEF Promise!vars
<1> HIDE DEF Stays
<1> USE DEF callerVars
<1>1. ASSUME NEW c \in Callers, NEW ch \in Channels, NEW t \in Texts, Enqueue(c, ch, t)
      PROVE  Promise!Call(c)
  <2>1. Others(c) /\ CallState(c) = "none" /\ CallState(c)' = "offered"
    BY <1>1, <1>p, <1>h DEF Enqueue, Others, CallState
  <2>2. Untried' = Untried
    BY <1>1 DEF Enqueue, Untried
  <2>3. QED
    BY <2>1, <2>2, CallChange DEF Promise!Call
<1>2. ASSUME NEW c \in Callers, Offer(c) PROVE Promise!Accept(c)
  <2>1. /\ Others(c) /\ CallState(c) = "offered"
        /\ CallState(c)' = "accepted"
    <3>1. done[c] \notin {"error", "nil"} /\ holding # <<c>>
      BY <1>2, <1>o DEF Offer
    <3>2. /\ \A d \in Callers \ {c} : pc'[d] = pc[d]
          /\ pc[c] = "offer" /\ pc'[c] = "await"
          /\ done' = done /\ holding' = holding /\ loop' = loop
      BY <1>2, <1>p DEF Offer
    <3>3. QED
      BY <3>1, <3>2 DEF Others, CallState
  <2>2. Untried' = Append(Untried, c)
    <3> DEFINE front == IF loop = "sending" THEN holding ELSE <<>>
    <3>1. front \in Seq(Callers)
      <4>1. CASE loop = "sending"
        <5>1. PICK d \in Callers : holding = <<d>>
          BY <1>p, <4>1
        <5>2. <<d>> \in Seq(Callers)
          OBVIOUS
        <5>3. QED
          BY <4>1, <5>1, <5>2
      <4>2. CASE loop # "sending"
        BY <4>2, EmptySeq
      <4>3. QED
        BY <4>1, <4>2
    <3>2. front \o Append(queue, c) = Append(front \o queue, c)
      <4> HIDE DEF front
      <4>1. Append(queue, c) = queue \o <<c>> /\ <<c>> \in Seq(Callers)
        BY <1>q, AppendIsConcat
      <4>2. front \o (queue \o <<c>>) = (front \o queue) \o <<c>>
        BY <1>q, <3>1, <4>1, ConcatAssociative
      <4>3. front \o queue \in Seq(Callers)
        BY <1>q, <3>1, ConcatProperties
      <4>4. Append(front \o queue, c) = (front \o queue) \o <<c>>
        BY <4>3, AppendIsConcat
      <4>5. QED
        BY <4>1, <4>2, <4>4
    <3>3. Untried' = front \o Append(queue, c)
      BY <1>2 DEF Offer, Untried
    <3>4. QED
      BY <3>2, <3>3 DEF Untried
  <2>3. QED
    BY <2>1, <2>2, CallChange DEF Promise!Accept
<1>3. ASSUME NEW c \in Callers, Handoff(c) PROVE Promise!Accept(c)
  <2>1. /\ Others(c) /\ CallState(c) = "offered"
        /\ CallState(c)' = "accepted"
    BY <1>3, <1>p, <1>h DEF Handoff, Others, CallState
  <2>2. Untried = <<>> /\ Untried' = <<c>>
    BY <1>3, <1>q, ConcatEmptySeq DEF Handoff, Untried
  <2>3. QED
    BY <2>1, <2>2, CallChange DEF Promise!Accept
<1>4. ASSUME NEW c \in Callers, Return(c) PROVE Promise!Return(c)
  <2>1. /\ Others(c) /\ CallState(c) \in {"sent", "failed"}
        /\ CallState(c)' = "none"
    BY <1>4, <1>p, <1>h DEF Return, Others, CallState
  <2>2. Untried' = Untried
    BY <1>4 DEF Return, Untried
  <2>3. QED
    BY <2>1, <2>2, CallChange DEF Promise!Return
<1>5. CASE Take
  <2>1. Untried = queue
    BY <1>5, <1>q DEF Take, Untried
  <2>2. Untried' = <<Head(queue)>> \o Tail(queue)
    BY <1>5 DEF Take, Untried
  <2>3. <<Head(queue)>> \o Tail(queue) = queue
    BY <1>5, <1>q DEF Take
  <2>4. \A d \in Callers : CallState(d)' = CallState(d)
    BY <1>5 DEF Take, CallState
  <2>5. QED
    BY <2>1, <2>2, <2>3, <2>4, <1>s DEF Stays
<1>6. ASSUME SendOk \/ SendError PROVE Promise!Serve
  <2>1. PICK c \in Callers : holding = <<c>>
    BY <1>6, <1>p DEF SendOk, SendError
  <2>2. PICK fate \in {"sent", "failed"} : Others(c) /\ CallState(c)' = fate
    <3>1. Head(holding) = c
      BY <2>1
    <3>2. CASE SendOk
      <4>1. /\ pc' = pc /\ done' = done /\ holding' = holding
            /\ loop = "sending" /\ loop' = "recording"
        BY <3>2 DEF SendOk
      <4>2. pc[c] = "await" /\ done[c] = "empty"
        BY <1>h, <2>1
      <4>3. CallState(c)' = "sent"
        BY <2>1, <4>1, <4>2 DEF CallState
      <4>4. \A d \in Callers \ {c} : holding # <<d>>
        BY <2>1, <1>e
      <4>5. Others(c)
        BY <4>1, <4>4 DEF CallState, Others
      <4>6. QED
        BY <4>3, <4>5
    <3>3. CASE SendError
      <4>1. /\ pc' = pc /\ loop = "sending" /\ loop' = "cooling"
            /\ done' = [done EXCEPT ![c] = "error"]
        BY <3>1, <3>3 DEF SendError
      <4>2. pc[c] = "await" /\ done'[c] = "error"
        <5>1. pc[c] = "await"
          BY <1>h, <2>1
        <5>2. done'[c] = "error"
          BY <1>p, <4>1
        <5>3. QED
          BY <5>1, <5>2
      <4>3. CallState(c)' = "failed"
        BY <4>2, <4>1 DEF CallState
      <4>4. \A d \in Callers \ {c} : done'[d] = done[d]
        BY <1>p, <4>1
      <4>5. Others(c)
        BY <4>1, <4>4 DEF CallState, Others
      <4>6. QED
        BY <4>3, <4>5
    <3>4. QED
      BY <1>6, <3>2, <3>3
  <2>3. Untried = <<c>> \o queue /\ Untried' = queue
    BY <1>6, <1>q, <2>1 DEF SendOk, SendError, Untried
  <2>4. <<c>> \o queue # <<>> /\ Head(<<c>> \o queue) = c /\ Tail(<<c>> \o queue) = queue
    BY <1>q
  <2>5. QED
    BY <2>2, <2>3, <2>4, CallChange DEF Promise!Serve
<1>8. CASE Record
  <2>1. PICK c \in Callers : holding = <<c>>
    BY <1>8, <1>p DEF Record
  <2>2. Head(holding) = c
    BY <2>1
  <2>3. \A d \in Callers : CallState(d)' = CallState(d)
    BY <1>8, <1>p, <1>h, <2>1, <2>2 DEF Record, CallState
  <2>4. Untried' = Untried
    BY <1>8 DEF Record, Untried
  <2>5. QED
    BY <2>3, <2>4, <1>s DEF Stays
<1>9. CASE Cooled \/ Exit \/ Cancel \/ Clock \/ UNCHANGED vars
  <2>1. /\ pc' = pc /\ done' = done /\ holding' = holding /\ queue' = queue
        /\ (loop = "sending") = (loop' = "sending")
        /\ (loop = "recording") = (loop' = "recording")
    BY <1>9 DEF Cooled, Exit, Cancel, Clock, vars
  <2>2. QED
    BY <2>1, <1>s DEF Stays, CallState, Untried
<1>10. QED
  BY <1>1, <1>2, <1>3, <1>4, <1>5, <1>6, <1>8, <1>9
     DEF Next, Loop, Caller, Promise!Next

(* First come first served, one try per request, and each Enqueue answered *)
(* with the outcome of its own message, whatever the ticker, the context   *)
(* and the size of the channel.                                            *)
THEOREM SchedulerKeepsPromise == Spec => KeepsPromise
<1>1. Spec => []PlaceInv
  BY PlaceInit, PlaceStep, PTL DEF Spec
<1>2. QED
  BY <1>1, PromiseInit, PromiseStep, PTL DEF Spec, KeepsPromise, Promise!Spec
=============================================================================
