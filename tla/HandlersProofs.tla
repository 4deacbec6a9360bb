--------------------------- MODULE HandlersProofs ---------------------------
(***************************************************************************)
(* Proofs about Conversation and RateLimiter, for any providers, windows,  *)
(* limits, bounds and senders, and about the process that has these, the   *)
(* plugins and the pseudonyms (PluginsProofs, PrivacyProofs).              *)
(*                                                                         *)
(* Of a conversation: a memory is of turns in order, and a handler that is *)
(* alone finds it as it left it, which is what the next step of its program*)
(* needs. Where two overlap, none of this holds of the memory they share,  *)
(* for each writes back the slice that it has read; the memory of a custom *)
(* command is never shared.                                                *)
(*                                                                         *)
(* Of the limiter: the stamps that are kept and still valid are exactly    *)
(* those of the admissions within the window, so the number of the first   *)
(* bounds that of the second.                                              *)
(***************************************************************************)
EXTENDS MCHandlers, PluginsProofs, PrivacyProofs, FunctionTheorems

(* The numbers among the constants.                                        *)
LEMMA Numbers ==
  MemoryLimit \in Nat /\ ContextLength \in Nat /\ MaxRows \in Nat /\ MaxCalls \in Nat /\ Limits \subseteq Nat
  BY ConversationAssumption

(* The programs are ordered; those of Ollama and OpenRouter look first.    *)
LEMMA ProgramsOrdered ==
  ASSUME NEW p \in {"ollama", "openrouter", "gemini", "chatgpt"}
  PROVE  /\ ProgramOf(p) \in Seq({"handle", "trim", "send", "system", "user", "assistant"})
         /\ Ordered(ProgramOf(p))
         /\ p \in {"ollama", "openrouter"} => LooksFirst(ProgramOf(p)) /\ Head(ProgramOf(p)) = "trim"
         /\ ProgramOf(p) \notin {<<"handle">>, <<>>}
         /\ Head(ProgramOf(p)) \in {"trim", "user", "system"}
<1>1. CASE p \in {"ollama", "openrouter"}
  <2> DEFINE q == <<"trim", "user", "send", "assistant">>
  <2>1. ProgramOf(p) = q
    BY <1>1 DEF ProgramOf, OllamaProgram, OpenRouterProgram
  <2>2. /\ q \in Seq({"handle", "trim", "send", "system", "user", "assistant"})
        /\ Len(q) = 4 /\ q[1] = "trim" /\ q[2] = "user" /\ q[3] = "send" /\ q[4] = "assistant"
        /\ DOMAIN q = 1..4 /\ Head(q) = "trim"
    OBVIOUS
  <2> HIDE DEF q
  <2>3. Ordered(q)
    BY <2>2 DEF Ordered
  <2>4. LooksFirst(q)
    BY <2>2 DEF LooksFirst
  <2>5. q \notin {<<"handle">>, <<>>}
    BY <2>2
  <2>6. QED
    BY <2>1, <2>2, <2>3, <2>4, <2>5
<1>2. CASE p = "gemini"
  <2> DEFINE q == <<"user", "send", "trim", "user", "assistant">>
  <2>1. ProgramOf(p) = q
    BY <1>2 DEF ProgramOf, GeminiProgram
  <2>2. /\ q \in Seq({"handle", "trim", "send", "system", "user", "assistant"})
        /\ Len(q) = 5 /\ q[1] = "user" /\ q[2] = "send" /\ q[3] = "trim" /\ q[4] = "user" /\ q[5] = "assistant"
        /\ DOMAIN q = 1..5 /\ Head(q) = "user"
    OBVIOUS
  <2> HIDE DEF q
  <2>3. Ordered(q)
    BY <2>2 DEF Ordered
  <2>4. q # <<"handle">> /\ q # <<>>
    <3>1. Len(<<"handle">>) = 1
      OBVIOUS
    <3>2. q # <<"handle">>
      BY <2>2, <3>1
    <3>3. Len(q) > 0
      BY <2>2
    <3>4. q # <<>>
      BY <3>3
    <3>5. QED
      BY <3>2, <3>4
  <2>5. QED
    BY <1>2, <2>1, <2>2, <2>3, <2>4
<1>3. CASE p = "chatgpt"
  <2> DEFINE q == <<"system", "user", "send", "assistant", "trim">>
  <2>1. ProgramOf(p) = q
    BY <1>3 DEF ProgramOf, ChatGPTProgram
  <2>2. /\ q \in Seq({"handle", "trim", "send", "system", "user", "assistant"})
        /\ Len(q) = 5 /\ q[1] = "system" /\ q[2] = "user" /\ q[3] = "send" /\ q[4] = "assistant" /\ q[5] = "trim"
        /\ DOMAIN q = 1..5 /\ Head(q) = "system"
    OBVIOUS
  <2> HIDE DEF q
  <2>3. Ordered(q)
    BY <2>2 DEF Ordered
  <2>4. q # <<"handle">> /\ q # <<>>
    <3>1. Len(<<"handle">>) = 1
      OBVIOUS
    <3>2. q # <<"handle">>
      BY <2>2, <3>1
    <3>3. Len(q) > 0
      BY <2>2
    <3>4. q # <<>>
      BY <3>3
    <3>5. QED
      BY <3>2, <3>4
  <2>5. QED
    BY <1>3, <2>1, <2>2, <2>3, <2>4
<1>4. QED
  BY <1>1, <1>2, <1>3

(* What is left after a step keeps that order.                             *)
LEMMA TailOrdered ==
  ASSUME NEW p \in Seq({"handle", "trim", "send", "system", "user", "assistant"}), p # <<>>, p # <<"handle">>,
         Ordered(p)
  PROVE  /\ Tail(p) \in Seq({"handle", "trim", "send", "system", "user", "assistant"})
         /\ Tail(p) # <<"handle">>
         /\ Ordered(Tail(p))
         /\ LooksFirst(p) => LooksFirst(Tail(p))
         /\ Tail(p) # <<>> =>
              /\ Head(Tail(p)) = "send" => Head(p) = "user"
              /\ Head(Tail(p)) = "assistant" => Head(p) \in {"user", "send"}
              /\ Head(Tail(p)) = "trim" => \A i \in DOMAIN Tail(p) : Tail(p)[i] # "send"
              /\ LooksFirst(p) => /\ Head(Tail(p)) = "user" => Head(p) = "trim"
                                  /\ Head(Tail(p)) = "assistant" => Head(p) = "send"
         /\ (\E i \in DOMAIN Tail(p) : Tail(p)[i] = "send") => \E i \in DOMAIN p : p[i] = "send"
<1> DEFINE q == Tail(p)
<1>1. /\ q \in Seq({"handle", "trim", "send", "system", "user", "assistant"})
      /\ Len(p) \in Nat /\ Len(p) > 0 /\ Len(q) = Len(p) - 1 /\ DOMAIN q = 1..Len(q) /\ DOMAIN p = 1..Len(p)
      /\ \A i \in 1..Len(q) : q[i] = p[i + 1]
  OBVIOUS
<1>2. Head(p) = p[1] /\ (q # <<>> => Head(q) = q[1] /\ Len(q) > 0)
  BY <1>1
<1> HIDE DEF q
<1>3. \A i \in 2..Len(q) : q[i] = p[i + 1] /\ q[i - 1] = p[(i + 1) - 1] /\ i + 1 \in 2..Len(p)
  BY <1>1
<1>4. q # <<"handle">> /\ \A i \in DOMAIN q : q[i] # "handle"
  <2>1. \A i \in DOMAIN p : p[i] # "handle"
    BY DEF Ordered
  <2>2. \A i \in DOMAIN q : q[i] # "handle"
    BY <1>1, <2>1
  <2>3. QED
    BY <2>2
<1>5. \A i \in 1..Len(q) : q[i] = "trim" => \A j \in i..Len(q) : q[j] # "send"
  <2> SUFFICES ASSUME NEW i \in 1..Len(q), q[i] = "trim", NEW j \in i..Len(q) PROVE q[j] # "send"
    OBVIOUS
  <2>1. i + 1 \in 2..Len(p) /\ j + 1 \in (i + 1)..Len(p) /\ p[i + 1] = "trim" /\ q[j] = p[j + 1]
    BY <1>1
  <2>2. QED
    BY <2>1 DEF Ordered
<1>6. \A i \in 2..Len(q) :
        /\ q[i] = "send" => q[i - 1] = "user"
        /\ q[i] = "assistant" => q[i - 1] \in {"user", "send"}
  BY <1>3 DEF Ordered
<1>7. Ordered(q)
  BY <1>1, <1>4, <1>5, <1>6 DEF Ordered
<1>8. LooksFirst(p) => LooksFirst(q)
  <2> SUFFICES ASSUME LooksFirst(p) PROVE LooksFirst(q)
    OBVIOUS
  <2>1. \A i \in DOMAIN q : q[i] # "system"
    <3>1. \A i \in DOMAIN q : i + 1 \in DOMAIN p /\ q[i] = p[i + 1]
      BY <1>1
    <3>2. \A i \in DOMAIN p : p[i] # "system"
      BY DEF LooksFirst
    <3>3. QED
      BY <3>1, <3>2
  <2>2. \A i \in 2..Len(q) :
        /\ q[i] = "user" => q[i - 1] = "trim"
        /\ q[i] = "assistant" => q[i - 1] = "send"
        /\ q[i] # "trim"
    BY <1>3 DEF LooksFirst
  <2>3. QED
    BY <2>1, <2>2 DEF LooksFirst
<1>9. q # <<>> =>
        /\ Head(q) = "send" => Head(p) = "user"
        /\ Head(q) = "assistant" => Head(p) \in {"user", "send"}
        /\ Head(q) = "trim" => \A i \in DOMAIN q : q[i] # "send"
        /\ LooksFirst(p) => /\ Head(q) = "user" => Head(p) = "trim"
                            /\ Head(q) = "assistant" => Head(p) = "send"
  <2> SUFFICES ASSUME q # <<>>
               PROVE  /\ Head(q) = "send" => Head(p) = "user"
                      /\ Head(q) = "assistant" => Head(p) \in {"user", "send"}
                      /\ Head(q) = "trim" => \A i \in DOMAIN q : q[i] # "send"
                      /\ LooksFirst(p) => /\ Head(q) = "user" => Head(p) = "trim"
                                          /\ Head(q) = "assistant" => Head(p) = "send"
    OBVIOUS
  <2>1. 2 \in 2..Len(p) /\ Head(q) = p[2] /\ Head(p) = p[2 - 1] /\ Head(q) = q[1] /\ 1 \in 1..Len(q)
    BY <1>1, <1>2
  <2>2. QED
    BY <1>1, <1>5, <2>1 DEF Ordered, LooksFirst
<1>10. (\E i \in DOMAIN q : q[i] = "send") => \E i \in DOMAIN p : p[i] = "send"
  BY <1>1
<1>11. QED
  BY <1>1, <1>4, <1>7, <1>8, <1>9, <1>10 DEF q

(* What a program that has moved on, or has ended, leaves as it was.       *)
LEMMA Progress ==
  ASSUME ConvTypeOK, ProgramsInv, NEW c \in Calls, UnderWay(c),
         NEW r, r \in {Tail(program[c]), <<>>},
         program' = [program EXCEPT ![c] = r],
         UNCHANGED <<provider, slice>>,
         seen' = [seen EXCEPT ![c] = {}]
  PROVE  /\ program' \in [Calls -> Seq({"handle", "trim", "send", "system", "user", "assistant"})]
         /\ ProgramsInv'
         /\ program'[c] = r
         /\ \A d \in Calls : UnderWay(d)' => UnderWay(d)
         /\ \A d \in Calls \ {c} :
              program'[d] = program[d] /\ Op(d)' = Op(d) /\ (UnderWay(d) => UnderWay(d)')
         /\ UnderWay(c)' =>
              /\ r = Tail(program[c])
              /\ Op(c)' = "send" => Op(c) = "user"
              /\ Op(c)' = "assistant" => Op(c) \in {"user", "send"}
              /\ Op(c)' = "trim" => \A i \in DOMAIN program'[c] : program'[c][i] # "send"
              /\ provider \in {"ollama", "openrouter"} =>
                   /\ Op(c)' = "user" => Op(c) = "trim"
                   /\ Op(c)' = "assistant" => Op(c) = "send"
         /\ (\E i \in DOMAIN program'[c] : program'[c][i] = "send") =>
              /\ UnderWay(c)'
              /\ \E i \in DOMAIN program[c] : program[c][i] = "send"
<1> DEFINE W == {"handle", "trim", "send", "system", "user", "assistant"}
           p == program[c]
<1>1. /\ p \in Seq(W) /\ p # <<>> /\ p # <<"handle">> /\ Ordered(p)
      /\ provider \in {"ollama", "openrouter"} => LooksFirst(p)
      /\ slice[c] \in {Chat, c}
  BY DEF ConvTypeOK, ProgramsInv, UnderWay
<1>2. /\ program'[c] = r
      /\ \A d \in Calls \ {c} : program'[d] = program[d]
  BY DEF ConvTypeOK
<1>3. /\ <<>> \in Seq(W) /\ <<>> # <<"handle">> /\ Ordered(<<>>) /\ LooksFirst(<<>>)
      /\ \A i \in DOMAIN <<>> : <<>>[i] # "send"
  BY DEF Ordered, LooksFirst
<1>4. /\ Tail(p) \in Seq(W)
      /\ Tail(p) # <<"handle">>
      /\ Ordered(Tail(p))
      /\ LooksFirst(p) => LooksFirst(Tail(p))
      /\ Tail(p) # <<>> =>
           /\ Head(Tail(p)) = "send" => Head(p) = "user"
           /\ Head(Tail(p)) = "assistant" => Head(p) \in {"user", "send"}
           /\ Head(Tail(p)) = "trim" => \A i \in DOMAIN Tail(p) : Tail(p)[i] # "send"
           /\ LooksFirst(p) => /\ Head(Tail(p)) = "user" => Head(p) = "trim"
                               /\ Head(Tail(p)) = "assistant" => Head(p) = "send"
      /\ (\E i \in DOMAIN Tail(p) : Tail(p)[i] = "send") => \E i \in DOMAIN p : p[i] = "send"
  BY <1>1, TailOrdered
<1>5. r \in Seq(W) /\ r # <<"handle">> /\ Ordered(r) /\ (LooksFirst(p) => LooksFirst(r))
  BY <1>3, <1>4
<1>6. program' \in [Calls -> Seq(W)]
  BY <1>5 DEF ConvTypeOK
<1>7. \A d \in Calls \ {c} : Op(d)' = Op(d) /\ (UnderWay(d)' <=> UnderWay(d)) /\ (Appends(d)' <=> Appends(d))
  BY <1>2 DEF Op, UnderWay, Appends
<1>8. /\ seen'[c] = {}
      /\ \A d \in Calls \ {c} : seen'[d] = seen[d]
  BY DEF ConvTypeOK
<1>9. ProgramsInv'
  <2> SUFFICES ASSUME NEW d \in Calls
               PROVE  /\ Ordered(program'[d])
                      /\ provider \in {"ollama", "openrouter"} => LooksFirst(program'[d])
                      /\ slice[d] \in {Chat, d}
                      /\ program'[d] = <<"handle">> => slice[d] = Chat
                      /\ seen'[d] # {} => Appends(d)'
    BY DEF ProgramsInv
  <2>1. CASE d = c
    BY <1>1, <1>2, <1>5, <1>8, <2>1
  <2>2. CASE d # c
    BY <1>2, <1>7, <1>8, <2>2 DEF ProgramsInv
  <2>3. QED
    BY <2>1, <2>2
<1>10. UnderWay(c)' => r = Tail(p) /\ Tail(p) # <<>>
  BY <1>2 DEF UnderWay
<1>11. Op(c)' = Head(r) /\ Op(c) = Head(p)
  BY <1>2 DEF Op
<1>12. (\E i \in DOMAIN r : r[i] = "send") => UnderWay(c)'
  BY <1>2, <1>3, <1>5 DEF UnderWay
<1>13. QED
  BY <1>1, <1>2, <1>3, <1>4, <1>6, <1>7, <1>9, <1>10, <1>11, <1>12

(* Who is alone shares its memory with no one under way.                   *)
LEMMA OwnMemory ==
  ASSUME ProgramsInv, AloneInv, NEW c \in Calls, NEW d \in Calls, c # d,
         UnderWay(c), UnderWay(d), Alone(d)
  PROVE  slice[c] # slice[d]
<1>1. slice[c] \in {Chat, c} /\ slice[d] \in {Chat, d}
  BY DEF ProgramsInv
<1>2. c # Chat /\ d # Chat
  BY DEF Calls, Chat
<1>3. CASE slice[d] = Chat
  BY <1>3 DEF Alone, AloneInv
<1>4. CASE slice[d] = d
  BY <1>1, <1>2, <1>4
<1>5. QED
  BY <1>1, <1>3, <1>4

(* A step of a handler keeps the invariant, if what it makes of its memory *)
(* is as it should be for what it does next.                               *)
LEMMA StepOfOne ==
  ASSUME ConvInv, NEW c \in Calls, UnderWay(c),
         NEW r, r \in {Tail(program[c]), <<>>},
         program' = [program EXCEPT ![c] = r],
         NEW x \in Seq(Elements),
         memory' = [memory EXCEPT ![slice[c]] = x],
         seen' = [seen EXCEPT ![c] = {}],
         UNCHANGED <<provider, slice, rows, overlapped>>, crashed' \in BOOLEAN,
         Alone(c) => Paired(x),
         Alone(c) /\ UnderWay(c)' /\ Op(c)' \in {"send", "assistant"} =>
           x # <<>> /\ Last(x) = Element("user", c),
         provider \in {"ollama", "openrouter"} /\ ~overlapped /\ slice[c] = Chat =>
           /\ Len(x) <= Bound + 2
           /\ UnderWay(c)' =>
                /\ Op(c)' = "user" => Len(x) <= Bound
                /\ Op(c)' \in {"send", "assistant"} => Len(x) <= Bound + 1,
         slice[c] = c /\ FewRows(c) /\ (\E i \in DOMAIN program'[c] : program'[c][i] = "send") =>
           /\ \A i \in 1..rows[c].found : i <= Len(x) /\ x[i] = Element("row", c)
           /\ Op(c)' = "trim" => Len(x) <= rows[c].found + rows[c].blank + ContextLength
  PROVE  ConvInv'
<1>1. ConvTypeOK /\ ProgramsInv /\ AloneInv /\ AnswersInv /\ BoundInv /\ RowsInv
  BY DEF ConvInv
<1>2. /\ program' \in [Calls -> Seq({"handle", "trim", "send", "system", "user", "assistant"})]
      /\ ProgramsInv'
      /\ \A d \in Calls : UnderWay(d)' => UnderWay(d)
      /\ \A d \in Calls \ {c} :
           program'[d] = program[d] /\ Op(d)' = Op(d) /\ (UnderWay(d) => UnderWay(d)')
  BY <1>1, Progress
<1>3. /\ slice[c] \in {Chat, c} /\ c # Chat /\ slice[c] \in {Chat} \union Calls
      /\ \A d \in Calls : slice[d] \in {Chat, d} /\ slice[d] \in {Chat} \union Calls
  BY <1>1 DEF ProgramsInv, Calls, Chat
<1>4. /\ memory' \in [{Chat} \union Calls -> Seq(Elements)]
      /\ memory'[slice[c]] = x
      /\ \A m \in {Chat} \union Calls : m # slice[c] => memory'[m] = memory[m]
      /\ DOMAIN memory = {Chat} \union Calls /\ DOMAIN memory' = {Chat} \union Calls
  BY <1>1, <1>3 DEF ConvTypeOK
<1>5. /\ seen' \in [Calls -> SUBSET Seq(Elements)] /\ seen'[c] = {}
      /\ \A d \in Calls \ {c} : seen'[d] = seen[d]
  BY <1>1 DEF ConvTypeOK
<1>6. ConvTypeOK'
  BY <1>1, <1>2, <1>4, <1>5 DEF ConvTypeOK
<1>7. \A d \in Calls \ {c} : UnderWay(d) /\ Alone(d) => slice[d] # slice[c]
  BY <1>1, OwnMemory
<1>8. \A d \in Calls : Alone(d)' <=> Alone(d)
  BY DEF Alone
<1>9. AloneInv'
  <2>1. ~overlapped => \A d, e \in Calls :
          UnderWay(d)' /\ UnderWay(e)' /\ slice[d] = Chat /\ slice[e] = Chat => d = e
    BY <1>1, <1>2 DEF AloneInv
  <2>2. ASSUME NEW d \in Calls, Alone(d) PROVE seen'[d] \subseteq {memory'[slice[d]]}
    <3>1. CASE d = c \/ seen[d] = {}
      BY <1>5, <3>1
    <3>2. CASE d # c /\ seen[d] # {}
      <4>1. UnderWay(d)
        BY <1>1, <3>2 DEF ProgramsInv, Appends
      <4>2. memory'[slice[d]] = memory[slice[d]]
        BY <1>3, <1>4, <1>7, <2>2, <3>2, <4>1
      <4>3. QED
        BY <1>1, <1>5, <2>2, <3>2, <4>2 DEF AloneInv
    <3>3. QED
      BY <3>1, <3>2
  <2>3. QED
    BY <1>8, <2>1, <2>2 DEF AloneInv
<1>10. AnswersInv'
  <2>1. ASSUME NEW m \in {Chat} \union Calls, m # Chat \/ ~overlapped PROVE Paired(memory'[m])
    <3>1. CASE m = slice[c]
      <4>1. Alone(c)
        BY <2>1, <3>1 DEF Alone
      <4>2. QED
        BY <1>4, <3>1, <4>1
    <3>2. CASE m # slice[c]
      BY <1>1, <1>4, <2>1, <3>2 DEF AnswersInv
    <3>3. QED
      BY <3>1, <3>2
  <2>2. ASSUME NEW d \in Calls, Alone(d), UnderWay(d)', Op(d)' \in {"send", "assistant"}
        PROVE  QuestionIsLast(d)'
    <3>1. CASE d = c
      BY <1>4, <2>2, <3>1 DEF QuestionIsLast
    <3>2. CASE d # c
      <4>1. UnderWay(d) /\ Op(d) \in {"send", "assistant"} /\ memory'[slice[d]] = memory[slice[d]]
        BY <1>2, <1>3, <1>4, <1>7, <2>2, <3>2
      <4>2. QuestionIsLast(d)
        BY <1>1, <2>2, <4>1 DEF AnswersInv
      <4>3. QED
        BY <4>1, <4>2 DEF QuestionIsLast
    <3>3. QED
      BY <3>1, <3>2
  <2>3. QED
    BY <1>4, <1>8, <2>1, <2>2 DEF AnswersInv
<1>11. BoundInv'
  <2> SUFFICES ASSUME provider \in {"ollama", "openrouter"}, ~overlapped
               PROVE  /\ Len(memory'[Chat]) <= Bound + 2
                      /\ \A d \in Calls : UnderWay(d)' /\ slice[d] = Chat =>
                           /\ Op(d)' = "user" => Len(memory'[Chat]) <= Bound
                           /\ Op(d)' \in {"send", "assistant"} => Len(memory'[Chat]) <= Bound + 1
    BY DEF BoundInv, Bound
  <2>1. CASE slice[c] = Chat
    <3>1. \A d \in Calls : UnderWay(d)' /\ slice[d] = Chat => d = c
      BY <1>1, <1>2, <2>1 DEF AloneInv
    <3>2. QED
      BY <1>4, <2>1, <3>1
  <2>2. CASE slice[c] # Chat
    <3>1. memory'[Chat] = memory[Chat]
      BY <1>4, <2>2
    <3>2. \A d \in Calls : UnderWay(d)' /\ slice[d] = Chat => UnderWay(d) /\ Op(d)' = Op(d)
      BY <1>2, <2>2
    <3>3. QED
      BY <1>1, <3>1, <3>2 DEF BoundInv
  <2>3. QED
    BY <2>1, <2>2
<1>12. RowsInv'
  <2> SUFFICES ASSUME NEW d \in Calls, slice[d] = d, FewRows(d),
                      \E i \in DOMAIN program'[d] : program'[d][i] = "send"
               PROVE  /\ \A i \in 1..rows[d].found :
                           i <= Len(memory'[d]) /\ memory'[d][i] = Element("row", d)
                      /\ Op(d)' = "trim" =>
                           Len(memory'[d]) <= rows[d].found + rows[d].blank + ContextLength
    BY DEF RowsInv, RowsIn, FewRows
  <2>1. CASE d = c
    BY <1>4, <2>1
  <2>2. CASE d # c
    <3>0. d # slice[c] /\ d \in {Chat} \union Calls
      BY <1>3, <2>2 DEF Calls, Chat
    <3>1. program'[d] = program[d] /\ Op(d)' = Op(d) /\ memory'[d] = memory[d]
      BY <1>2, <1>4, <2>2, <3>0
    <3>2. QED
      BY <1>1, <3>1 DEF RowsInv, RowsIn
  <2>3. QED
    BY <2>1, <2>2
<1>13. QED
  BY <1>2, <1>6, <1>9, <1>10, <1>11, <1>12 DEF ConvInv

(* The context alone.                                                      *)
LEMMA ContextAlone ==
  /\ FromContext \in Seq(Elements)
  /\ Len(FromContext) = ContextLength
  /\ Paired(FromContext)
<1>1. FromContext = [i \in 1..ContextLength |-> Element("context", Nobody)]
  BY DEF FromContext, Times
<1>2. Element("context", Nobody) \in Elements /\ Element("context", Nobody).role = "context"
  BY DEF Element, Elements
<1>3. ContextLength \in Nat
  BY Numbers
<1> DEFINE e == Element("context", Nobody)
<1> HIDE DEF e
<1>4. FromContext \in Seq(Elements) /\ Len(FromContext) = ContextLength
  BY <1>1, <1>2, <1>3 DEF e
<1>5. \A i \in DOMAIN FromContext : FromContext[i].role = "context"
  BY <1>1, <1>2
<1>6. QED
  BY <1>4, <1>5 DEF Paired

(* What a handler is asked to do next is an operation of its program.      *)
LEMMA Operation ==
  ASSUME ConvInv, NEW c \in Calls, UnderWay(c)
  PROVE  /\ Op(c) \in {"trim", "send", "system", "user", "assistant"}
         /\ Op(c) = "send" => \E i \in DOMAIN program[c] : program[c][i] = "send"
         /\ provider \in {"ollama", "openrouter"} => Op(c) # "system"
         /\ memory[slice[c]] \in Seq(Elements)
         /\ slice[c] \in {Chat, c} /\ slice[c] \in {Chat} \union Calls
         /\ Len(memory[slice[c]]) \in Nat
<1> DEFINE p == program[c]
<1>1. /\ p \in Seq({"handle", "trim", "send", "system", "user", "assistant"})
      /\ p # <<>> /\ p # <<"handle">> /\ Ordered(p)
      /\ provider \in {"ollama", "openrouter"} => LooksFirst(p)
      /\ slice[c] \in {Chat, c}
  BY DEF ConvInv, ConvTypeOK, ProgramsInv, UnderWay
<1> HIDE DEF p
<1>2. 1 \in DOMAIN p /\ Head(p) = p[1] /\ p[1] \in {"handle", "trim", "send", "system", "user", "assistant"}
  BY <1>1
<1>3. p[1] # "handle" /\ (provider \in {"ollama", "openrouter"} => p[1] # "system")
  BY <1>1, <1>2 DEF Ordered, LooksFirst
<1>4. memory[slice[c]] \in Seq(Elements) /\ slice[c] \in {Chat} \union Calls
  BY <1>1 DEF ConvInv, ConvTypeOK
<1>5. Op(c) = p[1]
  BY <1>2 DEF Op, p
<1>6. Len(memory[slice[c]]) \in Nat
  BY <1>4
<1>7. QED
  BY <1>1, <1>2, <1>3, <1>4, <1>5, <1>6 DEF p

(* The next operation, once one is done.                                   *)
LEMMA NextOperation ==
  ASSUME ConvInv, NEW c \in Calls, UnderWay(c),
         NEW r, r \in {Tail(program[c]), <<>>},
         program' = [program EXCEPT ![c] = r],
         UNCHANGED <<provider, slice>>,
         seen' = [seen EXCEPT ![c] = {}]
  PROVE  /\ UnderWay(c)' =>
              /\ Op(c)' = "send" => Op(c) = "user"
              /\ Op(c)' = "assistant" => Op(c) \in {"user", "send"}
              /\ provider \in {"ollama", "openrouter"} =>
                   /\ Op(c)' = "user" => Op(c) = "trim"
                   /\ Op(c)' = "assistant" => Op(c) = "send"
         /\ (\E i \in DOMAIN program'[c] : program'[c][i] = "send") =>
              /\ Op(c)' # "trim"
              /\ \E i \in DOMAIN program[c] : program[c][i] = "send"
<1>1. ConvTypeOK /\ ProgramsInv
  BY DEF ConvInv
<1>2. QED
  BY <1>1, Progress

LEMMA InvTrim ==
  ASSUME ConvInv, NEW c \in Calls, Trim(c)
  PROVE  ConvInv'
<1> DEFINE s == memory[slice[c]]
           x == IF Len(s) > MemoryLimit THEN FromContext ELSE s
           r == Tail(program[c])
<1>1. /\ UnderWay(c) /\ Op(c) = "trim"
      /\ program' = [program EXCEPT ![c] = r]
      /\ UNCHANGED <<provider, slice, rows, overlapped>> /\ seen' = seen
      /\ memory' = IF Len(s) > MemoryLimit THEN [memory EXCEPT ![slice[c]] = FromContext] ELSE memory
  BY DEF Trim, Proceed
<1>2. crashed' \in BOOLEAN
  BY DEF Trim, ConvInv, ConvTypeOK
<1>3. /\ s \in Seq(Elements) /\ Len(s) \in Nat
      /\ slice[c] \in {Chat, c} /\ slice[c] \in {Chat} \union Calls
      /\ memory \in [{Chat} \union Calls -> Seq(Elements)]
  BY <1>1, Operation DEF ConvInv, ConvTypeOK
<1>4. x \in Seq(Elements)
  BY <1>3, ContextAlone
<1>5. memory' = [memory EXCEPT ![slice[c]] = x]
  BY <1>1, <1>3
<1>6. seen' = [seen EXCEPT ![c] = {}]
  <2>1. seen[c] = {} /\ seen \in [Calls -> SUBSET Seq(Elements)]
    BY <1>1 DEF ConvInv, ConvTypeOK, ProgramsInv, Appends
  <2>2. QED
    BY <1>1, <2>1
<1>7. /\ UnderWay(c)' => Op(c)' \notin {"send", "assistant"}
      /\ (\E i \in DOMAIN program'[c] : program'[c][i] = "send") =>
           /\ Op(c)' # "trim"
           /\ \E i \in DOMAIN program[c] : program[c][i] = "send"
  BY <1>1, <1>6, NextOperation
<1>8. Alone(c) => Paired(x)
  <2>1. Alone(c) => Paired(s)
    BY <1>3 DEF ConvInv, AnswersInv, Alone
  <2>2. QED
    BY <2>1, ContextAlone
<1>9. Len(x) \in Nat /\ Len(x) <= Bound /\ Bound \in Nat
  BY <1>3, ContextAlone, Numbers DEF Bound
<1>10. slice[c] = c /\ FewRows(c) /\ (\E i \in DOMAIN program'[c] : program'[c][i] = "send") =>
         /\ \A i \in 1..rows[c].found : i <= Len(x) /\ x[i] = Element("row", c)
         /\ Op(c)' # "trim"
  <2> SUFFICES ASSUME slice[c] = c, FewRows(c), \E i \in DOMAIN program'[c] : program'[c][i] = "send"
               PROVE  /\ \A i \in 1..rows[c].found : i <= Len(x) /\ x[i] = Element("row", c)
                      /\ Op(c)' # "trim"
    OBVIOUS
  <2>1. RowsIn(c) /\ Len(s) <= rows[c].found + rows[c].blank + ContextLength
    BY <1>1, <1>7 DEF ConvInv, RowsInv
  <2>2. rows[c].found \in Nat /\ rows[c].blank \in Nat
    BY DEF ConvInv, ConvTypeOK
  <2>3. Len(s) <= MemoryLimit
    BY <1>3, <2>1, <2>2, Numbers DEF FewRows
  <2>4. x = s
    BY <1>3, <2>3, Numbers
  <2>5. QED
    BY <1>7, <2>1, <2>4 DEF RowsIn
<1> HIDE DEF x, s, r
<1>11. r \in {Tail(program[c]), <<>>}
  BY DEF r
<1>12. Len(x) <= Bound + 2 /\ Len(x) <= Bound + 1
  BY <1>9
<1>13. QED
  BY <1>1, <1>2, <1>4, <1>5, <1>6, <1>7, <1>8, <1>9, <1>10, <1>11, <1>12, StepOfOne

LEMMA InvReadMemory ==
  ASSUME ConvInv, NEW c \in Calls, ReadMemory(c)
  PROVE  ConvInv'
<1>1. /\ Appends(c) /\ UnderWay(c)
      /\ seen' = [seen EXCEPT ![c] = {memory[slice[c]]}]
      /\ UNCHANGED <<provider, memory, slice, program, rows, overlapped, crashed>>
  BY DEF ReadMemory, Appends
<1>2. memory[slice[c]] \in Seq(Elements)
  BY <1>1, Operation
<1>3. /\ seen' \in [Calls -> SUBSET Seq(Elements)] /\ seen'[c] = {memory[slice[c]]}
      /\ \A d \in Calls \ {c} : seen'[d] = seen[d]
  BY <1>1, <1>2 DEF ConvInv, ConvTypeOK
<1>4. \A d \in Calls : (UnderWay(d)' <=> UnderWay(d)) /\ Op(d)' = Op(d) /\ (Appends(d)' <=> Appends(d)) /\ (Alone(d)' <=> Alone(d))
  BY <1>1 DEF UnderWay, Op, Appends, Alone
<1>5. ConvTypeOK'
  BY <1>1, <1>3 DEF ConvInv, ConvTypeOK
<1>6. ProgramsInv'
  <2> SUFFICES ASSUME NEW d \in Calls
               PROVE  /\ Ordered(program[d])
                      /\ provider \in {"ollama", "openrouter"} => LooksFirst(program[d])
                      /\ slice[d] \in {Chat, d}
                      /\ program[d] = <<"handle">> => slice[d] = Chat
                      /\ seen'[d] # {} => Appends(d)'
    BY <1>1 DEF ProgramsInv
  <2>1. seen'[d] # {} => Appends(d)'
    BY <1>1, <1>3, <1>4 DEF ConvInv, ProgramsInv
  <2>2. QED
    BY <2>1 DEF ConvInv, ProgramsInv
<1>7. AloneInv'
  <2>1. \A d \in Calls : Alone(d) => seen'[d] \subseteq {memory[slice[d]]}
    BY <1>3 DEF ConvInv, AloneInv
  <2>2. QED
    BY <1>1, <1>4, <2>1 DEF ConvInv, AloneInv
<1>8. AnswersInv'
  BY <1>1, <1>4 DEF ConvInv, AnswersInv, QuestionIsLast
<1>9. BoundInv' /\ RowsInv'
  BY <1>1, <1>4 DEF ConvInv, BoundInv, Bound, RowsInv, RowsIn, FewRows
<1>10. QED
  BY <1>5, <1>6, <1>7, <1>8, <1>9 DEF ConvInv

LEMMA InvWriteMemory ==
  ASSUME ConvInv, NEW c \in Calls, WriteMemory(c)
  PROVE  ConvInv'
<1>1. PICK s \in seen[c] : memory' = [memory EXCEPT ![slice[c]] = Append(s, Element(Op(c), c))]
  BY DEF WriteMemory
<1> DEFINE e == Element(Op(c), c)
           x == Append(s, e)
           r == Tail(program[c])
<1>2. /\ UnderWay(c) /\ Op(c) \in {"system", "user", "assistant"}
      /\ program' = [program EXCEPT ![c] = r]
      /\ UNCHANGED <<provider, slice, rows, overlapped>>
      /\ seen' = [seen EXCEPT ![c] = {}]
  BY DEF WriteMemory, Appends, Proceed
<1>3. crashed' \in BOOLEAN
  BY DEF WriteMemory, ConvInv, ConvTypeOK
<1>4. s \in Seq(Elements) /\ Len(s) \in Nat
  BY DEF ConvInv, ConvTypeOK
<1>5. e \in Elements /\ e.role = Op(c) /\ e.by = c
  BY <1>2 DEF Element, Elements
<1> HIDE DEF e
<1>6. /\ x \in Seq(Elements) /\ Len(x) = Len(s) + 1 /\ x[Len(s) + 1] = e
      /\ \A i \in 1..Len(s) : x[i] = s[i]
      /\ DOMAIN x = 1..(Len(s) + 1) /\ DOMAIN s = 1..Len(s)
  BY <1>4, <1>5
<1> HIDE DEF x, r
<1>7. Alone(c) => s = memory[slice[c]]
  BY DEF ConvInv, AloneInv
<1>8. /\ UnderWay(c)' =>
           /\ Op(c)' = "send" => Op(c) = "user"
           /\ Op(c)' = "assistant" => Op(c) = "user"
           /\ provider \in {"ollama", "openrouter"} => Op(c)' \notin {"user", "assistant"}
      /\ (\E i \in DOMAIN program'[c] : program'[c][i] = "send") =>
           /\ Op(c)' # "trim"
           /\ \E i \in DOMAIN program[c] : program[c][i] = "send"
  <2>1. r \in {Tail(program[c]), <<>>}
    BY DEF r
  <2>2. QED
    BY <1>2, <2>1, NextOperation
<1>9. Alone(c) => Paired(x)
  <2> SUFFICES ASSUME Alone(c), NEW i \in DOMAIN x, x[i].role = "assistant"
               PROVE  i > 1 /\ x[i - 1] = Element("user", x[i].by)
    BY DEF Paired
  <2>1. s = memory[slice[c]] /\ Paired(s)
    BY <1>2, <1>7, Operation DEF ConvInv, AnswersInv, Alone, ConvTypeOK
  <2>2. CASE i \in 1..Len(s)
    <3>1. x[i] = s[i] /\ i \in DOMAIN s
      BY <1>6, <2>2
    <3>2. i > 1 /\ s[i - 1] = Element("user", s[i].by)
      BY <2>1, <3>1 DEF Paired
    <3>3. x[i - 1] = s[i - 1]
      BY <1>4, <1>6, <2>2, <3>2
    <3>4. QED
      BY <3>1, <3>2, <3>3
  <2>3. CASE i = Len(s) + 1
    <3>1. Op(c) = "assistant" /\ x[i].by = c
      BY <1>5, <1>6, <2>3
    <3>2. s # <<>> /\ s[Len(s)] = Element("user", c)
      BY <1>2, <2>1, <3>1 DEF ConvInv, AnswersInv, QuestionIsLast, Last
    <3>3. Len(s) > 0 /\ i - 1 = Len(s)
      BY <1>4, <2>3, <3>2
    <3>4. x[i - 1] = s[Len(s)]
      BY <1>4, <1>6, <3>3
    <3>5. QED
      BY <1>4, <2>3, <3>1, <3>2, <3>3, <3>4
  <2>4. QED
    BY <1>4, <1>6, <2>2, <2>3
<1>10. Alone(c) /\ UnderWay(c)' /\ Op(c)' \in {"send", "assistant"} =>
         x # <<>> /\ Last(x) = Element("user", c)
  <2>1. x # <<>> /\ Last(x) = e
    BY <1>4, <1>6 DEF Last
  <2>2. QED
    BY <1>8, <2>1 DEF e
<1>11. provider \in {"ollama", "openrouter"} /\ ~overlapped /\ slice[c] = Chat =>
         /\ Len(x) <= Bound + 2
         /\ UnderWay(c)' =>
              /\ Op(c)' = "user" => Len(x) <= Bound
              /\ Op(c)' \in {"send", "assistant"} => Len(x) <= Bound + 1
  <2> SUFFICES ASSUME provider \in {"ollama", "openrouter"}, ~overlapped, slice[c] = Chat
               PROVE  /\ Len(x) <= Bound + 2
                      /\ UnderWay(c)' => /\ Op(c)' # "user"
                                         /\ Op(c)' \in {"send", "assistant"} => Len(x) <= Bound + 1
    OBVIOUS
  <2>1. s = memory[Chat]
    BY <1>7 DEF Alone
  <2>2. Op(c) \in {"user", "assistant"}
    BY <1>2, Operation
  <2>3. Bound \in Nat
    BY Numbers DEF Bound
  <2>4. CASE Op(c) = "user"
    <3>1. Len(s) <= Bound
      BY <1>2, <2>1, <2>4 DEF ConvInv, BoundInv
    <3>2. QED
      BY <1>4, <1>6, <1>8, <2>3, <3>1
  <2>5. CASE Op(c) = "assistant"
    <3>1. Len(s) <= Bound + 1
      BY <1>2, <2>1, <2>5 DEF ConvInv, BoundInv
    <3>2. QED
      BY <1>4, <1>6, <1>8, <2>3, <2>5, <3>1
  <2>6. QED
    BY <2>2, <2>4, <2>5
<1>12. slice[c] = c /\ FewRows(c) /\ (\E i \in DOMAIN program'[c] : program'[c][i] = "send") =>
         /\ \A i \in 1..rows[c].found : i <= Len(x) /\ x[i] = Element("row", c)
         /\ Op(c)' = "trim" => Len(x) <= rows[c].found + rows[c].blank + ContextLength
  <2> SUFFICES ASSUME slice[c] = c, FewRows(c), \E i \in DOMAIN program'[c] : program'[c][i] = "send"
               PROVE  \A i \in 1..rows[c].found : i <= Len(x) /\ x[i] = Element("row", c)
    BY <1>8
  <2>1. s = memory[c]
    BY <1>7 DEF Alone, Calls, Chat
  <2>2. \A i \in 1..rows[c].found : i <= Len(s) /\ s[i] = Element("row", c)
    BY <1>8, <2>1 DEF ConvInv, RowsInv, RowsIn
  <2>3. rows[c].found \in Nat
    BY DEF ConvInv, ConvTypeOK
  <2>4. QED
    BY <1>4, <1>6, <2>2, <2>3
<1>13. r \in {Tail(program[c]), <<>>} /\ memory' = [memory EXCEPT ![slice[c]] = x]
  BY <1>1 DEF r, x, e
<1>14. QED
  BY <1>2, <1>3, <1>6, <1>9, <1>10, <1>11, <1>12, <1>13, StepOfOne

(* A handler that begins, or ends before it has, keeps the invariant.      *)
LEMMA StartOfOne ==
  ASSUME ConvInv, NEW c \in Calls, program[c] = <<"handle">>,
         NEW r, r \in {<<>>, ProgramOf(provider)},
         program' = [program EXCEPT ![c] = r],
         NEW m, m \in {Chat, c}, slice' = [slice EXCEPT ![c] = m],
         NEW x \in Seq(Elements), memory' = [memory EXCEPT ![c] = x], Paired(x),
         NEW w \in [found : 0..MaxRows, blank : Nat], rows' = [rows EXCEPT ![c] = w],
         m = c => /\ \A i \in 1..w.found : i <= Len(x) /\ x[i] = Element("row", c)
                  /\ Len(x) <= w.found + w.blank + ContextLength,
         UNCHANGED <<provider, seen>>, overlapped' \in BOOLEAN, crashed' \in BOOLEAN,
         overlapped => overlapped',
         r # <<>> /\ m = Chat /\ ~overlapped' => \A d \in Calls : ~(UnderWay(d) /\ slice[d] = Chat)
  PROVE  ConvInv'
<1> DEFINE W == {"handle", "trim", "send", "system", "user", "assistant"}
<1>1. ConvTypeOK /\ ProgramsInv /\ AloneInv /\ AnswersInv /\ BoundInv /\ RowsInv
  BY DEF ConvInv
<1>2. provider \in {"ollama", "openrouter", "gemini", "chatgpt"}
  BY <1>1, ProvidersAssumption DEF ConvTypeOK
<1>3. /\ r \in Seq(W) /\ r # <<"handle">> /\ Ordered(r)
      /\ provider \in {"ollama", "openrouter"} => LooksFirst(r)
      /\ r # <<>> => /\ Head(r) \in {"trim", "user", "system"}
                     /\ provider \in {"ollama", "openrouter"} => Head(r) = "trim"
  <2>1. CASE r = <<>>
    <3>1. <<>> \in Seq(W) /\ <<>> # <<"handle">> /\ Ordered(<<>>) /\ LooksFirst(<<>>)
      BY DEF Ordered, LooksFirst
    <3>2. QED
      BY <2>1, <3>1
  <2>2. CASE r = ProgramOf(provider)
    BY <1>2, <2>2, ProgramsOrdered
  <2>3. QED
    BY <2>1, <2>2
<1>4. /\ program' \in [Calls -> Seq(W)] /\ program'[c] = r
      /\ \A d \in Calls \ {c} : program'[d] = program[d]
  BY <1>1, <1>3 DEF ConvTypeOK
<1>5. /\ slice' \in [Calls -> {Chat} \union Calls] /\ slice'[c] = m
      /\ \A d \in Calls \ {c} : slice'[d] = slice[d]
      /\ \A d \in Calls : slice[d] \in {Chat, d} /\ d # Chat
  BY <1>1 DEF ConvTypeOK, ProgramsInv, Calls, Chat
<1>6. /\ memory' \in [{Chat} \union Calls -> Seq(Elements)] /\ memory'[c] = x
      /\ \A k \in {Chat} \union Calls : k # c => memory'[k] = memory[k]
      /\ DOMAIN memory = {Chat} \union Calls /\ DOMAIN memory' = {Chat} \union Calls
  BY <1>1 DEF ConvTypeOK
<1>7. /\ rows' \in [Calls -> [found : 0..MaxRows, blank : Nat]] /\ rows'[c] = w
      /\ \A d \in Calls \ {c} : rows'[d] = rows[d]
  BY <1>1 DEF ConvTypeOK
<1>8. ConvTypeOK'
  BY <1>1, <1>4, <1>5, <1>6, <1>7 DEF ConvTypeOK
<1>9. /\ ~UnderWay(c) /\ seen[c] = {}
      /\ UnderWay(c)' => r # <<>>
      /\ Op(c)' = Head(r)
  BY <1>1, <1>4 DEF UnderWay, ProgramsInv, Appends, Op
<1>10. \A d \in Calls \ {c} :
         /\ Op(d)' = Op(d) /\ (UnderWay(d)' <=> UnderWay(d)) /\ (Appends(d)' <=> Appends(d))
         /\ Alone(d)' => Alone(d)
  BY <1>4, <1>5 DEF Op, UnderWay, Appends, Alone
<1>11. ProgramsInv'
  <2> SUFFICES ASSUME NEW d \in Calls
               PROVE  /\ Ordered(program'[d])
                      /\ provider \in {"ollama", "openrouter"} => LooksFirst(program'[d])
                      /\ slice'[d] \in {Chat, d}
                      /\ program'[d] = <<"handle">> => slice'[d] = Chat
                      /\ seen[d] # {} => Appends(d)'
    BY DEF ProgramsInv
  <2>1. CASE d = c
    BY <1>3, <1>4, <1>5, <1>9, <2>1
  <2>2. CASE d # c
    BY <1>1, <1>4, <1>5, <1>10, <2>2 DEF ProgramsInv
  <2>3. QED
    BY <2>1, <2>2
<1>12. AloneInv'
  <2>1. ASSUME ~overlapped', NEW d \in Calls, NEW e \in Calls,
               UnderWay(d)', UnderWay(e)', slice'[d] = Chat, slice'[e] = Chat
        PROVE  d = e
    <3>1. CASE d = c /\ e # c
      BY <1>5, <1>9, <1>10, <2>1, <3>1
    <3>2. CASE e = c /\ d # c
      BY <1>5, <1>9, <1>10, <2>1, <3>2
    <3>3. CASE d # c /\ e # c
      BY <1>1, <1>5, <1>10, <2>1, <3>3 DEF AloneInv
    <3>4. QED
      BY <3>1, <3>2, <3>3
  <2>2. ASSUME NEW d \in Calls, Alone(d)' PROVE seen[d] \subseteq {memory'[slice'[d]]}
    <3>1. CASE d = c
      BY <1>9, <3>1
    <3>2. CASE d # c
      <4>1. slice[d] # c /\ slice[d] \in {Chat} \union Calls
        BY <1>5, <3>2
      <4>2. memory'[slice'[d]] = memory[slice[d]]
        BY <1>5, <1>6, <3>2, <4>1
      <4>3. QED
        BY <1>1, <1>10, <2>2, <3>2, <4>2 DEF AloneInv
    <3>3. QED
      BY <3>1, <3>2
  <2>3. QED
    BY <2>1, <2>2 DEF AloneInv
<1>13. AnswersInv'
  <2>1. ASSUME NEW k \in {Chat} \union Calls, k # Chat \/ ~overlapped' PROVE Paired(memory'[k])
    <3>1. CASE k = c
      BY <1>6, <3>1
    <3>2. CASE k # c
      BY <1>1, <1>6, <2>1, <3>2 DEF AnswersInv
    <3>3. QED
      BY <3>1, <3>2
  <2>2. ASSUME NEW d \in Calls, Alone(d)', UnderWay(d)', Op(d)' \in {"send", "assistant"}
        PROVE  QuestionIsLast(d)'
    <3>1. d # c
      BY <1>3, <1>9, <2>2
    <3>2. slice[d] # c /\ slice[d] \in {Chat} \union Calls /\ slice'[d] = slice[d]
      BY <1>5, <3>1
    <3>3. memory'[slice'[d]] = memory[slice[d]]
      BY <1>6, <3>2
    <3>4. QuestionIsLast(d)
      BY <1>1, <1>10, <2>2, <3>1 DEF AnswersInv
    <3>5. QED
      BY <3>3, <3>4 DEF QuestionIsLast
  <2>3. QED
    BY <1>6, <2>1, <2>2 DEF AnswersInv
<1>14. BoundInv'
  <2> SUFFICES ASSUME provider \in {"ollama", "openrouter"}, ~overlapped'
               PROVE  /\ Len(memory'[Chat]) <= Bound + 2
                      /\ \A d \in Calls : UnderWay(d)' /\ slice'[d] = Chat =>
                           /\ Op(d)' = "user" => Len(memory'[Chat]) <= Bound
                           /\ Op(d)' \in {"send", "assistant"} => Len(memory'[Chat]) <= Bound + 1
    BY DEF BoundInv, Bound
  <2>1. memory'[Chat] = memory[Chat] /\ ~overlapped
    BY <1>5, <1>6
  <2>2. \A d \in Calls \ {c} : UnderWay(d)' /\ slice'[d] = Chat =>
          UnderWay(d) /\ slice[d] = Chat /\ Op(d)' = Op(d)
    BY <1>5, <1>10
  <2>3. UnderWay(c)' => Op(c)' = "trim"
    BY <1>3, <1>9
  <2>4. QED
    BY <1>1, <2>1, <2>2, <2>3 DEF BoundInv
<1>15. RowsInv'
  <2> SUFFICES ASSUME NEW d \in Calls, slice'[d] = d, FewRows(d)',
                      \E i \in DOMAIN program'[d] : program'[d][i] = "send"
               PROVE  /\ \A i \in 1..rows'[d].found :
                           i <= Len(memory'[d]) /\ memory'[d][i] = Element("row", d)
                      /\ Op(d)' = "trim" =>
                           Len(memory'[d]) <= rows'[d].found + rows'[d].blank + ContextLength
    BY DEF RowsInv, RowsIn, FewRows
  <2>1. CASE d = c
    BY <1>5, <1>6, <1>7, <2>1
  <2>2. CASE d # c
    <3>1. /\ program'[d] = program[d] /\ Op(d)' = Op(d) /\ memory'[d] = memory[d]
          /\ slice[d] = d /\ rows'[d] = rows[d] /\ FewRows(d)
      BY <1>4, <1>5, <1>6, <1>7, <1>10, <2>2 DEF FewRows
    <3>2. QED
      BY <1>1, <3>1 DEF RowsInv, RowsIn
  <2>3. QED
    BY <2>1, <2>2
<1>16. QED
  BY <1>8, <1>11, <1>12, <1>13, <1>14, <1>15 DEF ConvInv

(* The memory of a custom command: the rows, blank ones, the context.      *)
LEMMA RowsFirst ==
  ASSUME NEW c \in Calls, NEW k \in Nat, NEW b \in Nat
  PROVE  /\ CustomMemory(c, k, b) \in Seq(Elements)
         /\ Len(CustomMemory(c, k, b)) = k + b + ContextLength
         /\ \A i \in 1..k : i <= Len(CustomMemory(c, k, b)) /\ CustomMemory(c, k, b)[i] = Element("row", c)
         /\ Paired(CustomMemory(c, k, b))
<1> DEFINE x == CustomMemory(c, k, b)
           e == Element("row", c)
           g == Element("blank", c)
           R == Times(k, e)
           B == Times(b, g)
<1>1. e \in Elements /\ e.role = "row" /\ g \in Elements /\ g.role = "blank"
  BY DEF Element, Elements
<1> HIDE DEF e, g
<1>2. R \in Seq(Elements) /\ Len(R) = k /\ \A i \in 1..k : R[i] = e
  BY <1>1 DEF Times
<1>3. B \in Seq(Elements) /\ Len(B) = b /\ \A i \in 1..b : B[i] = g
  BY <1>1 DEF Times
<1>4. x = (R \o B) \o FromContext
  BY DEF CustomMemory, e, g
<1> HIDE DEF R, B, x
<1>5. /\ R \o B \in Seq(Elements) /\ Len(R \o B) = k + b
      /\ \A i \in 1..(k + b) : (R \o B)[i] = IF i <= k THEN e ELSE g
  <2>1. \A i \in 1..(k + b) : (R \o B)[i] = IF i <= k THEN R[i] ELSE B[i - k]
    BY <1>2, <1>3, ConcatProperties
  <2>2. \A i \in 1..(k + b) : (i <= k => i \in 1..k) /\ (~(i <= k) => i - k \in 1..b)
    OBVIOUS
  <2>3. R \o B \in Seq(Elements) /\ Len(R \o B) = k + b
    BY <1>2, <1>3, ConcatProperties
  <2>4. QED
    BY <1>2, <1>3, <2>1, <2>2, <2>3
<1> DEFINE Q == R \o B
           n == k + b
           F == FromContext
<1>6. Q \in Seq(Elements) /\ Len(Q) = n /\ n \in Nat /\ \A i \in 1..n : Q[i] = IF i <= k THEN e ELSE g
  BY <1>5
<1>7. F \in Seq(Elements) /\ Len(F) = ContextLength /\ x = Q \o F
  BY <1>4, ContextAlone
<1> HIDE DEF Q, F
<1>8. /\ x \in Seq(Elements) /\ Len(x) = n + ContextLength
      /\ \A i \in 1..(n + ContextLength) : x[i] = IF i <= n THEN Q[i] ELSE F[i - n]
  <2>1. /\ Len(Q \o F) = Len(Q) + Len(F)
        /\ \A i \in 1..(Len(Q) + Len(F)) : (Q \o F)[i] = IF i <= Len(Q) THEN Q[i] ELSE F[i - Len(Q)]
    BY <1>6, <1>7, ConcatProperties
  <2>2. Q \o F \in Seq(Elements)
    BY <1>6, <1>7, ConcatProperties
  <2>3. QED
    BY <1>6, <1>7, <2>1, <2>2
<1>9. \A i \in 1..k : i <= Len(x) /\ x[i] = e
  BY <1>6, <1>8, Numbers
<1>10. \A i \in DOMAIN x : x[i].role # "assistant"
  <2> SUFFICES ASSUME NEW i \in 1..(n + ContextLength) PROVE x[i].role # "assistant"
    BY <1>8, Numbers
  <2>1. CASE i <= n
    <3>1. x[i] = Q[i] /\ i \in 1..n
      BY <1>8, <2>1
    <3>2. x[i] = e \/ x[i] = g
      BY <1>6, <3>1
    <3>3. QED
      BY <1>1, <3>2
  <2>2. CASE ~(i <= n)
    <3>1. i - n \in 1..ContextLength /\ x[i] = F[i - n]
      BY <1>6, <1>8, <2>2, Numbers
    <3>2. x[i] = Element("context", Nobody)
      BY <3>1 DEF FromContext, Times, F
    <3>3. QED
      BY <3>2 DEF Element
  <2>3. QED
    BY <2>1, <2>2
<1>11. Paired(x)
  BY <1>10 DEF Paired
<1>12. QED
  BY <1>8, <1>9, <1>11 DEF e, x

LEMMA InvHandle ==
  ASSUME ConvInv, NEW c \in Calls, Handle(c)
  PROVE  ConvInv'
<1> DEFINE x == memory[c]
           w == rows[c]
<1>1. /\ program[c] = <<"handle">>
      /\ UNCHANGED <<provider, memory, slice, seen, rows>>
  BY DEF Handle, Arrives
<1>2. slice[c] = Chat /\ c # Chat
  BY <1>1 DEF ConvInv, ProgramsInv, Calls, Chat
<1>3. /\ memory \in [{Chat} \union Calls -> Seq(Elements)]
      /\ slice \in [Calls -> {Chat} \union Calls]
      /\ rows \in [Calls -> [found : 0..MaxRows, blank : Nat]]
      /\ program \in [Calls -> Seq({"handle", "trim", "send", "system", "user", "assistant"})]
      /\ overlapped \in BOOLEAN /\ crashed \in BOOLEAN
  BY DEF ConvInv, ConvTypeOK
<1>4. /\ x \in Seq(Elements) /\ memory' = [memory EXCEPT ![c] = x]
      /\ w \in [found : 0..MaxRows, blank : Nat] /\ rows' = [rows EXCEPT ![c] = w]
      /\ slice' = [slice EXCEPT ![c] = Chat]
  BY <1>1, <1>2, <1>3
<1>5. Paired(x)
  BY <1>2, <1>3 DEF ConvInv, AnswersInv
<1> HIDE DEF x, w
<1>6. CASE Ends(c) /\ UNCHANGED <<overlapped, crashed>>
  <2>1. program' = [program EXCEPT ![c] = <<>>] /\ overlapped' = overlapped /\ crashed' = crashed
    BY <1>6 DEF Ends
  <2>2. QED
    BY <1>1, <1>2, <1>3, <1>4, <1>5, <2>1, StartOfOne
<1>7. CASE crashed' = TRUE /\ UNCHANGED <<program, overlapped>>
  BY <1>1, <1>7 DEF ConvInv, ConvTypeOK, ProgramsInv, AloneInv, AnswersInv, BoundInv, RowsInv,
     UnderWay, Appends, Op, Alone, QuestionIsLast, Bound, FewRows, RowsIn
<1>8. CASE /\ program' = [program EXCEPT ![c] = ProgramOf(provider)]
           /\ overlapped' = (overlapped \/ \E d \in Calls : UnderWay(d) /\ slice[d] = Chat)
           /\ UNCHANGED crashed
  <2>1. /\ overlapped' \in BOOLEAN /\ overlapped => overlapped'
        /\ ~overlapped' => \A d \in Calls : ~(UnderWay(d) /\ slice[d] = Chat)
    BY <1>3, <1>8
  <2>2. QED
    BY <1>1, <1>2, <1>3, <1>4, <1>5, <1>8, <2>1, StartOfOne
<1>9. QED
  BY <1>6, <1>7, <1>8 DEF Handle

LEMMA InvHandleCustom ==
  ASSUME ConvInv, NEW c \in Calls, HandleCustom(c)
  PROVE  ConvInv'
<1>1. /\ program[c] = <<"handle">>
      /\ UNCHANGED <<provider, seen, overlapped>>
  BY DEF HandleCustom, Arrives
<1>2. slice[c] = Chat /\ c # Chat
  BY <1>1 DEF ConvInv, ProgramsInv, Calls, Chat
<1>3. /\ memory \in [{Chat} \union Calls -> Seq(Elements)]
      /\ slice \in [Calls -> {Chat} \union Calls]
      /\ rows \in [Calls -> [found : 0..MaxRows, blank : Nat]]
      /\ overlapped \in BOOLEAN /\ crashed \in BOOLEAN
  BY DEF ConvInv, ConvTypeOK
<1>4. CASE Ends(c) /\ UNCHANGED <<memory, slice, rows, crashed>>
  <2> DEFINE x == memory[c]
             w == rows[c]
  <2>1. /\ x \in Seq(Elements) /\ memory' = [memory EXCEPT ![c] = x]
        /\ w \in [found : 0..MaxRows, blank : Nat] /\ rows' = [rows EXCEPT ![c] = w]
        /\ slice' = [slice EXCEPT ![c] = Chat]
    BY <1>2, <1>3, <1>4
  <2>2. Paired(x)
    BY <1>2, <1>3 DEF ConvInv, AnswersInv
  <2> HIDE DEF x, w
  <2>3. program' = [program EXCEPT ![c] = <<>>] /\ crashed' = crashed
    BY <1>4 DEF Ends
  <2>4. QED
    BY <1>1, <1>2, <1>3, <2>1, <2>2, <2>3, StartOfOne
<1> DEFINE reads(n, limit) == Kept(n, limit)
           blanks(n, limit) == (IF limit = 0 THEN n ELSE limit) - reads(n, limit)
<1>5. ASSUME NEW n \in 0..MaxRows, NEW limit \in Limits,
             slice' = [slice EXCEPT ![c] = c],
             rows' = [rows EXCEPT ![c] = [found |-> reads(n, limit), blank |-> blanks(n, limit)]],
             memory' = [memory EXCEPT ![c] = CustomMemory(c, reads(n, limit), blanks(n, limit))],
             program' = [program EXCEPT ![c] = ProgramOf(provider)],
             UNCHANGED crashed
      PROVE  ConvInv'
  <2> DEFINE w == [found |-> reads(n, limit), blank |-> blanks(n, limit)]
             x == CustomMemory(c, reads(n, limit), blanks(n, limit))
  <2>1. n \in Nat /\ limit \in Nat /\ n <= MaxRows
    BY Numbers
  <2>2. reads(n, limit) \in Nat /\ reads(n, limit) <= MaxRows /\ blanks(n, limit) \in Nat
    BY <1>5, <2>1, Numbers DEF Kept
  <2>3. /\ x \in Seq(Elements) /\ Paired(x) /\ Len(x) = reads(n, limit) + blanks(n, limit) + ContextLength
        /\ \A i \in 1..reads(n, limit) : i <= Len(x) /\ x[i] = Element("row", c)
    BY <2>2, RowsFirst
  <2>4. w \in [found : 0..MaxRows, blank : Nat] /\ w.found = reads(n, limit) /\ w.blank = blanks(n, limit)
    BY <2>2, Numbers
  <2>5. rows' = [rows EXCEPT ![c] = w] /\ memory' = [memory EXCEPT ![c] = x]
    BY <1>5
  <2> HIDE DEF w, x
  <2>6. /\ \A i \in 1..w.found : i <= Len(x) /\ x[i] = Element("row", c)
        /\ Len(x) <= w.found + w.blank + ContextLength
    BY <2>2, <2>3, <2>4, Numbers
  <2>7. overlapped' = overlapped /\ overlapped' \in BOOLEAN /\ crashed' \in BOOLEAN
    BY <1>1, <1>3, <1>5
  <2> DEFINE m == c
             r == ProgramOf(provider)
  <2>8. /\ m \in {Chat, c} /\ m # Chat /\ slice' = [slice EXCEPT ![c] = m]
        /\ r \in {<<>>, ProgramOf(provider)} /\ program' = [program EXCEPT ![c] = r]
        /\ provider' = provider /\ seen' = seen
        /\ x \in Seq(Elements) /\ Paired(x)
    BY <1>1, <1>2, <1>5, <2>3
  <2> HIDE DEF m, r
  <2>9. overlapped => overlapped'
    BY <2>7
  <2>10. r # <<>> /\ m = Chat /\ ~overlapped' => \A d \in Calls : ~(UnderWay(d) /\ slice[d] = Chat)
    BY <2>8
  <2>11. UNCHANGED <<provider, seen>>
    BY <2>8
  <2>12. m = c => /\ \A i \in 1..w.found : i <= Len(x) /\ x[i] = Element("row", c)
                  /\ Len(x) <= w.found + w.blank + ContextLength
    BY <2>6
  <2>13. program[c] = <<"handle">>
    BY <1>1
  <2>14. QED
    BY <2>4, <2>5, <2>7, <2>8, <2>9, <2>10, <2>11, <2>12, <2>13, StartOfOne
<1>6. CASE crashed' = TRUE /\ UNCHANGED <<memory, slice, program, rows>>
  BY <1>1, <1>6 DEF ConvInv, ConvTypeOK, ProgramsInv, AloneInv, AnswersInv, BoundInv, RowsInv,
     UnderWay, Appends, Op, Alone, QuestionIsLast, Bound, FewRows, RowsIn
<1>7. CASE \E n \in 0..MaxRows, limit \in Limits :
             LET cut == IF limit = 0 THEN n ELSE limit
                 kept == Kept(n, limit)
                 blank == cut - kept IN
               IF cut > Capacity(n)
                 THEN crashed' = TRUE /\ UNCHANGED <<memory, slice, program, rows>>
                 ELSE /\ slice' = [slice EXCEPT ![c] = c]
                      /\ rows' = [rows EXCEPT ![c] = [found |-> kept, blank |-> blank]]
                      /\ memory' = [memory EXCEPT ![c] = CustomMemory(c, kept, blank)]
                      /\ program' = [program EXCEPT ![c] = ProgramOf(provider)]
                      /\ UNCHANGED crashed
  <2>1. \E n \in 0..MaxRows, limit \in Limits :
          \/ crashed' = TRUE /\ UNCHANGED <<memory, slice, program, rows>>
          \/ /\ slice' = [slice EXCEPT ![c] = c]
             /\ rows' = [rows EXCEPT ![c] = [found |-> reads(n, limit), blank |-> blanks(n, limit)]]
             /\ memory' = [memory EXCEPT ![c] = CustomMemory(c, reads(n, limit), blanks(n, limit))]
             /\ program' = [program EXCEPT ![c] = ProgramOf(provider)]
             /\ UNCHANGED crashed
    BY <1>7
  <2>2. QED
    BY <1>5, <1>6, <2>1
<1>8. QED
  BY <1>4, <1>7 DEF HandleCustom

LEMMA InvSend ==
  ASSUME ConvInv, NEW c \in Calls, Send(c)
  PROVE  ConvInv'
<1>1. /\ UnderWay(c) /\ Op(c) = "send"
      /\ UNCHANGED <<provider, memory, slice, seen, rows, overlapped>>
  BY DEF Send, AtSend
<1>2. ASSUME NEW r, r \in {Tail(program[c]), <<>>}, program' = [program EXCEPT ![c] = r], UNCHANGED crashed
      PROVE  ConvInv'
  <2> DEFINE x == memory[slice[c]]
  <2>1. /\ x \in Seq(Elements) /\ Len(x) \in Nat
        /\ slice[c] \in {Chat, c} /\ slice[c] \in {Chat} \union Calls
        /\ \E i \in DOMAIN program[c] : program[c][i] = "send"
    BY <1>1, Operation
  <2>2. memory' = [memory EXCEPT ![slice[c]] = x]
    BY <1>1, <2>1 DEF ConvInv, ConvTypeOK
  <2>3. seen' = [seen EXCEPT ![c] = {}]
    <3>1. seen[c] = {} /\ seen \in [Calls -> SUBSET Seq(Elements)]
      BY <1>1 DEF ConvInv, ConvTypeOK, ProgramsInv, Appends
    <3>2. QED
      BY <1>1, <3>1
  <2>4. crashed' \in BOOLEAN
    BY <1>2 DEF ConvInv, ConvTypeOK
  <2>5. /\ UnderWay(c)' =>
             /\ Op(c)' # "send"
             /\ provider \in {"ollama", "openrouter"} => Op(c)' # "user"
        /\ (\E i \in DOMAIN program'[c] : program'[c][i] = "send") => Op(c)' # "trim"
    BY <1>1, <1>2, <2>3, NextOperation
  <2>6. Alone(c) => Paired(x) /\ x # <<>> /\ Last(x) = Element("user", c)
    BY <1>1, <2>1 DEF ConvInv, ConvTypeOK, AnswersInv, Alone, QuestionIsLast
  <2>7. provider \in {"ollama", "openrouter"} /\ ~overlapped /\ slice[c] = Chat =>
          Len(x) <= Bound + 2 /\ Len(x) <= Bound + 1
    <3>1. provider \in {"ollama", "openrouter"} /\ ~overlapped /\ slice[c] = Chat => Len(x) <= Bound + 1
      BY <1>1 DEF ConvInv, BoundInv
    <3>2. Bound \in Nat
      BY Numbers DEF Bound
    <3>3. QED
      BY <2>1, <3>1, <3>2
  <2>8. slice[c] = c /\ FewRows(c) =>
          \A i \in 1..rows[c].found : i <= Len(x) /\ x[i] = Element("row", c)
    BY <2>1 DEF ConvInv, RowsInv, RowsIn
  <2> HIDE DEF x
  <2>9. QED
    BY <1>1, <1>2, <2>1, <2>2, <2>3, <2>4, <2>5, <2>6, <2>7, <2>8, StepOfOne
<1>3. CASE crashed' = TRUE /\ UNCHANGED program
  BY <1>1, <1>3 DEF ConvInv, ConvTypeOK, ProgramsInv, AloneInv, AnswersInv, BoundInv, RowsInv,
     UnderWay, Appends, Op, Alone, QuestionIsLast, Bound, FewRows, RowsIn
<1>4. QED
  BY <1>2, <1>3 DEF Send, Proceed, Ends

LEMMA ConvInvInit == ConvInit => ConvInv
<1> SUFFICES ASSUME ConvInit PROVE ConvInv
  OBVIOUS
<1>1. /\ program = [c \in Calls |-> <<"handle">>] /\ slice = [c \in Calls |-> Chat]
      /\ seen = [c \in Calls |-> {}] /\ rows = [c \in Calls |-> [found |-> 0, blank |-> 0]]
      /\ memory = [m \in {Chat} \union Calls |-> IF m = Chat THEN FromContext ELSE <<>>]
      /\ provider \in Providers /\ overlapped = FALSE /\ crashed = FALSE
  BY DEF ConvInit
<1>2. \A c \in Calls : ~UnderWay(c) /\ seen[c] = {} /\ slice[c] = Chat /\ c # Chat /\ program[c] = <<"handle">>
  BY <1>1 DEF UnderWay, Calls, Chat
<1>3. memory \in [{Chat} \union Calls -> Seq(Elements)]
  BY <1>1, ContextAlone
<1>4. <<"handle">> \in Seq({"handle", "trim", "send", "system", "user", "assistant"})
  OBVIOUS
<1>5. rows \in [Calls -> [found : 0..MaxRows, blank : Nat]]
  BY <1>1, Numbers
<1>6. ConvTypeOK
  BY <1>1, <1>3, <1>4, <1>5 DEF ConvTypeOK, Chat
<1>7. Ordered(<<"handle">>) /\ LooksFirst(<<"handle">>)
  BY DEF Ordered, LooksFirst
<1>8. ProgramsInv
  BY <1>2, <1>7 DEF ProgramsInv
<1>9. AloneInv
  BY <1>2 DEF AloneInv
<1>10. AnswersInv
  <2>1. Paired(<<>>)
    BY DEF Paired
  <2>2. QED
    BY <1>1, <1>2, <2>1, ContextAlone DEF AnswersInv
<1>11. BoundInv
  <2>1. memory[Chat] = FromContext
    BY <1>1
  <2>2. Len(memory[Chat]) <= Bound + 2
    BY <2>1, ContextAlone, Numbers DEF Bound
  <2>3. QED
    BY <1>2, <2>2 DEF BoundInv
<1>12. RowsInv
  BY <1>2 DEF RowsInv
<1>13. QED
  BY <1>6, <1>8, <1>9, <1>10, <1>11, <1>12 DEF ConvInv

LEMMA ConvInvStep == ConvInv /\ [ConvNext]_convVars => ConvInv'
<1> SUFFICES ASSUME ConvInv, [ConvNext]_convVars PROVE ConvInv'
  OBVIOUS
<1>1. CASE UNCHANGED convVars
  BY <1>1 DEF convVars, ConvInv, ConvTypeOK, ProgramsInv, AloneInv, AnswersInv, BoundInv, RowsInv,
     UnderWay, Appends, Op, Alone, QuestionIsLast, Bound, FewRows, RowsIn
<1>2. CASE ConvNext
  BY <1>2, InvHandle, InvHandleCustom, InvTrim, InvReadMemory, InvWriteMemory, InvSend DEF ConvNext
<1>3. QED
  BY <1>1, <1>2

LEMMA ConvInvariance == ConvSpec => []ConvInv
  BY ConvInvInit, ConvInvStep, PTL DEF ConvSpec
-----------------------------------------------------------------------------
(* The variables of the conversation keep their types.                     *)
THEOREM ConvTypeCorrect == ConvSpec => []ConvTypeOK
<1>1. ConvInv => ConvTypeOK
  BY DEF ConvInv
<1>2. QED
  BY <1>1, ConvInvariance, PTL

(* Unless handlers overlap, each answer follows its question, and each     *)
(* request ends with the question it asks.                                 *)
THEOREM AnswersFollow == ConvSpec => []AnswersFollowQuestions
<1>1. ConvInv => AnswersFollowQuestions
  <2> SUFFICES ASSUME ConvInv PROVE AnswersFollowQuestions
    OBVIOUS
  <2>1. \A c \in Calls : Alone(c) /\ AtSend(c) => QuestionIsLast(c)
    BY DEF ConvInv, AnswersInv, AtSend
  <2>2. QED
    BY <2>1 DEF ConvInv, AnswersInv, AnswersFollowQuestions, Paired, Alone, QuestionIsLast
<1>2. QED
  BY <1>1, ConvInvariance, PTL

(* Unless handlers overlap, the memory of those that look before they ask  *)
(* stays within the limit and one exchange.                                *)
THEOREM MemoryStaysBounded == ConvSpec => []MemoryBounded
<1>1. ConvInv => MemoryBounded
  BY DEF ConvInv, BoundInv, MemoryBounded
<1>2. QED
  BY <1>1, ConvInvariance, PTL

(* A few rows are in the request of a custom command.                      *)
THEOREM FewRowsReach == ConvSpec => []FewRowsReachModel
<1>1. ConvInv => FewRowsReachModel
  BY Operation DEF ConvInv, RowsInv, FewRowsReachModel, AtSend
<1>2. QED
  BY <1>1, ConvInvariance, PTL

-----------------------------------------------------------------------------
USE LimiterAssumption

(* What is kept and still valid is what was admitted within the window.    *)
LEMMA ValidIsRecent ==
  ASSUME Inv, NEW l \in Limiters, NEW s \in Senders
  PROVE  Valid(l, s) = RecentStamps(l, s)
<1>1. \A t \in clients[l][s] : t = [n |-> t.n, at |-> t.at]
  BY DEF Inv, TypeOK, Stamp
<1>2. Valid(l, s) \subseteq RecentStamps(l, s)
  <2> SUFFICES ASSUME NEW t \in Valid(l, s) PROVE t \in RecentStamps(l, s)
    OBVIOUS
  <2> DEFINE a == [n |-> t.n, at |-> t.at, by |-> l, of |-> s]
  <2>1. t \in clients[l][s] /\ t.at > now - Window
    BY DEF Valid
  <2>2. a \in admitted
    BY <2>1 DEF Inv
  <2>3. a \in Recent(l, s)
    BY <2>1, <2>2 DEF Recent
  <2>4. [n |-> a.n, at |-> a.at] = t
    BY <1>1, <2>1
  <2>5. QED
    BY <2>3, <2>4 DEF RecentStamps
<1>3. RecentStamps(l, s) \subseteq Valid(l, s)
  <2> SUFFICES ASSUME NEW t \in RecentStamps(l, s) PROVE t \in Valid(l, s)
    OBVIOUS
  <2>1. PICK a \in Recent(l, s) : t = [n |-> a.n, at |-> a.at]
    BY DEF RecentStamps
  <2>2. t \in clients[l][s]
    BY DEF Inv
  <2>3. t.at = a.at /\ a.at > now - Window
    BY <2>1 DEF Recent
  <2>4. QED
    BY <2>2, <2>3 DEF Valid
<1>4. QED
  BY <1>2, <1>3

(* Admissions have different numbers, so they are as many as their stamps. *)
LEMMA AsManyStamps ==
  ASSUME Inv, NEW l \in Limiters, NEW s \in Senders
  PROVE  /\ IsFiniteSet(Recent(l, s))
         /\ Cardinality(Recent(l, s)) \in Nat
         /\ Cardinality(RecentStamps(l, s)) = Cardinality(Recent(l, s))
<1> DEFINE R == Recent(l, s)
           T == RecentStamps(l, s)
           f == [a \in R |-> [n |-> a.n, at |-> a.at]]
<1>1. IsFiniteSet(R)
  <2>1. R \subseteq admitted
    BY DEF Recent
  <2>2. QED
    BY <2>1, FS_Subset DEF Inv
<1>2. f \in Surjection(R, T)
  BY DEF Surjection, RecentStamps
<1>3. f \in Injection(R, T)
  <2>1. ASSUME NEW a \in R, NEW b \in R, f[a] = f[b] PROVE a = b
    <3>1. f[a].n = a.n /\ f[b].n = b.n
      OBVIOUS
    <3>2. a \in admitted /\ b \in admitted /\ a.n = b.n
      BY <2>1, <3>1 DEF Recent
    <3>3. QED
      BY <3>2 DEF Inv
  <2>2. f \in [R -> T]
    BY DEF RecentStamps
  <2>3. QED
    BY <2>1, <2>2 DEF Injection, IsInjective
<1> HIDE DEF f, R, T
<1>4. Cardinality(T) = Cardinality(R)
  BY <1>1, <1>2, <1>3, FS_Surjection
<1>5. Cardinality(R) \in Nat
  BY <1>1, FS_CardinalityType
<1>6. QED
  BY <1>1, <1>4, <1>5 DEF R, T

LEMMA InvInit == Init => Inv
<1> SUFFICES ASSUME Init PROVE Inv
  OBVIOUS
<1>1. \A l \in Limiters, s \in Senders : clients[l][s] = {}
  BY DEF Init
<1>2. admitted = {} /\ now = 0
  BY DEF Init
<1>3. clients \in [Limiters -> [Senders -> SUBSET Stamp]]
  BY DEF Init
<1>4. \A l \in Limiters, s \in Senders : Recent(l, s) = {} /\ RecentStamps(l, s) = {}
  BY <1>2 DEF Recent, RecentStamps
<1>5. TypeOK
  BY <1>2, <1>3 DEF TypeOK
<1>6. WindowBound
  BY <1>4, FS_EmptySet DEF WindowBound
<1>7. QED
  BY <1>1, <1>2, <1>4, <1>5, <1>6, FS_EmptySet DEF Inv

LEMMA InvClock == Inv /\ Clock => Inv'
<1> SUFFICES ASSUME Inv, Clock PROVE Inv'
  OBVIOUS
<1>1. /\ now \in Nat /\ now' = now + 1 /\ clients' = clients /\ admitted' = admitted
      /\ admitted \subseteq [n : Nat, at : 0..now, by : Limiters, of : Senders]
  BY DEF Inv, TypeOK, Clock
<1>2. TypeOK'
  BY <1>1 DEF Inv, TypeOK
<1>3. \A l \in Limiters, s \in Senders : Recent(l, s)' \subseteq Recent(l, s)
  BY <1>1 DEF Recent
<1>4. \A l \in Limiters, s \in Senders : RecentStamps(l, s)' \subseteq RecentStamps(l, s)
  BY <1>3 DEF RecentStamps
<1>5. WindowBound'
  <2> SUFFICES ASSUME NEW l \in Limiters, NEW s \in Senders
               PROVE  Cardinality(Recent(l, s)') <= Limit
    BY DEF WindowBound
  <2>1. /\ Cardinality(Recent(l, s)') <= Cardinality(Recent(l, s))
        /\ Cardinality(Recent(l, s)') \in Nat /\ Cardinality(Recent(l, s)) \in Nat
    BY <1>3, AsManyStamps, FS_Subset, FS_CardinalityType
  <2>2. QED
    BY <2>1 DEF Inv, WindowBound
<1>6. QED
  BY <1>1, <1>2, <1>4, <1>5 DEF Inv

LEMMA InvAdmit ==
  ASSUME Inv, NEW l \in Limiters, NEW s \in Senders, Admit(l, s)
  PROVE  Inv'
<1> DEFINE n == Cardinality(admitted) + 1
           t == [n |-> n, at |-> now]
           a == [n |-> n, at |-> now, by |-> l, of |-> s]
<1>1. /\ admitted' = admitted \union {a}
      /\ now' = now /\ now \in Nat
      /\ Cardinality(Valid(l, s)) < Limit
      /\ clients' = [clients EXCEPT ![l][s] = Valid(l, s) \union {t}]
  BY DEF Inv, TypeOK, Admit
<1>2. /\ Cardinality(admitted) \in Nat /\ n \in Nat /\ a \notin admitted
      /\ t \in Stamp
  <2>1. Cardinality(admitted) \in Nat
    BY FS_CardinalityType DEF Inv
  <2>2. QED
    BY <1>1, <2>1 DEF Inv, Stamp
<1>3. /\ IsFiniteSet(admitted')
      /\ Cardinality(admitted') = n
  BY <1>1, <1>2, FS_AddElement DEF Inv
<1>4. \A b \in admitted : b.n \in Nat /\ b.n <= Cardinality(admitted)
  BY DEF Inv, TypeOK
<1>5. \A b \in admitted' : b.n <= Cardinality(admitted')
  BY <1>1, <1>2, <1>3, <1>4
<1>6. \A b, c \in admitted' : b.n = c.n => b = c
  BY <1>1, <1>2, <1>4 DEF Inv
<1>7. TypeOK'
  <2>1. Valid(l, s) \union {t} \subseteq Stamp
    BY <1>2 DEF Valid, Inv, TypeOK
  <2>2. clients' \in [Limiters -> [Senders -> SUBSET Stamp]]
    BY <1>1, <2>1 DEF Inv, TypeOK
  <2>3. admitted' \subseteq [n : Nat, at : 0..now, by : Limiters, of : Senders]
    BY <1>1, <1>2 DEF Inv, TypeOK
  <2>4. QED
    BY <1>1, <2>2, <2>3 DEF TypeOK
<1>8. \A k \in Limiters, u \in Senders :
        clients'[k][u] = IF k = l /\ u = s THEN Valid(l, s) \union {t} ELSE clients[k][u]
  BY <1>1 DEF Inv, TypeOK
<1>9. \A k \in Limiters, u \in Senders :
        Recent(k, u)' = IF k = l /\ u = s THEN Recent(l, s) \union {a} ELSE Recent(k, u)
  BY <1>1 DEF Recent
<1> HIDE DEF n, t, a
<1>10. ASSUME NEW k \in Limiters, NEW u \in Senders
       PROVE  /\ \A x \in clients'[k][u] :
                   [n |-> x.n, at |-> x.at, by |-> k, of |-> u] \in admitted'
              /\ RecentStamps(k, u)' \subseteq clients'[k][u]
              /\ Cardinality(Recent(k, u)') <= Limit
  <2>1. CASE k = l /\ u = s
    <3>1. \A x \in Valid(l, s) :
            [n |-> x.n, at |-> x.at, by |-> l, of |-> s] \in admitted
      BY DEF Valid, Inv
    <3>2. [n |-> t.n, at |-> t.at, by |-> l, of |-> s] = a
      BY DEF t, a
    <3>3. RecentStamps(l, s)' = RecentStamps(l, s) \union {t}
      <4>1. Recent(l, s)' = Recent(l, s) \union {a}
        BY <1>9
      <4>2. [n |-> a.n, at |-> a.at] = t
        BY DEF t, a
      <4>3. RecentStamps(l, s)' = {[n |-> b.n, at |-> b.at] : b \in Recent(l, s)'}
        BY DEF RecentStamps
      <4>4. QED
        BY <4>1, <4>2, <4>3 DEF RecentStamps
    <3>4. RecentStamps(l, s) = Valid(l, s)
      BY ValidIsRecent
    <3>5. Cardinality(Recent(l, s)) < Limit
      BY <1>1, <3>4, AsManyStamps
    <3>6. a \notin Recent(l, s)
      BY <1>2 DEF Recent
    <3>7. Cardinality(Recent(l, s)') = Cardinality(Recent(l, s)) + 1
      BY <1>9, <3>6, AsManyStamps, FS_AddElement
    <3>8. Cardinality(Recent(l, s)') <= Limit
      BY <3>5, <3>7, AsManyStamps
    <3>9. QED
      BY <1>1, <1>8, <2>1, <3>1, <3>2, <3>3, <3>4, <3>8
  <2>2. CASE ~(k = l /\ u = s)
    <3>1. clients'[k][u] = clients[k][u] /\ Recent(k, u)' = Recent(k, u)
      BY <1>8, <1>9, <2>2
    <3>2. RecentStamps(k, u)' = RecentStamps(k, u)
      BY <3>1 DEF RecentStamps
    <3>3. QED
      BY <1>1, <3>1, <3>2 DEF Inv, WindowBound
  <2>3. QED
    BY <2>1, <2>2
<1>11. WindowBound'
  BY <1>10 DEF WindowBound
<1>12. QED
  BY <1>3, <1>5, <1>6, <1>7, <1>10, <1>11 DEF Inv

LEMMA InvReject ==
  ASSUME Inv, NEW l \in Limiters, NEW s \in Senders, Reject(l, s)
  PROVE  Inv'
<1>1. /\ admitted' = admitted /\ now' = now
      /\ clients' = [clients EXCEPT ![l][s] = Valid(l, s)]
  BY DEF Reject
<1>2. TypeOK'
  <2>1. Valid(l, s) \subseteq Stamp
    BY DEF Valid, Inv, TypeOK
  <2>2. QED
    BY <1>1, <2>1 DEF Inv, TypeOK
<1>3. \A k \in Limiters, u \in Senders :
        clients'[k][u] = IF k = l /\ u = s THEN Valid(l, s) ELSE clients[k][u]
  BY <1>1 DEF Inv, TypeOK
<1>4. \A k \in Limiters, u \in Senders :
        Recent(k, u)' = Recent(k, u) /\ RecentStamps(k, u)' = RecentStamps(k, u)
  BY <1>1 DEF Recent, RecentStamps
<1>5. ASSUME NEW k \in Limiters, NEW u \in Senders
      PROVE  /\ \A x \in clients'[k][u] :
                  [n |-> x.n, at |-> x.at, by |-> k, of |-> u] \in admitted'
             /\ RecentStamps(k, u)' \subseteq clients'[k][u]
  <2>1. clients'[k][u] \subseteq clients[k][u]
    BY <1>3 DEF Valid
  <2>2. RecentStamps(k, u) \subseteq clients'[k][u]
    BY <1>3, ValidIsRecent DEF Inv
  <2>3. QED
    BY <1>1, <1>4, <2>1, <2>2 DEF Inv
<1>6. WindowBound'
  BY <1>4 DEF Inv, WindowBound
<1>7. QED
  BY <1>1, <1>2, <1>5, <1>6 DEF Inv

LEMMA InvStep == Inv /\ [Next]_vars => Inv'
<1> SUFFICES ASSUME Inv, [Next]_vars PROVE Inv'
  OBVIOUS
<1>1. CASE UNCHANGED vars
  <2>1. \A l \in Limiters, s \in Senders :
          Recent(l, s)' = Recent(l, s) /\ RecentStamps(l, s)' = RecentStamps(l, s)
    BY <1>1 DEF vars, Recent, RecentStamps
  <2>2. QED
    BY <1>1, <2>1 DEF vars, Inv, TypeOK, WindowBound
<1>2. QED
  BY <1>1, InvClock, InvAdmit, InvReject DEF Next, Allow

LEMMA Invariance == Spec => []Inv
  BY InvInit, InvStep, PTL DEF Spec
-----------------------------------------------------------------------------
(* Type correctness. *)
THEOREM TypeCorrect == Spec => []TypeOK
<1>1. Inv => TypeOK
  BY DEF Inv
<1>2. QED
  BY <1>1, Invariance, PTL

(* No sender gets more than Limit messages past a limiter in any Window.   *)
THEOREM WindowBounded == Spec => []WindowBound
<1>1. Inv => WindowBound
  BY DEF Inv
<1>2. QED
  BY <1>1, Invariance, PTL

(* The pruned list is exactly the admissions of the last Window.           *)
THEOREM PruningExact == Spec => []KeepsWindow
<1>1. Inv => KeepsWindow
  BY ValidIsRecent DEF KeepsWindow
<1>2. QED
  BY <1>1, Invariance, PTL

-----------------------------------------------------------------------------
(***************************************************************************)
(* The process: a step of it is one of one part, in which the others rest. *)
(***************************************************************************)

\* Every step of the process is a step of the limiter, or it leaves it alone; ...
LEMMA LimiterAlone == [HandlersNext]_handlersVars => [Next]_vars
  BY DEF HandlersNext, handlersVars, vars

\* ... so it is with the conversations, ...
LEMMA ConversationsAlone == [HandlersNext]_handlersVars => [ConvNext]_convVars
  BY DEF HandlersNext, handlersVars, convVars

\* ... the plugins ...
LEMMA PluginsAlone == [HandlersNext]_handlersVars => [PluginsNext]_pluginVars
  BY DEF HandlersNext, handlersVars, pluginVars

\* ... and the pseudonyms.
LEMMA PseudonymsAlone == [HandlersNext]_handlersVars => [PrivacyNext]_privacyVars
  BY DEF HandlersNext, handlersVars, privacyVars

\* The process implements each of its parts: none is disturbed by what the handlers
\* do with the others, which is what the run of them together rests on.
THEOREM HandlersImplement == HandlersSpec => Spec /\ ConvSpec /\ PluginsSpec /\ PrivacySpec
<1>1. HandlersInit => Init /\ ConvInit /\ PluginsInit /\ PrivacyInit
  BY DEF HandlersInit
<1> QED
  BY <1>1, LimiterAlone, ConversationsAlone, PluginsAlone, PseudonymsAlone, PTL
     DEF HandlersSpec, Spec, ConvSpec, PluginsSpec, PrivacySpec

\* The values of the variables of all parts.
THEOREM HandlersTypeCorrect == HandlersSpec => []HandlersTypeOK
<1>1. ConvTypeOK /\ PluginsTypeOK /\ PrivacyTypeOK => HandlersTypeOK
  BY DEF HandlersTypeOK
<1> QED
  BY <1>1, HandlersImplement, ConvTypeCorrect, PluginsTypeCorrect, PrivacyTypeCorrect, PTL

\* What was proved of each part holds of the process.
THEOREM HandlersKeep ==
  HandlersSpec => [](/\ WindowBound /\ KeepsWindow
                     /\ AnswersFollowQuestions /\ MemoryBounded /\ FewRowsReachModel
                     /\ UnloadStops /\ UnloadedIsGone /\ CallsItsScript
                     /\ PseudonymsHold)
  BY HandlersImplement, WindowBounded, PruningExact, AnswersFollow, MemoryStaysBounded, FewRowsReach,
     UnloadsStop, UnloadedStaysGone, CommandsCallTheirScripts, PseudonymsAlwaysHold, PTL
=============================================================================
