---------------------------- MODULE Conversation ----------------------------
(***************************************************************************)
(* What the handlers of an ircd ask its provider and what they remember:   *)
(* OllamaHandler, GeminiHandler, ChatGPTHandler and ORHandler with their   *)
(* request processors, and handleCustomCommand (main.go:179-322), which    *)
(* runs the same processors on a memory of its own.                        *)
(*                                                                         *)
(* girc handles every PRIVMSG in a goroutine (AddBg), and all those of an  *)
(* ircd work on one slice without a lock. An append is two steps, the read *)
(* of the slice and the write of the longer one: what was written in       *)
(* between is lost. The words of a slice header are not told apart.        *)
(*                                                                         *)
(* The providers differ only in the order in which they touch the memory,  *)
(* the program of a call:                                                  *)
(*   "trim"  beyond MemoryLimit the memory starts again from the context,  *)
(*   "send"  the request with the memory as it is, which may fail,         *)
(*   others  the role of an element to append.                             *)
(***************************************************************************)
EXTENDS Integers, Sequences, FiniteSets

CONSTANTS
  Providers,        \* the providers to be configured
  MemoryLimit,
  ContextLength,    \* elements of Context, and of a custom command's
  Limits,           \* those of the custom commands
  MaxRows,          \* bounds for model checking: on the rows a query finds, ...
  MaxCalls,         \* ... on the messages that ask something, ...
  MaxUnderWay       \* ... and on those handled at once

ASSUME ConversationAssumption ==
  {MemoryLimit, ContextLength, MaxRows, MaxCalls, MaxUnderWay} \union Limits \subseteq Nat

ASSUME ProvidersAssumption == Providers \subseteq {"ollama", "openrouter", "gemini", "chatgpt"}

Calls == 1..MaxCalls     \* in the order of their coming
Chat == 0                \* the memory that is shared

VARIABLES
  provider,         \* appConfig.Provider
  memory,           \* the slices: that of the handlers, Chat, and one for each custom command
  slice,            \* which of them a call works on
  program,          \* what each handler has left to do
  seen,             \* the slice it has read and not yet written back, if any
  rows,             \* what query and limit have given a custom command: rows found, and blank ones
  overlapped,       \* two chats were under way at once
  crashed           \* a handler has panicked, and with it the process

convVars == <<provider, memory, slice, program, seen, rows, overlapped, crashed>>

Nobody == 0
Element(role, by) == [role |-> role, by |-> by]
Times(n, e) == [i \in 1..n |-> e]
FromContext == Times(ContextLength, Element("context", Nobody))

\* Mutants: the look at the limit after the question; the question not asked again.
OllamaProgramLooksLate == <<"user", "trim", "send", "assistant">>
GeminiProgramForgets == <<"user", "send", "trim", "assistant">>

\* The handlers of ollama.go, openrouter.go, gemini.go and openai.go.
OllamaProgram == <<"trim", "user", "send", "assistant">>
OpenRouterProgram == <<"trim", "user", "send", "assistant">>
GeminiProgram == <<"user", "send", "trim", "user", "assistant">>
ChatGPTProgram == <<"system", "user", "send", "assistant", "trim">>

ProgramOf(p) ==
  CASE p = "ollama" -> OllamaProgram [] p = "openrouter" -> OpenRouterProgram
    [] p = "gemini" -> GeminiProgram [] p = "chatgpt" -> ChatGPTProgram

ConvInit ==
  /\ provider \in Providers
  /\ memory = [m \in {Chat} \union Calls |-> IF m = Chat THEN FromContext ELSE <<>>]
  /\ slice = [c \in Calls |-> Chat]
  /\ program = [c \in Calls |-> <<"handle">>]
  /\ seen = [c \in Calls |-> {}]
  /\ rows = [c \in Calls |-> [found |-> 0, blank |-> 0]]
  /\ overlapped = FALSE /\ crashed = FALSE

UnderWay(c) == program[c] \notin {<<"handle">>, <<>>}
Arrives(c) ==
  /\ program[c] = <<"handle">>
  /\ \A d \in 1..(c - 1) : program[d] # <<"handle">>
  /\ Cardinality({d \in Calls : UnderWay(d)}) < MaxUnderWay
Ends(c) == program' = [program EXCEPT ![c] = <<>>]

\* OllamaHandler and its likes: who may not ask is ignored, as is the question if there
\* is no client for the provider; an empty prompt has no first character (prompt[0]);
\* and anything but a command goes to the provider.
Handle(c) ==
  /\ Arrives(c)
  /\ \/ Ends(c) /\ UNCHANGED <<overlapped, crashed>>
     \/ crashed' = TRUE /\ UNCHANGED <<program, overlapped>>
     \/ /\ program' = [program EXCEPT ![c] = ProgramOf(provider)]
        /\ overlapped' = (overlapped \/ \E d \in Calls : UnderWay(d) /\ slice[d] = Chat)
        /\ UNCHANGED crashed
  /\ UNCHANGED <<provider, memory, slice, seen, rows>>

\* The capacity that append has given a slice of n elements (up to 256).
Capacity(n) == CHOOSE k \in {0} \union {2 ^ i : i \in 0..8} :
                 k >= n /\ \A j \in {0} \union {2 ^ i : i \in 0..8} : j >= n => j >= k

\* Mutant of Kept: as many as the limit says, if there are so many or not.
KeptAsAsked(n, limit) == IF limit = 0 THEN n ELSE limit

\* Rows of n that a limit keeps; 0 keeps them all.
Kept(n, limit) == IF limit = 0 \/ n < limit THEN n ELSE limit

\* The rows kept, blank ones and the context of the command.
CustomMemory(c, found, blank) ==
  Times(found, Element("row", c)) \o Times(blank, Element("blank", c)) \o FromContext

\* No SQL, no pool, or a query that fails; otherwise rows and context make a memory.
\* logs[:Limit] of n rows has blank rows beyond n, and panics beyond the capacity.
HandleCustom(c) ==
  /\ Arrives(c)
  /\ \/ Ends(c) /\ UNCHANGED <<memory, slice, rows, crashed>>
     \/ \E n \in 0..MaxRows, limit \in Limits :
          LET cut == IF limit = 0 THEN n ELSE limit
              kept == Kept(n, limit)
              blank == cut - kept IN
            IF cut > Capacity(n)
              THEN crashed' = TRUE /\ UNCHANGED <<memory, slice, program, rows>>
              ELSE /\ slice' = [slice EXCEPT ![c] = c]
                   /\ rows' = [rows EXCEPT ![c] = [found |-> kept, blank |-> blank]]
                   /\ memory' = [memory EXCEPT ![c] = CustomMemory(c, kept, blank)]
                   /\ program' = [program EXCEPT ![c] = ProgramOf(provider)]
                   /\ UNCHANGED crashed
  /\ UNCHANGED <<provider, seen, overlapped>>

Op(c) == Head(program[c])
AtSend(c) == UnderWay(c) /\ Op(c) = "send"
Last(s) == s[Len(s)]
Proceed(c) == program' = [program EXCEPT ![c] = Tail(program[c])]

\* Mutant of Trim: the exchange to come is not counted.
TrimBeyondAnother(c) ==
  /\ UnderWay(c) /\ Op(c) = "trim"
  /\ IF Len(memory[slice[c]]) > MemoryLimit + 1
       THEN memory' = [memory EXCEPT ![slice[c]] = FromContext]
       ELSE UNCHANGED memory
  /\ Proceed(c)
  /\ UNCHANGED <<provider, slice, seen, rows, overlapped, crashed>>

\* The check against MemoryLimit.
Trim(c) ==
  /\ UnderWay(c) /\ Op(c) = "trim"
  /\ IF Len(memory[slice[c]]) > MemoryLimit
       THEN memory' = [memory EXCEPT ![slice[c]] = FromContext]
       ELSE UNCHANGED memory
  /\ Proceed(c)
  /\ UNCHANGED <<provider, slice, seen, rows, overlapped, crashed>>

Appends(c) == UnderWay(c) /\ Op(c) \in {"system", "user", "assistant"}

ReadMemory(c) ==
  /\ Appends(c) /\ seen[c] = {}
  /\ seen' = [seen EXCEPT ![c] = {memory[slice[c]]}]
  /\ UNCHANGED <<provider, memory, slice, program, rows, overlapped, crashed>>

WriteMemory(c) ==
  /\ Appends(c)
  /\ \E s \in seen[c] : memory' = [memory EXCEPT ![slice[c]] = Append(s, Element(Op(c), c))]
  /\ seen' = [seen EXCEPT ![c] = {}]
  /\ Proceed(c)
  /\ UNCHANGED <<provider, slice, rows, overlapped, crashed>>

\* The request is made of the memory of this moment; RequestTimeout ends it, and an
\* error ends the call with what it has put into the memory. A proxy that cannot be
\* used is fatal (ollama.go:91-104), as is an answer without choices (openai.go:79).
Send(c) ==
  /\ AtSend(c)
  /\ \/ (Proceed(c) \/ Ends(c)) /\ UNCHANGED crashed
     \/ provider # "gemini" /\ crashed' = TRUE /\ UNCHANGED program
  /\ UNCHANGED <<provider, memory, slice, seen, rows, overlapped>>

ConvNext ==
  /\ ~crashed
  /\ \E c \in Calls :
       \/ Handle(c) \/ HandleCustom(c) \/ Trim(c)
       \/ ReadMemory(c) \/ WriteMemory(c) \/ Send(c)

ConvSpec == ConvInit /\ [][ConvNext]_convVars
-----------------------------------------------------------------------------
Elements == [role : {"context", "system", "user", "assistant", "row", "blank"}, by : {Nobody} \union Calls]

ConvTypeOK ==
  /\ provider \in Providers
  /\ memory \in [{Chat} \union Calls -> Seq(Elements)]
  /\ slice \in [Calls -> {Chat} \union Calls]
  /\ program \in [Calls -> Seq({"handle", "trim", "send", "system", "user", "assistant"})]
  /\ seen \in [Calls -> SUBSET Seq(Elements)]
  /\ rows \in [Calls -> [found : 0..MaxRows, blank : Nat]]
  /\ overlapped \in BOOLEAN /\ crashed \in BOOLEAN

\* Unless handlers overlap, each answer that is remembered follows its own question,
\* and a request ends with the question it asks, whatever was trimmed or has failed
\* before. (A custom command's memory is its own, so it may always rely on that.)
AnswersFollowQuestions ==
  /\ \A m \in DOMAIN memory : (m # Chat \/ ~overlapped) =>
       \A i \in DOMAIN memory[m] : memory[m][i].role = "assistant" =>
         i > 1 /\ memory[m][i - 1] = Element("user", memory[m][i].by)
  /\ \A c \in Calls : (slice[c] # Chat \/ ~overlapped) /\ AtSend(c) =>
       memory[slice[c]] # <<>> /\ Last(memory[slice[c]]) = Element("user", c)

\* A memory of the limit, or one that has started again from its context.
Bound == IF MemoryLimit < ContextLength THEN ContextLength ELSE MemoryLimit

\* Unless handlers overlap, what the handlers of Ollama and OpenRouter remember stays
\* within the limit and one exchange, for they look before they ask. (Those of Gemini
\* and ChatGPT look only after an answer: failures grow their memory without end.)
MemoryBounded ==
  provider \in {"ollama", "openrouter"} /\ ~overlapped =>
    Len(memory[Chat]) <= Bound + 2

\* All the rows that were found and kept are in a custom command's request.
RowsIn(c) == \A i \in 1..rows[c].found : i <= Len(memory[c]) /\ memory[c][i] = Element("row", c)

\* Rows, blank ones and context: no more than the memory may have.
FewRows(c) == rows[c].found + rows[c].blank + ContextLength <= MemoryLimit

\* The rows reach the model, unless they, the blank ones and the context are more than
\* MemoryLimit: then those that look before they ask start again from the configured
\* context, and ask without a row (ollama.go:33, README.md:151-153 know no such limit).
FewRowsReachModel == \A c \in Calls : AtSend(c) /\ slice[c] = c /\ FewRows(c) => RowsIn(c)
-----------------------------------------------------------------------------
(* Why these hold. *)

\* The order of what a handler has left: it sends, and appends the answer, after its
\* question; what it trims it will not send.
Ordered(p) ==
  /\ p = <<"handle">> \/ \A i \in DOMAIN p : p[i] # "handle"
  /\ \A i \in 2..Len(p) :
       /\ p[i] = "send" => p[i - 1] = "user"
       /\ p[i] = "assistant" => p[i - 1] \in {"user", "send"}
       /\ p[i] = "trim" => \A j \in i..Len(p) : p[j] # "send"

\* Those that look before they ask: one exchange after each look.
LooksFirst(p) ==
  /\ \A i \in DOMAIN p : p[i] # "system"
  /\ \A i \in 2..Len(p) :
       /\ p[i] = "user" => p[i - 1] = "trim"
       /\ p[i] = "assistant" => p[i - 1] = "send"
       /\ p[i] # "trim"

ProgramsInv ==
  \A c \in Calls :
    /\ Ordered(program[c])
    /\ provider \in {"ollama", "openrouter"} => LooksFirst(program[c])
    /\ slice[c] \in {Chat, c}
    /\ program[c] = <<"handle">> => slice[c] = Chat
    /\ seen[c] # {} => Appends(c)

\* No other handler writes to the memory of c.
Alone(c) == slice[c] # Chat \/ ~overlapped

AloneInv ==
  /\ ~overlapped => \A c, d \in Calls :
       UnderWay(c) /\ UnderWay(d) /\ slice[c] = Chat /\ slice[d] = Chat => c = d
  /\ \A c \in Calls : Alone(c) => seen[c] \subseteq {memory[slice[c]]}

\* Its question is the last element until it is answered.
QuestionIsLast(c) == memory[slice[c]] # <<>> /\ Last(memory[slice[c]]) = Element("user", c)
Paired(s) ==
  \A i \in DOMAIN s : s[i].role = "assistant" => i > 1 /\ s[i - 1] = Element("user", s[i].by)

AnswersInv ==
  /\ \A m \in DOMAIN memory : m # Chat \/ ~overlapped => Paired(memory[m])
  /\ \A c \in Calls : Alone(c) /\ UnderWay(c) /\ Op(c) \in {"send", "assistant"} => QuestionIsLast(c)

\* What may still be added is what is left of the one exchange.
BoundInv ==
  provider \in {"ollama", "openrouter"} /\ ~overlapped =>
    /\ Len(memory[Chat]) <= Bound + 2
    /\ \A c \in Calls : UnderWay(c) /\ slice[c] = Chat =>
         /\ Op(c) = "user" => Len(memory[Chat]) <= Bound
         /\ Op(c) \in {"send", "assistant"} => Len(memory[Chat]) <= Bound + 1

\* The rows stay until the request is sent: the look before it finds no more than them.
RowsInv ==
  \A c \in Calls :
    slice[c] = c /\ FewRows(c) /\ (\E i \in DOMAIN program[c] : program[c][i] = "send") =>
      /\ RowsIn(c)
      /\ Op(c) = "trim" => Len(memory[c]) <= rows[c].found + rows[c].blank + ContextLength

ConvInv == ConvTypeOK /\ ProgramsInv /\ AloneInv /\ AnswersInv /\ BoundInv /\ RowsInv
=============================================================================
