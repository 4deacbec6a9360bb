------------------------------- MODULE Privacy -------------------------------
(***************************************************************************)
(* The pseudonyms of conspiri/privacy.go, a session for each prompt, and   *)
(* the prompts that GenerateReply (llm.go), handleAsk and handleRecap      *)
(* (utility.go) build with them. A text is a sequence of characters; an    *)
(* alias is the character "E", which stands for Entity_, and the digits of *)
(* its number, to the base that Digits has. A session belongs to one       *)
(* goroutine: a prompt is built in one step. A map lists its keys in any   *)
(* order, and sort.Slice leaves those that compare equal in any order.     *)
(*                                                                         *)
(* Only a prompt goes through a session. What the API is given besides, for*)
(* an embedding or as cached content, goes as it was said, nicks and all.  *)
(***************************************************************************)
EXTENDS Integers, Sequences
SE == INSTANCE SequencesExt

CONSTANTS
  Characters,       \* those of nicks and, with "E", of texts
  Nicks,            \* of those who speak in the channel
  Excluded,         \* those that are the bot's own, whatever their case
  Texts,            \* what is said, before any pseudonym
  Remembered,       \* what of it the database has: facts, and answers with the nicks back
  Separators,       \* the characters that are not of a word
  Digits,           \* the digits, <<"0", ..., "9">>
  MaxHistory, MaxPieces \* bounds on the rows of the history and on an answer

IsDigit(c) == \E d \in DOMAIN Digits : Digits[d] = c

ASSUME PrivacyAssumption ==
  /\ Nicks \subseteq Seq(Characters) \ {<<>>} /\ Excluded \subseteq Nicks
  /\ Texts \subseteq Seq(Characters \union {"E"}) /\ Remembered \subseteq Texts
  /\ Digits \in Seq(Characters) /\ Len(Digits) > 1
  /\ \A i, j \in DOMAIN Digits : Digits[i] = Digits[j] => i = j
  /\ "E" \notin Separators /\ \A c \in Separators : ~IsDigit(c)
  /\ MaxHistory \in Nat /\ MaxPieces \in Nat

\* No nick has an Entity_ in it, or begins with a digit. IRC and the code allow the first,
\* and what is said below does not hold for a nick that is like an alias.
ASSUME NicksAssumption == "E" \notin Characters /\ \A n \in Nicks : ~IsDigit(n[1])

VARIABLES
  session,          \* the nicks in the order of their aliases
  prompt,           \* the texts of the prompt of the call under way, as they may be sanitized
  bare,             \* the texts that the API is given besides, which nothing sanitizes
  answer,           \* the text in which the nicks are back
  meant,            \* the answer as the API means it: characters, and numbers of aliases
  stage             \* of the session

privacyVars == <<session, prompt, bare, answer, meant, stage>>

PrivacyInit ==
  session = <<>> /\ prompt = {} /\ bare = {} /\ answer = <<>> /\ meant = <<>> /\ stage = "new"
-----------------------------------------------------------------------------
Numeral[k \in Nat] ==
  LET base == Len(Digits) IN
    IF k < base THEN <<Digits[k + 1]>> ELSE Numeral[k \div base] \o <<Digits[(k % base) + 1]>>

\* fmt.Sprintf("Entity_%d", p.counter)
Alias(k) == <<"E">> \o Numeral[k]

\* The session after Mask: a nick that is new gets the next alias.
Mask(names, nick) ==
  IF nick \in Excluded \/ SE!Contains(names, nick) THEN names ELSE Append(names, nick)

MaskAll(names, nicks) ==
  LET masked[k \in 0..Len(nicks)] ==
        IF k = 0 THEN names ELSE Mask(masked[k - 1], nicks[k]) IN
  masked[Len(nicks)]

Occurs(word, text, i) ==
  i + Len(word) - 1 <= Len(text) /\ SubSeq(text, i, i + Len(word) - 1) = word

\* Between separators or the ends of the text.
Stands(word, text, i) ==
  LET next == i + Len(word) IN
    /\ Occurs(word, text, i)
    /\ next = Len(text) + 1 \/ text[next] \in Separators
    /\ i = 1 \/ text[i - 1] \in Separators

\* Where the expression matches that is tried at i: behind a separator, or at the start.
Match(word, text, i) ==
  IF i = 1 /\ Stands(word, text, 1) THEN 1
  ELSE IF text[i] \in Separators /\ Stands(word, text, i + 1) THEN i + 1 ELSE 0

\* re.ReplaceAllString: from left to right, and a match takes the separators on
\* both sides, so that the next one cannot begin with the same.
ReplaceOnce(text, word, alias) ==
  LET rest[i \in 1..(Len(text) + 1)] ==
        IF i > Len(text) THEN <<>>
        ELSE IF Match(word, text, i) = 0 THEN <<text[i]>> \o rest[i + 1]
        ELSE LET next == Match(word, text, i) + Len(word) IN
               SubSeq(text, i, Match(word, text, i) - 1) \o alias
                 \o (IF next <= Len(text) THEN <<text[next]>> \o rest[next + 1] ELSE <<>>) IN
  rest[1]

\* The loop until nothing changes: no text has more matches than characters.
ReplaceWords(text, word, alias) ==
  LET after[k \in Nat] == IF k = 0 THEN text ELSE ReplaceOnce(after[k - 1], word, alias) IN
  after[CHOOSE k \in 0..Len(text) : after[k + 1] = after[k]]

\* The orders that sort.Slice may leave, by size from the largest.
LargestFirst(size) ==
  {order \in [DOMAIN size -> DOMAIN size] :
     /\ \A i, j \in DOMAIN size : order[i] = order[j] => i = j
     /\ \A i, j \in DOMAIN size : i < j => size[order[i]] >= size[order[j]]}

NickOrders(names) == LargestFirst([k \in DOMAIN names |-> Len(names[k])])
AliasOrders(names) == LargestFirst([k \in DOMAIN names |-> Len(Alias(k))])

\* Mutant of SanitizeText: one pass over the text.
SanitizeTextOnce(names, order, text) ==
  LET out[k \in 0..Len(names)] ==
        IF k = 0 THEN text ELSE ReplaceOnce(out[k - 1], names[order[k]], Alias(order[k])) IN
  out[Len(names)]

\* The longest nicks first.
SanitizeText(names, order, text) ==
  LET out[k \in 0..Len(names)] ==
        IF k = 0 THEN text ELSE ReplaceWords(out[k - 1], names[order[k]], Alias(order[k])) IN
  out[Len(names)]

\* strings.ReplaceAll
ReplaceText(text, old, new) ==
  LET rest[i \in 1..(Len(text) + 1)] ==
        IF i > Len(text) THEN <<>>
        ELSE IF Occurs(old, text, i) THEN new \o rest[i + Len(old)]
        ELSE <<text[i]>> \o rest[i + 1] IN
  rest[1]

\* Mutant of DesanitizeText: the aliases in the order in which they were given.
DesanitizeInOrder(names, order, text) ==
  LET out[k \in 0..Len(names)] ==
        IF k = 0 THEN text ELSE ReplaceText(out[k - 1], Alias(k), names[k]) IN
  out[Len(names)]

\* The longest aliases first: Entity_10 before Entity_1.
DesanitizeText(names, order, text) ==
  LET out[k \in 0..Len(names)] ==
        IF k = 0 THEN text ELSE ReplaceText(out[k - 1], Alias(order[k]), names[order[k]]) IN
  out[Len(names)]
-----------------------------------------------------------------------------
\* What was said, the newest first.
Histories == UNION {[1..k -> [by : Nicks, text : Texts]] : k \in 0..MaxHistory}

Speakers(history) == [i \in DOMAIN history |-> history[i].by]

\* What a text may become, in the orders that the nicks may have.
Sanitized(names, text) == {SanitizeText(names, order, text) : order \in NickOrders(names)}

\* The prompt that CallGeminiText is given.
Sends(names, texts, as) ==
  /\ stage = "new" /\ stage' = as
  /\ session' = names /\ prompt' = texts
  /\ UNCHANGED <<answer, meant>>

\* GenerateReply masks the sender and all who speak in the history, and then the texts,
\* those found in the facts and the memory of the bot too. The search asks for an
\* embedding of the question as it was put, and the memory, in which answers are kept with
\* the nicks back, is the cached content of this prompt or of the next as it is.
GenerateReply(sender, question, history) ==
  LET names == MaskAll(Mask(<<>>, sender), Speakers(history))
      said == Sanitized(names, question)
                \union UNION {Sanitized(names, history[i].text) : i \in DOMAIN history} IN
    /\ \E found \in SUBSET Remembered :
         Sends(names, said \union UNION {Sanitized(names, text) : text \in found}, "asked")
    /\ \E memory \in SUBSET Remembered : bare' = {question} \union memory

\* handleAsk knows of the sender only.
HandleAsk(sender, question) ==
  LET names == Mask(<<>>, sender) IN
    Sends(names, Sanitized(names, question), "asked") /\ bare' = {}

\* handleRecap masks each speaker as it comes, from the oldest row on: a text is
\* masked with the names that have spoken by then.
HandleRecap(history) ==
  LET By(i) == MaskAll(<<>>, SE!Reverse(SubSeq(Speakers(history), i, Len(history)))) IN
    /\ history # <<>>
    /\ Sends(By(1), UNION {Sanitized(By(i), history[i].text) : i \in DOMAIN history}, "recapped")
    /\ bare' = {}

\* The API answers in characters and aliases; none of what it has from the texts is
\* like an alias or puts a digit behind one.
Plain == {text \in Texts \intersect Seq(Characters) : text = <<>> \/ ~IsDigit(text[1])}
Pieces == [alias : DOMAIN session, text : {<<>>}] \union [alias : {0}, text : Plain]

Masked(piece) == IF piece.alias = 0 THEN piece.text ELSE Alias(piece.alias)

\* The call has ended, and DesanitizeText puts the nicks back.
Answered(pieces) ==
  /\ stage \in {"asked", "recapped"} /\ stage' = "answered"
  /\ meant' = pieces
  /\ \E order \in AliasOrders(session) :
       answer' = DesanitizeText(session, order, SE!FlattenSeq([i \in DOMAIN pieces |-> Masked(pieces[i])]))
  /\ prompt' = {} /\ bare' = {} /\ UNCHANGED session

PrivacyNext ==
  \/ \E sender \in Nicks, question \in Texts :
       \/ \E history \in Histories : GenerateReply(sender, question, history)
       \/ HandleAsk(sender, question)
  \/ \E history \in Histories : HandleRecap(history)
  \/ \E k \in 0..MaxPieces : \E pieces \in [1..k -> Pieces] : Answered(pieces)

PrivacySpec == PrivacyInit /\ [][PrivacyNext]_privacyVars
-----------------------------------------------------------------------------
PrivacyTypeOK ==
  /\ session \in Seq(Nicks \ Excluded) /\ Len(session) <= MaxHistory + 1
  /\ stage \in {"new", "asked", "recapped", "answered"}
  /\ \A i \in DOMAIN meant : meant[i].alias \in 0..Len(session)

\* The nick that an alias was given for, where a piece has one.
Unmasked(piece) == IF piece.alias = 0 THEN piece.text ELSE session[piece.alias]

\* No nick of someone who has spoken stands in the prompt of a reply or of a question,
\* however near to another, and an answer gets back the nick that each alias was given
\* for, in a session with more aliases than digits too (privacy.go:56-142,
\* llm.go:109-176). Of what the API is given besides the prompt, which is in bare, the
\* code promises nothing, and nicks stand there.
PseudonymsHold ==
  /\ stage = "asked" =>
       \A text \in prompt, nick \in {session[k] : k \in DOMAIN session} :
         \A i \in DOMAIN text : ~Stands(nick, text, i)
  /\ stage = "answered" => answer = SE!FlattenSeq([i \in DOMAIN meant |-> Unmasked(meant[i])])
=============================================================================
