---------------------------- MODULE PluginsProofs ----------------------------
(***************************************************************************)
(* Theorems about Plugins: what an unload stops, what it leaves, and which *)
(* function a command calls, for any scripts, any number of runs and any   *)
(* interleaving of them, the copies of the configuration included.         *)
(***************************************************************************)
EXTENDS Plugins, TLAPS, FiniteSetTheorems

RunStates ==
  [at : {"unused", "path", "insert", "file", "write", "call", "over"}, path : Paths,
   states : Owners, commands : Owners, asked : SUBSET Names, left : Seq(Names), cancelled : BOOLEAN]

\* The names that a script registers.
NamesOf(s) == {Registers[s][i] : i \in DOMAIN Registers[s]}

\* What is left to register are names of the script, and there is one while it is written.
LeftSound(r) ==
  /\ run[r].at = "write" => run[r].left # <<>>
  /\ run[r].at \in {"file", "write"} /\ run[r].left # <<>> =>
       run[r].path \in Scripts /\ \A i \in 1..Len(run[r].left) : run[r].left[i] \in NamesOf(run[r].path)

AllSound == \A r \in Runs : LeftSound(r)

Sound == PluginsTypeOK /\ AllSound
-----------------------------------------------------------------------------
\* The four ways in which a run begins.
Starts(r) ==
  \/ \E s \in Scripts : RunScript(r, s)
  \/ \E t \in Triggered : LoadEventPlugin(r, t)
  \/ \E i, t \in Triggered : RunTriggered(r, i, t)
  \/ \E c \in Names : RunCommand(r, c)

\* What a run may be when it begins.
Fresh(new) ==
  /\ new \in RunStates
  /\ \/ new.at = "insert" /\ new.asked = {}
     \/ /\ new.at = "path" /\ new.path = NoPath
        /\ \E c \in Names : new.asked = {c} /\ luaCommands[Config][c] # {}

LEMMA FreshForms ==
  ASSUME NEW at \in {"path", "insert"}, NEW path \in Paths, NEW states \in Owners,
         NEW commands \in Owners, NEW asked \in SUBSET Names
  PROVE  /\ A(at, path, states, commands, asked) \in RunStates
         /\ A(at, path, states, commands, asked).at = at
         /\ A(at, path, states, commands, asked).path = path
         /\ A(at, path, states, commands, asked).asked = asked
BY DEF A, RunStates

\* However it begins, it is one more run, in a form of its own, and nothing else moves.
LEMMA StartForm ==
  ASSUME Sound, NEW r \in Runs, Starts(r)
  PROVE  \E new \in RunStates :
           /\ Fresh(new)
           /\ run[r].at = "unused" /\ run' = [run EXCEPT ![r] = new]
           /\ withdrawn' = withdrawn \ {new.path}
           /\ UNCHANGED <<luaStates, luaCommands, made, copies, admin, mixed, doubled, stays, interrupted, raced>>
<1> USE PluginsAssumption DEF Owners, Paths
<1>1. ASSUME NEW s \in Scripts, RunScript(r, s)
      PROVE  Begins(r, A("insert", s, Config, Config, {})) /\ UNCHANGED copies
  BY <1>1 DEF RunScript
<1>2. ASSUME NEW t \in Triggered, LoadEventPlugin(r, t)
      PROVE  Begins(r, A("insert", t, Config, Config, {})) /\ UNCHANGED copies
  BY <1>2 DEF LoadEventPlugin
<1>3. ASSUME NEW s \in Scripts, NEW states \in Owners, NEW commands \in Owners
      PROVE  Fresh(A("insert", s, states, commands, {}))
  BY FreshForms DEF Fresh
<1>4. ASSUME NEW new, Begins(r, new), Fresh(new), UNCHANGED copies
      PROVE  \E n \in RunStates :
               /\ Fresh(n)
               /\ run[r].at = "unused" /\ run' = [run EXCEPT ![r] = n]
               /\ withdrawn' = withdrawn \ {n.path}
               /\ UNCHANGED <<luaStates, luaCommands, made, copies, admin, mixed, doubled, stays, interrupted, raced>>
  BY <1>4, Zenon DEF Begins, Fresh
<1>5. CASE \E s \in Scripts : RunScript(r, s)
  <2>1. PICK s \in Scripts : RunScript(r, s)
    BY <1>5
  <2>2. Fresh(A("insert", s, Config, Config, {}))
    BY <1>3
  <2> QED
    BY <1>1, <1>4, <2>1, <2>2
<1>6. CASE \E t \in Triggered : LoadEventPlugin(r, t)
  <2>1. PICK t \in Triggered : LoadEventPlugin(r, t)
    BY <1>6
  <2>2. Fresh(A("insert", t, Config, Config, {}))
    BY <1>3
  <2> QED
    BY <1>2, <1>4, <2>1, <2>2
<1>7. CASE \E i, t \in Triggered : RunTriggered(r, i, t)
  <2>1. PICK i \in Triggered, t \in Triggered : RunTriggered(r, i, t)
    BY <1>7
  <2>2. PICK c \in copies[i] : Begins(r, A("insert", t, c.states, c.commands, {})) /\ UNCHANGED copies
    BY <2>1 DEF RunTriggered
  <2>3. c.states \in Owners /\ c.commands \in Owners
    BY <2>2 DEF Sound, PluginsTypeOK
  <2>4. Fresh(A("insert", t, c.states, c.commands, {}))
    BY <1>3, <2>3
  <2> QED
    BY <1>4, <2>2, <2>4
<1>8. CASE \E c \in Names : RunCommand(r, c)
  <2>1. PICK c \in Names : RunCommand(r, c)
    BY <1>8
  <2>2. Fresh(A("path", NoPath, Config, Config, {c}))
    <3> DEFINE new == A("path", NoPath, Config, Config, {c})
    <3>1. /\ new \in RunStates /\ new.at = "path" /\ new.path = NoPath /\ new.asked = {c}
      <4>1. "path" \in {"path", "insert"} /\ NoPath \in Paths /\ Config \in Owners /\ {c} \in SUBSET Names
        OBVIOUS
      <4> QED
        BY ONLY <4>1, FreshForms
    <3>2. luaCommands[Config][c] # {}
      BY <2>1 DEF RunCommand
    <3> HIDE DEF new
    <3>3. Fresh(new)
      BY <3>1, <3>2 DEF Fresh
    <3> QED
      BY <3>3 DEF new
  <2> QED
    BY <1>4, <2>1, <2>2 DEF RunCommand
<1> QED
  BY <1>5, <1>6, <1>7, <1>8 DEF Starts
-----------------------------------------------------------------------------
\* What is left after the first name is registered are names of the script still.
LEMMA RestOfNames ==
  ASSUME NEW left \in Seq(Names), left # <<>>, NEW S, \A i \in 1..Len(left) : left[i] \in S
  PROVE  /\ Tail(left) \in Seq(Names) /\ Head(left) \in Names /\ Head(left) \in S
         /\ \A i \in 1..Len(Tail(left)) : Tail(left)[i] \in S
OBVIOUS

LEMMA NamesOfScript ==
  ASSUME NEW s \in Scripts
  PROVE  /\ Registers[s] \in Seq(Names) /\ NamesOf(s) \subseteq Names
         /\ \A i \in 1..Len(Registers[s]) : Registers[s][i] \in NamesOf(s)
<1>1. Registers[s] \in Seq(Names)
  BY PluginsAssumption DEF Names
<1>2. DOMAIN Registers[s] = 1..Len(Registers[s])
  BY <1>1
<1> QED
  BY <1>1, <1>2 DEF NamesOf, Names

\* The steps of a run under way, each with what it makes of the run.
Advances(r) ==
  ReadPath(r) \/ InsertLState(r) \/ RegisterChecks(r) \/ RegisterWrites(r)
    \/ FileEnds(r) \/ FileFails(r) \/ CallFunction(r)

LEMMA OverForm ==
  ASSUME Sound, NEW r \in Runs
  PROVE  /\ Over(r) \in RunStates /\ Over(r).at = "over" /\ Over(r).states = run[r].states
         /\ Over(r).asked = run[r].asked
<1> run[r] \in RunStates
  BY DEF Sound, PluginsTypeOK, RunStates
<1> QED
  BY DEF Over, A, RunStates, Paths, Owners

LEMMA AdvanceForm ==
  ASSUME Sound, NEW r \in Runs, Advances(r)
  PROVE  \E new \in RunStates :
           /\ run' = [run EXCEPT ![r] = new]
           /\ run[r].at # "unused" /\ new.at # "unused"
           /\ new.states = run[r].states /\ new.asked = run[r].asked
           /\ new.at = "write" => new.left # <<>>
           /\ new.at \in {"file", "write"} /\ new.left # <<>> =>
                new.path \in Scripts /\ \A i \in 1..Len(new.left) : new.left[i] \in NamesOf(new.path)
           /\ run[r].at # "over" /\ new.at # "path"
           /\ new.at # "over" => new.cancelled = run[r].cancelled /\ (ReadPath(r) \/ new.path = run[r].path)
           /\ new.at = "insert" => ReadPath(r)
           /\ new.at \in {"file", "write", "call"} => InsertLState(r) \/ run[r].at \in {"file", "write", "call"}
           /\ new.at = "write" => /\ RegisterChecks(r) /\ Registered(r) = {}
                                 /\ new.left = run[r].left /\ new.commands = run[r].commands
<1> DEFINE old == run[r]
<1>0. old \in RunStates /\ run \in [Runs -> RunStates] /\ LeftSound(r)
  BY DEF Sound, AllSound, PluginsTypeOK, RunStates
<1> USE <1>0 DEF LeftSound
<1>1. CASE ReadPath(r)
  <2>1. PICK p : /\ p \in Paths
                 /\ run[r].at = "path" /\ run' = [run EXCEPT ![r].at = "insert", ![r].path = p]
    <3> DEFINE found == UNION {luaCommands[Config][c] : c \in run[r].asked}
               p == IF found = {} THEN NoPath ELSE CHOOSE s \in found : TRUE
    <3>1. found \subseteq Scripts
      BY DEF Sound, PluginsTypeOK, RunStates, Owners
    <3>2. p \in Paths
      BY <3>1 DEF Paths
    <3>3. run[r].at = "path" /\ run' = [run EXCEPT ![r].at = "insert", ![r].path = p]
      BY <1>1, Zenon DEF ReadPath
    <3> QED
      BY <3>2, <3>3
  <2> DEFINE new == [old EXCEPT !.at = "insert", !.path = p]
  <2>2. /\ new \in RunStates /\ new.at = "insert" /\ new.states = old.states /\ new.asked = old.asked
        /\ new.cancelled = old.cancelled
    BY <2>1 DEF RunStates
  <2>3. run' = [run EXCEPT ![r] = new]
    BY <2>1
  <2> QED
    BY <1>1, <2>1, <2>2, <2>3
<1>2. CASE InsertLState(r)
  <2> DEFINE names == IF run[r].path = NoPath THEN <<>> ELSE Registers[run[r].path]
             new == [old EXCEPT !.at = "file", !.left = names]
  <2>1. names \in Seq(Names) /\ (names # <<>> => run[r].path \in Scripts /\ \A i \in 1..Len(names) : names[i] \in NamesOf(run[r].path))
    BY NamesOfScript DEF RunStates, Paths
  <2>2. run[r].at = "insert" /\ run' = [run EXCEPT ![r] = new]
    BY <1>2 DEF InsertLState
  <2> HIDE DEF names
  <2>3. /\ new \in RunStates /\ new.at = "file" /\ new.states = old.states /\ new.asked = old.asked
        /\ new.left = names /\ new.path = old.path /\ new.cancelled = old.cancelled
    BY <2>1 DEF RunStates
  <2> QED
    BY <1>2, <2>1, <2>2, <2>3
<1>3. CASE RegisterChecks(r)
  <2>1. /\ old.at = "file" /\ old.left # <<>>
        /\ run' = IF Registered(r) # {} THEN [run EXCEPT ![r].left = Tail(@)] ELSE [run EXCEPT ![r].at = "write"]
    BY <1>3 DEF RegisterChecks
  <2>2. old.path \in Scripts /\ \A i \in 1..Len(old.left) : old.left[i] \in NamesOf(old.path)
    BY <2>1
  <2>3. CASE Registered(r) # {}
    <3> DEFINE new == [old EXCEPT !.left = Tail(@)]
    <3>1. run' = [run EXCEPT ![r] = new]
      BY <2>1, <2>3
    <3>2. Tail(old.left) \in Seq(Names) /\ \A i \in 1..Len(Tail(old.left)) : Tail(old.left)[i] \in NamesOf(old.path)
      BY <2>1, <2>2, RestOfNames DEF RunStates
    <3>3. /\ new \in RunStates /\ new.at = "file" /\ new.states = old.states /\ new.asked = old.asked
          /\ new.left = Tail(old.left) /\ new.path = old.path /\ new.cancelled = old.cancelled
      BY <2>1, <3>2 DEF RunStates
    <3> QED
      BY <2>1, <2>2, <3>1, <3>2, <3>3
  <2>4. CASE Registered(r) = {}
    <3> DEFINE new == [old EXCEPT !.at = "write"]
    <3>1. run' = [run EXCEPT ![r] = new]
      BY <2>1, <2>4
    <3>2. /\ new \in RunStates /\ new.at = "write" /\ new.states = old.states /\ new.asked = old.asked
          /\ new.left = old.left /\ new.commands = old.commands /\ new.path = old.path /\ new.cancelled = old.cancelled
      BY <2>1 DEF RunStates
    <3> QED
      BY <1>3, <2>1, <2>2, <2>4, <3>1, <3>2
  <2> QED
    BY <2>3, <2>4
<1>4. CASE RegisterWrites(r)
  <2> DEFINE new == [old EXCEPT !.at = "file", !.left = Tail(@)]
  <2>1. old.at = "write" /\ old.left # <<>> /\ run' = [run EXCEPT ![r] = new]
    BY <1>4 DEF RegisterWrites
  <2>2. old.path \in Scripts /\ \A i \in 1..Len(old.left) : old.left[i] \in NamesOf(old.path)
    BY <2>1
  <2>3. Tail(old.left) \in Seq(Names) /\ \A i \in 1..Len(Tail(old.left)) : Tail(old.left)[i] \in NamesOf(old.path)
    BY <2>1, <2>2, RestOfNames DEF RunStates
  <2>4. /\ new \in RunStates /\ new.at = "file" /\ new.states = old.states /\ new.asked = old.asked
        /\ new.left = Tail(old.left) /\ new.path = old.path /\ new.cancelled = old.cancelled
    BY <2>1, <2>3 DEF RunStates
  <2> QED
    BY <2>1, <2>2, <2>3, <2>4
<1>5. CASE FileEnds(r)
  <2>1. CASE run[r].asked = {}
    <3>1. run[r].at = "file" /\ run' = [run EXCEPT ![r] = Over(r)]
      BY <1>5, <2>1 DEF FileEnds
    <3> QED
      BY <3>1, OverForm
  <2>2. CASE run[r].asked # {}
    <3> DEFINE new == [old EXCEPT !.at = "call"]
    <3>1. old.at = "file" /\ run' = [run EXCEPT ![r] = new]
      BY <1>5, <2>2 DEF FileEnds
    <3>2. /\ new \in RunStates /\ new.at = "call" /\ new.states = old.states /\ new.asked = old.asked
          /\ new.path = old.path /\ new.cancelled = old.cancelled
      BY <3>1 DEF RunStates
    <3> QED
      BY <3>1, <3>2
  <2> QED
    BY <2>1, <2>2
<1>6. CASE FileFails(r) \/ CallFunction(r)
  <2>1. run[r].at \in {"file", "call"} /\ run' = [run EXCEPT ![r] = Over(r)]
    BY <1>6 DEF FileFails, CallFunction
  <2> QED
    BY <2>1, OverForm
<1> QED
  BY <1>1, <1>2, <1>3, <1>4, <1>5, <1>6 DEF Advances

-----------------------------------------------------------------------------
\* The maps and the histories keep their types when a run advances.
LEMMA AdvanceTypes ==
  ASSUME Sound, NEW r \in Runs, Advances(r)
  PROVE  PluginsTypeOK'
<1> USE DEF Sound, PluginsTypeOK, admin, history, stays
<1>1. run \in [Runs -> RunStates] /\ run[r] \in RunStates /\ run' \in [Runs -> RunStates]
  <2>1. run \in [Runs -> RunStates]
    BY DEF RunStates
  <2>2. PICK new \in RunStates : run' = [run EXCEPT ![r] = new]
    BY AdvanceForm
  <2> QED
    BY <2>1, <2>2
<1>2. UNCHANGED <<unload, ended, copies, outlived, interrupted>>
  BY DEF Advances, ReadPath, InsertLState, RegisterChecks, RegisterWrites, FileEnds, FileFails, CallFunction
<1>3. made' \subseteq {"states", "commands"}
  BY DEF Advances, ReadPath, InsertLState, RegisterChecks, RegisterWrites, FileEnds, FileFails, CallFunction
<1>4. luaStates' \in [Owners -> [Paths -> SUBSET Runs]] /\ doubled' \subseteq Runs /\ slipped' \subseteq Runs
  <2>1. CASE InsertLState(r)
    <3>1. /\ luaStates' = [luaStates EXCEPT ![run[r].states][run[r].path] = {r}]
          /\ doubled' = doubled \union Company(r)
          /\ slipped' = slipped \union {q \in {r} : Slips(r)}
      BY <2>1 DEF InsertLState
    <3>2. run[r].states \in Owners /\ run[r].path \in Paths
      BY <1>1 DEF RunStates
    <3>3. Company(r) \subseteq Runs
      BY DEF Company, Entered, UnderWayOf
    <3> QED
      BY <3>1, <3>2, <3>3
  <2>2. CASE ~InsertLState(r)
    BY <2>2 DEF Advances, ReadPath, RegisterChecks, RegisterWrites, FileEnds, FileFails, CallFunction
  <2> QED
    BY <2>1, <2>2
<1>5. luaCommands' \in [Owners -> [Names -> SUBSET Scripts]]
  <2>1. CASE RegisterWrites(r)
    <3>1. luaCommands' = [luaCommands EXCEPT ![run[r].commands][Head(run[r].left)] = {run[r].path}]
      BY <2>1 DEF RegisterWrites
    <3>2. run[r].commands \in Owners /\ run[r].path \in Scripts /\ Head(run[r].left) \in Names
      BY <1>1, <2>1 DEF RegisterWrites, AllSound, LeftSound, RunStates
    <3> QED
      BY <3>1, <3>2
  <2>2. CASE ~RegisterWrites(r)
    BY <2>2 DEF Advances, ReadPath, InsertLState, RegisterChecks, FileEnds, FileFails, CallFunction
  <2> QED
    BY <2>1, <2>2
<1>6. mixed' \subseteq Runs /\ withdrawn' \subseteq Scripts
  BY DEF Advances, ReadPath, InsertLState, RegisterChecks, RegisterWrites, FileEnds, FileFails, CallFunction
<1>7. raced' \subseteq Names
  <2>1. CASE RegisterChecks(r)
    <3>1. Head(run[r].left) \in Names
      BY <1>1, <2>1 DEF RegisterChecks, RunStates
    <3> QED
      BY <2>1, <3>1 DEF RegisterChecks
  <2>2. CASE ~RegisterChecks(r)
    BY <2>2 DEF Advances, ReadPath, InsertLState, RegisterWrites, FileEnds, FileFails, CallFunction
  <2> QED
    BY <2>1, <2>2
<1> QED
  BY <1>1, <1>2, <1>3, <1>4, <1>5, <1>6, <1>7 DEF RunStates

LEMMA AdvanceSound ==
  ASSUME Sound, NEW r \in Runs, Advances(r)
  PROVE  Sound'
<1>1. PICK new \in RunStates :
        /\ run' = [run EXCEPT ![r] = new]
        /\ new.at = "write" => new.left # <<>>
        /\ new.at \in {"file", "write"} /\ new.left # <<>> =>
             new.path \in Scripts /\ \A i \in 1..Len(new.left) : new.left[i] \in NamesOf(new.path)
  BY AdvanceForm
<1>2. run \in [Runs -> RunStates]
  BY DEF Sound, PluginsTypeOK, RunStates
<1>3. ASSUME NEW q \in Runs PROVE LeftSound(q)'
  BY <1>1, <1>2 DEF Sound, AllSound, LeftSound, NamesOf
<1> QED
  BY <1>3, AdvanceTypes DEF Sound, AllSound

LEMMA StartSound ==
  ASSUME Sound, NEW r \in Runs, Starts(r)
  PROVE  Sound'
<1>1. PICK new \in RunStates :
        /\ Fresh(new)
        /\ run' = [run EXCEPT ![r] = new]
        /\ withdrawn' = withdrawn \ {new.path}
        /\ UNCHANGED <<luaStates, luaCommands, made, copies, admin, mixed, doubled, stays, interrupted, raced>>
  BY StartForm
<1>2. run \in [Runs -> RunStates]
  BY DEF Sound, PluginsTypeOK, RunStates
<1>3. ASSUME NEW q \in Runs PROVE LeftSound(q)'
  BY <1>1, <1>2 DEF Sound, AllSound, LeftSound, NamesOf, Fresh
<1>4. PluginsTypeOK'
  <2>1. run' \in [Runs -> RunStates]
    BY <1>1, <1>2
  <2> QED
    BY <1>1, <2>1 DEF Sound, PluginsTypeOK, RunStates, admin, stays
<1> QED
  BY <1>3, <1>4 DEF Sound, AllSound

LEMMA AllSoundStays ==
  ASSUME AllSound, UNCHANGED run
  PROVE  AllSound'
BY DEF AllSound, LeftSound, NamesOf

LEMMA UnloadCommandSound ==
  ASSUME Sound, NEW u \in Unloads, NEW s \in Scripts, UnloadCommand(u, s)
  PROVE  Sound'
<1>1. /\ unload' = [unload EXCEPT ![u] = [at |-> "look", of |-> s]]
      /\ withdrawn' = withdrawn \union {q \in {s} : UnderWayOf(s) = {}}
      /\ UNCHANGED <<luaStates, made, copies, run, ended, mixed, doubled, slipped, outlived, raced>>
  BY DEF UnloadCommand, UnloadBegins, stays
<1>2. luaCommands' \in [Owners -> [Names -> SUBSET Scripts]]
  BY DEF UnloadCommand, Sound, PluginsTypeOK, Owners
<1>3. interrupted' \subseteq Runs
  BY DEF UnloadCommand, Sound, PluginsTypeOK
<1>4. withdrawn' \subseteq Scripts
  BY <1>1 DEF Sound, PluginsTypeOK
<1>5. unload' \in [Unloads -> [at : {"unused", "look", "cancel", "delete", "over"}, of : Paths]]
  BY <1>1 DEF Sound, PluginsTypeOK, Paths
<1> QED
  BY <1>1, <1>2, <1>3, <1>4, <1>5, AllSoundStays DEF Sound, PluginsTypeOK

\* A cancelled run keeps all but the mark.
LEMMA CancelForm ==
  ASSUME Sound, NEW u \in Unloads, UnloadCancel(u), NEW q \in Runs
  PROVE  /\ run'[q] \in RunStates
         /\ run'[q].at = run[q].at /\ run'[q].path = run[q].path /\ run'[q].states = run[q].states
         /\ run'[q].commands = run[q].commands /\ run'[q].asked = run[q].asked /\ run'[q].left = run[q].left
         /\ run[q].cancelled => run'[q].cancelled
         /\ q \in luaStates[Config][unload[u].of] /\ run[q].at # "over" => run'[q].cancelled
<1> DEFINE b == run[q].cancelled \/ (q \in luaStates[Config][unload[u].of] /\ run[q].at # "over")
<1>1. run'[q] = [run[q] EXCEPT !.cancelled = b]
  BY Zenon DEF UnloadCancel
<1>2. run[q] \in RunStates /\ b \in BOOLEAN
  BY DEF Sound, PluginsTypeOK, RunStates
<1>3. run[q].cancelled => b
  OBVIOUS
<1>4. q \in luaStates[Config][unload[u].of] /\ run[q].at # "over" => b
  OBVIOUS
<1> HIDE DEF b
<1> QED
  BY <1>1, <1>2, <1>3, <1>4 DEF RunStates

LEMMA UnloadEndsTypes ==
  ASSUME Sound, NEW u \in Unloads, UnloadEnds(u)
  PROVE  /\ unload' \in [Unloads -> [at : {"unused", "look", "cancel", "delete", "over"}, of : Paths]]
         /\ outlived' \subseteq [of : Runs, entered : BOOLEAN]
<1>1. Live(unload[u].of) \subseteq Runs
  BY DEF Live, Entered, Coming, UnderWayOf
<1>2. unload' = [unload EXCEPT ![u] = [at |-> "over", of |-> NoPath]]
  BY DEF UnloadEnds
<1>3. unload' \in [Unloads -> [at : {"unused", "look", "cancel", "delete", "over"}, of : Paths]]
  BY <1>2 DEF Sound, PluginsTypeOK, Paths
<1>4. ASSUME NEW o \in outlived' PROVE o \in [of : Runs, entered : BOOLEAN]
  <2>1. CASE o \in outlived
    BY <2>1 DEF Sound, PluginsTypeOK
  <2>2. CASE o \notin outlived
    <3>1. o \in {[of |-> r, entered |-> run[r].at \notin {"path", "insert"}] : r \in Live(unload[u].of)}
      BY <1>4, <2>2 DEF UnloadEnds
    <3>2. PICK r \in Live(unload[u].of) : o = [of |-> r, entered |-> run[r].at \notin {"path", "insert"}]
      BY <3>1
    <3>3. PICK b \in BOOLEAN : b = (run[r].at \notin {"path", "insert"})
      OBVIOUS
    <3> QED
      BY <1>1, <3>2, <3>3
  <2> QED
    BY <2>1, <2>2
<1> QED
  BY <1>3, <1>4

\* The steps of deleteLstate.
Deletes(u) == UnloadLook(u) \/ UnloadCancel(u) \/ UnloadDelete(u)

LEMMA DeletesSound ==
  ASSUME Sound, NEW u \in Unloads, Deletes(u)
  PROVE  Sound'
<1>1. CASE UnloadLook(u)
  <2>1. /\ unload' \in [Unloads -> [at : {"unused", "look", "cancel", "delete", "over"}, of : Paths]]
        /\ outlived' \subseteq [of : Runs, entered : BOOLEAN]
    <3>1. CASE UnloadEnds(u)
      BY <3>1, UnloadEndsTypes
    <3>2. CASE /\ unload' = [unload EXCEPT ![u].at = IF luaStates[Config][unload[u].of] = {} THEN "delete" ELSE "cancel"]
               /\ UNCHANGED outlived
      <4>1. PICK at \in {"delete", "cancel"} : unload' = [unload EXCEPT ![u].at = at]
        BY <3>2
      <4> QED
        BY <3>2, <4>1 DEF Sound, PluginsTypeOK
    <3> QED
      BY <1>1, <3>1, <3>2 DEF UnloadLook
  <2>2. UNCHANGED <<luaStates, luaCommands, made, copies, run, ended, mixed, doubled, slipped, withdrawn, interrupted, raced>>
    BY <1>1 DEF UnloadLook
  <2> QED
    BY <2>1, <2>2, AllSoundStays DEF Sound, PluginsTypeOK
<1>2. CASE UnloadCancel(u)
  <2>1. run' \in [Runs -> RunStates]
    <3>1. run' = [r \in Runs |-> [run[r] EXCEPT !.cancelled = @ \/ (r \in luaStates[Config][unload[u].of] /\ run[r].at # "over")]]
      BY <1>2 DEF UnloadCancel
    <3>2. \A q \in Runs : run'[q] \in RunStates
      BY <1>2, CancelForm
    <3> QED
      BY <3>1, <3>2
  <2>2. AllSound'
    BY <1>2, CancelForm DEF Sound, AllSound, LeftSound, NamesOf
  <2>3. /\ unload' \in [Unloads -> [at : {"unused", "look", "cancel", "delete", "over"}, of : Paths]]
        /\ ended' \in BOOLEAN
    BY <1>2 DEF UnloadCancel, Sound, PluginsTypeOK
  <2> QED
    <3>1. UNCHANGED <<luaStates, luaCommands, made, copies, history>>
      BY <1>2 DEF UnloadCancel
    <3> QED
      BY <2>1, <2>2, <2>3, <3>1 DEF Sound, PluginsTypeOK, RunStates, history
<1>3. CASE UnloadDelete(u)
  <2>1. luaStates' \in [Owners -> [Paths -> SUBSET Runs]]
    BY <1>3 DEF UnloadDelete, Sound, PluginsTypeOK
  <2> QED
    <3>1. UNCHANGED <<luaCommands, made, copies, run, ended, mixed, doubled, slipped, withdrawn, interrupted, raced>>
      BY <1>3 DEF UnloadDelete
    <3>2. UnloadEnds(u)
      BY <1>3 DEF UnloadDelete
    <3> QED
      BY <2>1, <3>1, <3>2, UnloadEndsTypes, AllSoundStays DEF Sound, PluginsTypeOK
<1> QED
  BY <1>1, <1>2, <1>3 DEF Deletes

-----------------------------------------------------------------------------
\* The steps of the whole, as the lemmas split them.
LEMMA StepForm ==
  ASSUME [PluginsNext]_pluginVars
  PROVE  \/ \E r \in Runs : Starts(r)
         \/ \E r \in Runs : Advances(r)
         \/ \E u \in Unloads, s \in Scripts : UnloadCommand(u, s)
         \/ \E u \in Unloads : Deletes(u)
         \/ UNCHANGED <<luaStates, luaCommands, made, run, unload, history>>
BY DEF PluginsNext, Starts, Advances, Deletes, CopyConfig, MapsCollide, pluginVars, history, admin

LEMMA SoundStays ==
  ASSUME Sound, [PluginsNext]_pluginVars
  PROVE  Sound'
<1>1. CASE \E t \in Triggered : CopyConfig(t)
  <2>1. PICK t \in Triggered : CopyConfig(t)
    BY <1>1
  <2>2. copies' \in [Triggered -> SUBSET [states : Owners, commands : Owners]]
    <3> DEFINE copied == {[states |-> IF "states" \in made THEN Config ELSE t,
                          commands |-> IF "commands" \in made THEN Config ELSE t]}
    <3>1. copied \subseteq [states : Owners, commands : Owners]
      BY DEF Owners
    <3>2. copies' = [copies EXCEPT ![t] = copied]
      BY <2>1 DEF CopyConfig
    <3> QED
      BY <3>1, <3>2 DEF Sound, PluginsTypeOK
  <2>3. UNCHANGED <<luaStates, luaCommands, made, run, admin, history>>
    BY <2>1 DEF CopyConfig
  <2> QED
    BY <2>2, <2>3 DEF Sound, PluginsTypeOK, admin, history, AllSound, LeftSound, NamesOf
<1>2. CASE MapsCollide
  BY <1>2 DEF MapsCollide, Sound, PluginsTypeOK, history, AllSound, LeftSound, NamesOf
<1>3. CASE UNCHANGED pluginVars
  BY <1>3 DEF pluginVars, Sound, PluginsTypeOK, AllSound, LeftSound, NamesOf
<1>4. CASE \/ \E r \in Runs : Starts(r) \/ Advances(r)
           \/ \E u \in Unloads, s \in Scripts : UnloadCommand(u, s)
           \/ \E u \in Unloads : Deletes(u)
  BY <1>4, StartSound, AdvanceSound, UnloadCommandSound, DeletesSound
<1> QED
  BY <1>1, <1>2, <1>3, <1>4 DEF PluginsNext, Starts, Advances, Deletes

LEMMA SoundInitially == PluginsInit => Sound
<1> SUFFICES ASSUME PluginsInit PROVE Sound
  OBVIOUS
<1> USE DEF PluginsInit, Owners, Paths
<1>1. \A r \in Runs : run[r] \in RunStates /\ run[r].at = "unused"
  BY DEF A, RunStates
<1>2. run \in [Runs -> RunStates]
  BY <1>1
<1>3. AllSound
  BY <1>1 DEF AllSound, LeftSound
<1> QED
  BY <1>2, <1>3 DEF Sound, PluginsTypeOK, RunStates

\* The maps, the runs and the histories keep their types: what is registered is a
\* script's, and never the empty path of a command that is gone.
THEOREM PluginsTypeCorrect == PluginsSpec => []PluginsTypeOK
<1>1. Sound => PluginsTypeOK
  BY DEF Sound
<1> QED
  BY <1>1, SoundInitially, SoundStays, PTL DEF PluginsSpec
-----------------------------------------------------------------------------
\* The runs that an unload may leave although they had entered LuaStates.
Excused(r) == r \in slipped \/ r \in doubled \/ run[r].states # Config

\* LuaStates knows each other run that has entered it.
Known(p, r) == Excused(r) \/ luaStates[Config][p] = {r}

Tracked == \A p \in Paths : \A r \in Entered(p) : Known(p, r)

\* An unload that is about to delete has cancelled all it had to: the entry that it
\* deletes is of a run that has slipped in, or of one that is over.
Parted ==
  \A u \in Unloads : unload[u].at = "delete" => \A r \in Entered(unload[u].of) : Excused(r)

\* The map is there once a run of the configuration has entered it.
Going == {"file", "write", "call"}
MapMade == \A r \in Runs : run[r].at \in Going /\ run[r].states = Config => "states" \in made

\* A run that outlived an unload is not taken for another.
OutlivedUsed == \A o \in outlived : run[o.of].at # "unused"

StopInv == Tracked /\ Parted /\ MapMade /\ UnloadStops /\ OutlivedUsed

LEMMA EnteredForm ==
  ASSUME Sound, NEW p
  PROVE  Entered(p) = {r \in Runs : run[r].at \in Going /\ run[r].path = p /\ ~run[r].cancelled}
<1>1. \A r \in Runs : run[r].at \in {"unused", "path", "insert", "file", "write", "call", "over"}
  BY DEF Sound, PluginsTypeOK
<1> QED
  BY <1>1 DEF Entered, UnderWayOf, Going

LEMMA EnteredNext ==
  ASSUME Sound', NEW p
  PROVE  Entered(p)' = {r \in Runs : run'[r].at \in Going /\ run'[r].path = p /\ ~run'[r].cancelled}
<1>1. \A r \in Runs : run'[r].at \in {"unused", "path", "insert", "file", "write", "call", "over"}
  BY DEF Sound, PluginsTypeOK
<1> QED
  BY <1>1 DEF Entered, UnderWayOf, Going

LEMMA PartedNext ==
  ASSUME \A v \in Unloads : \A p :
           unload'[v].at = "delete" /\ unload'[v].of = p => \A r \in Entered(p)' : Excused(r)'
  PROVE  Parted'
BY DEF Parted, Entered, UnderWayOf

\* The histories only grow.
LEMMA ExcusedStays ==
  ASSUME NEW r \in Runs, Excused(r), run'[r].states = run[r].states,
         doubled \subseteq doubled', slipped \subseteq slipped'
  PROVE  Excused(r)'
BY DEF Excused

LEMMA StartStops ==
  ASSUME Sound, StopInv, NEW r \in Runs, Starts(r)
  PROVE  StopInv'
<1>1. PICK new \in RunStates :
        /\ Fresh(new)
        /\ run[r].at = "unused" /\ run' = [run EXCEPT ![r] = new]
        /\ UNCHANGED <<luaStates, made, unload, doubled, slipped, outlived>>
  BY StartForm DEF stays, admin
<1>2. run \in [Runs -> RunStates] /\ outlived \subseteq [of : Runs, entered : BOOLEAN]
  BY DEF Sound, PluginsTypeOK, RunStates
<1>3. run'[r] = new /\ new.at \in {"path", "insert"} /\ \A q \in Runs : q # r => run'[q] = run[q]
  BY <1>1, <1>2 DEF Fresh
<1>4. Sound'
  BY StartSound
<1>5. ASSUME NEW p, NEW q \in Entered(p)'
      PROVE  q \in Runs /\ q # r /\ q \in Entered(p)
  BY <1>3, <1>4, <1>5, EnteredForm, EnteredNext DEF Going
<1>6. Tracked' /\ Parted'
  BY <1>1, <1>3, <1>5 DEF StopInv, Tracked, Parted, Known, Excused
<1>7. MapMade'
  BY <1>1, <1>3 DEF StopInv, MapMade, Going
<1>8. \A o \in outlived : o.of \in Runs /\ o.of # r
  BY <1>1, <1>2 DEF StopInv, OutlivedUsed
<1>9. UnloadStops' /\ OutlivedUsed'
  BY <1>1, <1>3, <1>8 DEF StopInv, UnloadStops, OutlivedUsed
<1> QED
  BY <1>6, <1>7, <1>9 DEF StopInv

LEMMA AdvanceStops ==
  ASSUME Sound, StopInv, NEW r \in Runs, Advances(r)
  PROVE  StopInv'
<1>1. PICK new \in RunStates :
        /\ run' = [run EXCEPT ![r] = new]
        /\ run[r].at # "unused" /\ new.at # "unused" /\ new.at # "path"
        /\ new.states = run[r].states
        /\ new.at # "over" => new.cancelled = run[r].cancelled /\ (ReadPath(r) \/ new.path = run[r].path)
        /\ new.at = "insert" => ReadPath(r)
        /\ new.at \in {"file", "write", "call"} => InsertLState(r) \/ run[r].at \in {"file", "write", "call"}
  BY AdvanceForm
<1>2. run \in [Runs -> RunStates] /\ outlived \subseteq [of : Runs, entered : BOOLEAN]
  BY DEF Sound, PluginsTypeOK, RunStates
<1>3. run'[r] = new /\ \A q \in Runs : q # r => run'[q] = run[q]
  BY <1>1, <1>2
<1>4. UNCHANGED <<unload, outlived>> /\ doubled \subseteq doubled' /\ slipped \subseteq slipped' /\ made \subseteq made'
  BY DEF Advances, ReadPath, InsertLState, RegisterChecks, RegisterWrites, FileEnds, FileFails, CallFunction,
         history, stays, admin
<1>5. \A q \in Runs : run'[q].states = run[q].states
  BY <1>1, <1>3
<1>6. UnloadStops' /\ OutlivedUsed'
  <2>1. \A o \in outlived : o.of \in Runs
    BY <1>2
  <2>2. \A o \in outlived : run'[o.of].states = run[o.of].states
    BY <1>5, <2>1
  <2>3. \A o \in outlived : run'[o.of].at # "unused"
    BY <1>1, <1>3, <2>1 DEF StopInv, OutlivedUsed
  <2> QED
    BY <1>4, <2>2, <2>3 DEF StopInv, UnloadStops, OutlivedUsed
<1>7. Sound'
  BY AdvanceSound
<1>8. ASSUME NEW p, NEW q \in Entered(p)', q # r
      PROVE  q \in Runs /\ q \in Entered(p)
  BY <1>3, <1>7, <1>8, EnteredForm, EnteredNext
<1>9. CASE InsertLState(r)
  <2>1. /\ luaStates' = [luaStates EXCEPT ![run[r].states][run[r].path] = {r}]
        /\ doubled' = doubled \union Company(r)
        /\ slipped' = slipped \union {q \in {r} : Slips(r)}
        /\ made' = made \union {m \in {"states"} : run[r].states = Config}
        /\ run[r].at = "insert" /\ ~ReadPath(r)
    BY <1>9 DEF InsertLState, ReadPath
  <2>2. /\ luaStates \in [Owners -> [Paths -> SUBSET Runs]]
        /\ run[r].states \in Owners /\ run[r].path \in Paths /\ Config \in Owners
    BY <1>2 DEF Sound, PluginsTypeOK, RunStates, Owners
  <2>3. ASSUME NEW p \in Paths, NEW q \in Entered(p)', q # r
        PROVE  Known(p, q)'
    <3>1. q \in Runs /\ q \in Entered(p) /\ Known(p, q)
      BY <1>8, <2>3 DEF StopInv, Tracked
    <3>2. CASE Excused(q)
      BY <1>4, <1>5, <3>1, <3>2, ExcusedStays DEF Known
    <3>3. CASE ~Excused(q) /\ run[r].path = p /\ run[r].states = Config
      <4>1. q \in Company(r)
        BY <2>3, <3>1, <3>3 DEF Company, Excused
      <4> QED
        BY <2>1, <4>1 DEF Known, Excused
    <3>4. CASE ~Excused(q) /\ ~(run[r].path = p /\ run[r].states = Config)
      <4>1. luaStates'[Config][p] = luaStates[Config][p]
        BY <2>1, <2>2, <2>3, <3>4
      <4> QED
        BY <3>1, <3>4, <4>1 DEF Known
    <3> QED
      BY <3>2, <3>3, <3>4
  <2>4. ASSUME NEW p, r \in Entered(p)'
        PROVE  run[r].path = p
    <3>1. run'[r].at \in Going /\ run'[r].path = p
      BY <1>7, <2>4, EnteredNext
    <3> QED
      BY <1>1, <1>3, <2>1, <3>1 DEF Going
  <2>5. ASSUME NEW p \in Paths, r \in Entered(p)'
        PROVE  Known(p, r)'
    <3>1. run[r].path = p
      BY <2>4, <2>5
    <3>2. CASE run[r].states = Config
      <4>1. luaStates'[Config][p] = {r}
        BY <2>1, <2>2, <3>1, <3>2
      <4> QED
        BY <4>1 DEF Known
    <3>3. CASE run[r].states # Config
      BY <1>5, <3>3 DEF Known, Excused
    <3> QED
      BY <3>2, <3>3
  <2>6. Tracked'
    BY <2>3, <2>5 DEF Tracked
  <2>7. ASSUME NEW u \in Unloads, NEW p, unload'[u].at = "delete", unload'[u].of = p, NEW q \in Entered(p)'
        PROVE  Excused(q)'
    <3>1. CASE q # r
      <4>1. q \in Runs /\ Excused(q)
        BY <1>4, <1>8, <2>7, <3>1 DEF StopInv, Parted
      <4> QED
        BY <1>4, <1>5, <4>1, ExcusedStays
    <3>2. CASE q = r
      <4>1. run[r].path = unload[u].of
        BY <1>4, <2>4, <2>7, <3>2
      <4>2. Slips(r)
        BY <1>4, <2>7, <4>1 DEF Slips
      <4> QED
        BY <2>1, <3>2, <4>2 DEF Excused
    <3> QED
      BY <3>1, <3>2
  <2>8. Parted'
    BY <2>7, PartedNext
  <2>9. MapMade'
    BY <1>3, <1>5, <2>1 DEF StopInv, MapMade
  <2> QED
    BY <1>6, <2>6, <2>8, <2>9 DEF StopInv
<1>10. CASE ~InsertLState(r)
  <2>1. luaStates' = luaStates
    BY <1>10 DEF Advances, ReadPath, RegisterChecks, RegisterWrites, FileEnds, FileFails, CallFunction
  <2>2. run'[r].at \in Going => run[r].at \in Going /\ run'[r].path = run[r].path /\ run'[r].cancelled = run[r].cancelled
    BY <1>1, <1>3, <1>10 DEF Going, ReadPath
  <2>3. ASSUME NEW p, NEW q \in Entered(p)'
        PROVE  q \in Runs /\ q \in Entered(p)
    BY <1>3, <1>7, <2>2, <2>3, EnteredForm, EnteredNext
  <2>4. ASSUME NEW q \in Runs, Excused(q) PROVE Excused(q)'
    BY <1>4, <1>5, <2>4, ExcusedStays
  <2>5. Tracked'
    BY <2>1, <2>3, <2>4 DEF StopInv, Tracked, Known
  <2>6. Parted'
    BY <1>4, <2>3, <2>4 DEF StopInv, Parted
  <2>7. MapMade'
    BY <1>3, <1>4, <1>5, <2>2 DEF StopInv, MapMade
  <2> QED
    BY <1>6, <2>5, <2>6, <2>7 DEF StopInv
<1> QED
  BY <1>9, <1>10

\* What an unload leaves when it ends, provided that those that have entered are excused.
LEMMA EndStops ==
  ASSUME Sound, StopInv, NEW u \in Unloads, UnloadEnds(u), UNCHANGED <<run, doubled, slipped>>,
         \A r \in Entered(unload[u].of) : Excused(r)
  PROVE  /\ UnloadStops' /\ OutlivedUsed'
         /\ \A v \in Unloads : unload'[v].at = "delete" => v # u /\ unload'[v] = unload[v]
<1> DEFINE s == unload[u].of
<1>1. /\ unload' = [unload EXCEPT ![u] = [at |-> "over", of |-> NoPath]]
      /\ outlived' = outlived \union {[of |-> r, entered |-> run[r].at \notin {"path", "insert"}] : r \in Live(s)}
  BY DEF UnloadEnds
<1>2. ASSUME NEW o \in outlived' \ outlived
      PROVE  run[o.of].at # "unused" /\ (o.entered => Excused(o.of))
  <2>1. PICK r \in Live(s) : o = [of |-> r, entered |-> run[r].at \notin {"path", "insert"}]
    BY <1>1, <1>2
  <2>2. r \in Entered(s) \/ run[r].at \in {"path", "insert"}
    BY <2>1 DEF Live, Coming, UnderWayOf
  <2>3. run[r].at # "unused"
    BY <2>2 DEF Entered, UnderWayOf
  <2> QED
    BY <2>1, <2>2, <2>3
<1>3. UnloadStops' /\ OutlivedUsed'
  BY <1>2 DEF StopInv, UnloadStops, OutlivedUsed, Excused
<1>4. unload \in [Unloads -> [at : {"unused", "look", "cancel", "delete", "over"}, of : Paths]]
  BY DEF Sound, PluginsTypeOK
<1> QED
  BY <1>1, <1>3, <1>4

\* An unload cancels the run that the map knows, and leaves those that it may not know.
LEMMA DeletesStop ==
  ASSUME Sound, StopInv, NEW u \in Unloads, Deletes(u)
  PROVE  StopInv'
<1> DEFINE s == unload[u].of
<1>1. /\ unload \in [Unloads -> [at : {"unused", "look", "cancel", "delete", "over"}, of : Paths]]
      /\ luaStates \in [Owners -> [Paths -> SUBSET Runs]] /\ Config \in Owners
      /\ outlived \subseteq [of : Runs, entered : BOOLEAN] /\ s \in Paths
  BY DEF Sound, PluginsTypeOK, Owners
<1>2. CASE UnloadLook(u)
  <2>1. UNCHANGED <<luaStates, made, run, doubled, slipped>> /\ unload[u].at = "look"
    BY <1>2 DEF UnloadLook
  <2>2. Tracked' /\ MapMade'
    BY <2>1 DEF StopInv, Tracked, Known, Excused, Entered, UnderWayOf, MapMade
  <2>3. CASE "states" \notin made /\ UnloadEnds(u)
    <3>1. \A r \in Entered(s) : Excused(r)
      BY <2>3, EnteredForm DEF StopInv, MapMade, Excused
    <3>2. /\ UnloadStops' /\ OutlivedUsed'
          /\ \A v \in Unloads : unload'[v].at = "delete" => v # u /\ unload'[v] = unload[v]
      BY <2>1, <2>3, <3>1, EndStops
    <3>3. Parted'
      BY <2>1, <3>2 DEF StopInv, Parted, Excused, Entered, UnderWayOf
    <3> QED
      BY <2>2, <3>2, <3>3 DEF StopInv
  <2>4. CASE /\ unload' = [unload EXCEPT ![u].at = IF luaStates[Config][unload[u].of] = {} THEN "delete" ELSE "cancel"]
             /\ UNCHANGED outlived
    <3>1. UnloadStops' /\ OutlivedUsed'
      BY <2>1, <2>4 DEF StopInv, UnloadStops, OutlivedUsed
    <3>2. ASSUME NEW v \in Unloads, NEW p, unload'[v].at = "delete", unload'[v].of = p, NEW r \in Entered(p)'
          PROVE  Excused(r)'
      <4> DEFINE at == IF luaStates[Config][s] = {} THEN "delete" ELSE "cancel"
      <4>0. unload' = [unload EXCEPT ![u].at = at] /\ (at = "delete" => luaStates[Config][s] = {})
        BY <2>4
      <4> HIDE DEF at
      <4>1. unload[v].of = p /\ r \in Entered(p)
        <5>1. unload[v].of = p
          BY <1>1, <4>0, <3>2
        <5>2. Entered(p)' = Entered(p)
          BY <2>1 DEF Entered, UnderWayOf
        <5> QED
          BY <3>2, <5>1, <5>2
      <4>9. Excused(r) => Excused(r)'
        BY <2>1 DEF Excused
      <4>2. CASE v # u
        <5>1. unload[v].at = "delete"
          BY <1>1, <4>0, <3>2, <4>2
        <5> QED
          BY <4>1, <4>9, <5>1 DEF StopInv, Parted
      <4>3. CASE v = u
        <5>1. luaStates[Config][s] = {}
          BY <1>1, <4>0, <3>2, <4>3
        <5>2. Known(s, r)
          BY <1>1, <4>1, <4>3 DEF StopInv, Tracked
        <5> QED
          BY <4>9, <5>1, <5>2 DEF Known
      <4> QED
        BY <4>2, <4>3
    <3>3. Parted'
      BY <3>2, PartedNext
    <3> QED
      BY <2>2, <3>1, <3>3 DEF StopInv
  <2> QED
    BY <1>2, <2>3, <2>4 DEF UnloadLook
<1>3. CASE UnloadCancel(u)
  <2>1. /\ UNCHANGED <<luaStates, made, doubled, slipped, outlived>>
        /\ unload' = [unload EXCEPT ![u].at = "delete"]
    BY <1>3 DEF UnloadCancel, history
  <2>2. Sound'
    BY <1>3, DeletesSound DEF Deletes
  <2>3. ASSUME NEW p, NEW r \in Entered(p)'
        PROVE  /\ r \in Runs /\ r \in Entered(p) /\ run'[r].states = run[r].states
               /\ p = s => r \notin luaStates[Config][s]
    <3>1. r \in Runs /\ run'[r].at \in Going /\ run'[r].path = p /\ ~run'[r].cancelled
      BY <2>2, <2>3, EnteredNext
    <3>2. /\ run'[r].at = run[r].at /\ run'[r].path = run[r].path /\ run'[r].states = run[r].states
          /\ run[r].cancelled => run'[r].cancelled
          /\ r \in luaStates[Config][s] /\ run[r].at # "over" => run'[r].cancelled
      BY <1>3, <3>1, CancelForm
    <3>3. ~run[r].cancelled /\ run[r].at \in Going
      BY <3>1, <3>2
    <3>4. run[r].at # "over"
      BY <3>3 DEF Going
    <3>5. r \in Entered(p)
      BY <3>1, <3>2, <3>3, EnteredForm
    <3> QED
      BY <3>1, <3>2, <3>4, <3>5
  <2>4. Tracked'
    BY <2>1, <2>3 DEF StopInv, Tracked, Known, Excused
  <2>5. ASSUME NEW v \in Unloads, NEW p, unload'[v].at = "delete", unload'[v].of = p, NEW r \in Entered(p)'
        PROVE  Excused(r)'
    <3>1. unload[v].of = p
      BY <1>1, <2>1, <2>5
    <3>2. r \in Runs /\ r \in Entered(p) /\ run'[r].states = run[r].states
      BY <2>3, <2>5, <3>1
    <3>3. CASE v # u
      <4>1. unload[v].at = "delete"
        BY <1>1, <2>1, <2>5, <3>3
      <4> QED
        <5>1. Excused(r)
          BY <3>1, <3>2, <4>1 DEF StopInv, Parted
        <5> QED
          BY <2>1, <3>2, <5>1 DEF Excused
    <3>4. CASE v = u
      <4>1. r \notin luaStates[Config][s]
        BY <2>3, <2>5, <3>1, <3>4
      <4>2. Known(s, r)
        BY <1>1, <3>1, <3>2, <3>4 DEF StopInv, Tracked
      <4> QED
        BY <2>1, <3>2, <4>1, <4>2 DEF Known, Excused
    <3> QED
      BY <3>3, <3>4
  <2>6. MapMade' /\ UnloadStops' /\ OutlivedUsed'
    <3>1. \A r \in Runs : run'[r].at = run[r].at /\ run'[r].states = run[r].states
      BY <1>3, CancelForm
    <3>2. \A o \in outlived : o.of \in Runs
      BY <1>1
    <3> QED
      <4>1. MapMade'
        BY <2>1, <3>1 DEF StopInv, MapMade
      <4>2. UnloadStops'
        BY <2>1, <3>1, <3>2 DEF StopInv, UnloadStops
      <4>3. OutlivedUsed'
        BY <2>1, <3>1, <3>2 DEF StopInv, OutlivedUsed
      <4> QED
        BY <4>1, <4>2, <4>3
  <2> QED
    <3>1. Parted'
      BY <2>5, PartedNext
    <3> QED
      BY <2>4, <2>6, <3>1 DEF StopInv
<1>4. CASE UnloadDelete(u)
  <2>1. /\ UNCHANGED <<made, run, doubled, slipped>> /\ unload[u].at = "delete"
        /\ luaStates' = [luaStates EXCEPT ![Config][s] = {}] /\ UnloadEnds(u)
    BY <1>4 DEF UnloadDelete
  <2>2. \A r \in Entered(s) : Excused(r)
    BY <2>1 DEF StopInv, Parted
  <2>3. /\ UnloadStops' /\ OutlivedUsed'
        /\ \A v \in Unloads : unload'[v].at = "delete" => v # u /\ unload'[v] = unload[v]
    BY <2>1, <2>2, EndStops
  <2>4. ASSUME NEW p \in Paths, NEW r \in Entered(p)
        PROVE  Excused(r) \/ luaStates'[Config][p] = {r}
    <3>1. CASE p = s
      BY <2>2, <2>4, <3>1
    <3>2. CASE p # s
      <4>1. luaStates'[Config][p] = luaStates[Config][p]
        BY <1>1, <2>1, <3>2
      <4> QED
        BY <2>4, <4>1 DEF StopInv, Tracked, Known
    <3> QED
      BY <3>1, <3>2
  <2>5. Tracked' /\ MapMade'
    BY <2>1, <2>4 DEF StopInv, Tracked, Known, Excused, Entered, UnderWayOf, MapMade
  <2>6. Parted'
    BY <2>1, <2>3 DEF StopInv, Parted, Excused, Entered, UnderWayOf
  <2> QED
    BY <2>3, <2>5, <2>6 DEF StopInv
<1> QED
  BY <1>2, <1>3, <1>4 DEF Deletes

LEMMA CommandStops ==
  ASSUME Sound, StopInv, NEW u \in Unloads, NEW s \in Scripts, UnloadCommand(u, s)
  PROVE  StopInv'
<1>1. /\ UNCHANGED <<luaStates, made, run, doubled, slipped, outlived>>
      /\ unload' = [unload EXCEPT ![u] = [at |-> "look", of |-> s]]
  BY DEF UnloadCommand, UnloadBegins, stays
<1>2. unload \in [Unloads -> [at : {"unused", "look", "cancel", "delete", "over"}, of : Paths]]
  BY DEF Sound, PluginsTypeOK
<1>3. \A v \in Unloads : unload'[v].at = "delete" => unload'[v] = unload[v]
  BY <1>1, <1>2
<1> QED
  BY <1>1, <1>3 DEF StopInv, Tracked, Known, Excused, Parted, MapMade, UnloadStops, OutlivedUsed, Entered, UnderWayOf

LEMMA StopsStay ==
  ASSUME Sound, StopInv, [PluginsNext]_pluginVars
  PROVE  StopInv'
<1>1. CASE UNCHANGED <<luaStates, luaCommands, made, run, unload, history>>
  BY <1>1 DEF history, StopInv, Tracked, Known, Excused, Parted, MapMade, UnloadStops, OutlivedUsed, Entered, UnderWayOf
<1> QED
  BY <1>1, StepForm, StartStops, AdvanceStops, CommandStops, DeletesStop

\* When an unload ends, no run of its script goes on, whatever the interleaving of any
\* number of runs and unloads, but those that had not yet entered LuaStates, those that
\* entered between a Cancel and its delete, those that were under the path at once with
\* another, and those of copies made before the map.
THEOREM UnloadsStop == PluginsSpec => []UnloadStops
<1>1. PluginsInit => StopInv
  BY DEF PluginsInit, StopInv, Tracked, Parted, MapMade, Going, Entered, UnderWayOf, UnloadStops, OutlivedUsed, A
<1>2. StopInv => UnloadStops
  BY DEF StopInv
<1> QED
  BY <1>1, <1>2, SoundInitially, SoundStays, StopsStay, PTL DEF PluginsSpec

-----------------------------------------------------------------------------
Writing(r, c) == run[r].at = "write" /\ Head(run[r].left) = c

\* While no two have raced for a name, one run at most is about to write it, and
\* only while the configuration has no such command.
WritersSound ==
  \A c \in Names \ raced :
    /\ \A q, r \in Runs : Writing(q, c) /\ Writing(r, c) => q = r
    /\ \A r \in Runs : Writing(r, c) /\ run[r].commands = Config => luaCommands[Config][c] = {}

\* A run that was asked for a command has the path that the command has, unless the
\* command was unloaded meanwhile or is one that two have raced for.
AskedSound ==
  \A r \in Runs : \A c \in run[r].asked :
    /\ run[r].asked = {c}
    /\ c \notin raced /\ r \notin interrupted =>
         /\ run[r].at = "path" => luaCommands[Config][c] # {}
         /\ run[r].at \in {"insert", "file", "write", "call"} => luaCommands[Config][c] = {run[r].path}

\* A command is one script's, and one that the script registers.
OwnersSound ==
  \A c \in Names : luaCommands[Config][c] # {} =>
    \E s \in Scripts : luaCommands[Config][c] = {s} /\ c \in NamesOf(s)

MixedUsed == \A r \in mixed : run[r].at # "unused"

CallInv == WritersSound /\ AskedSound /\ OwnersSound /\ MixedUsed /\ CallsItsScript

LEMMA StartCalls ==
  ASSUME Sound, CallInv, NEW r \in Runs, Starts(r)
  PROVE  CallInv'
<1>1. PICK new \in RunStates :
        /\ Fresh(new)
        /\ run[r].at = "unused" /\ run' = [run EXCEPT ![r] = new]
        /\ UNCHANGED <<luaCommands, mixed, raced, interrupted>>
  BY StartForm
<1>2. run \in [Runs -> RunStates] /\ mixed \subseteq Runs
  BY DEF Sound, PluginsTypeOK, RunStates
<1>3. run'[r] = new /\ \A q \in Runs : q # r => run'[q] = run[q]
  BY <1>1, <1>2
<1>4. \A q \in Runs, c \in Names : Writing(q, c)' => Writing(q, c) /\ run'[q] = run[q]
  BY <1>1, <1>3 DEF Writing, Fresh
<1>5. WritersSound'
  BY <1>1, <1>4 DEF CallInv, WritersSound
<1>6. AskedSound'
  <2>1. ASSUME NEW c \in new.asked
        PROVE  /\ new.asked = {c} /\ new.at = "path" /\ luaCommands[Config][c] # {}
    BY <1>1, <2>1 DEF Fresh
  <2> QED
    BY <1>1, <1>3, <2>1 DEF CallInv, AskedSound
<1>7. OwnersSound' /\ MixedUsed' /\ CallsItsScript'
  BY <1>1, <1>2, <1>3 DEF CallInv, OwnersSound, NamesOf, MixedUsed, CallsItsScript
<1> QED
  BY <1>5, <1>6, <1>7 DEF CallInv

LEMMA WriteCalls ==
  ASSUME Sound, CallInv, NEW r \in Runs, RegisterWrites(r)
  PROVE  /\ OwnersSound'
         /\ \A c \in Names \ raced :
              /\ ~Writing(r, c) => luaCommands'[Config][c] = luaCommands[Config][c]
              /\ Writing(r, c) /\ run[r].commands # Config => luaCommands'[Config][c] = luaCommands[Config][c]
              /\ Writing(r, c) /\ run[r].commands = Config => luaCommands[Config][c] = {}
<1> DEFINE c0 == Head(run[r].left)
<1>1. /\ run[r].at = "write"
      /\ luaCommands' = [luaCommands EXCEPT ![run[r].commands][c0] = {run[r].path}]
  BY DEF RegisterWrites
<1>2. /\ run[r] \in RunStates /\ run[r].left # <<>> /\ run[r].path \in Scripts
      /\ \A i \in 1..Len(run[r].left) : run[r].left[i] \in NamesOf(run[r].path)
  BY <1>1 DEF Sound, AllSound, LeftSound, PluginsTypeOK, RunStates
<1>3. c0 \in Names /\ c0 \in NamesOf(run[r].path)
  BY <1>2, RestOfNames DEF RunStates
<1>4. luaCommands \in [Owners -> [Names -> SUBSET Scripts]] /\ Config \in Owners /\ run[r].commands \in Owners
  BY <1>2 DEF Sound, PluginsTypeOK, RunStates, Owners
<1>5. ASSUME NEW c \in Names
      PROVE  /\ c # c0 \/ run[r].commands # Config => luaCommands'[Config][c] = luaCommands[Config][c]
             /\ c = c0 /\ run[r].commands = Config => luaCommands'[Config][c] = {run[r].path}
  BY <1>1, <1>3, <1>4
<1>6. OwnersSound'
  BY <1>2, <1>3, <1>5 DEF CallInv, OwnersSound, NamesOf
<1>7. \A c \in Names : Writing(r, c) <=> c = c0
  BY <1>1 DEF Writing
<1>8. \A c \in Names \ raced : Writing(r, c) /\ run[r].commands = Config => luaCommands[Config][c] = {}
  BY DEF CallInv, WritersSound
<1> QED
  BY <1>5, <1>6, <1>7, <1>8

LEMMA CheckCalls ==
  ASSUME Sound, CallInv, NEW r \in Runs, RegisterChecks(r), Registered(r) = {},
         NEW c \in Names \ raced', Head(run[r].left) = c
  PROVE  /\ \A q \in Runs : ~Writing(q, c)
         /\ run[r].commands = Config => luaCommands[Config][c] = {}
<1>1. raced' = raced \union {d \in {Head(run[r].left)} :
        Registered(r) = {} /\ \E q \in Runs : run[q].at = "write" /\ Head(run[q].left) = d}
  BY DEF RegisterChecks
<1>2. \A q \in Runs : ~Writing(q, c)
  BY <1>1 DEF Writing
<1> QED
  BY <1>2 DEF Registered

LEMMA AdvanceWriters ==
  ASSUME Sound, CallInv, NEW r \in Runs, Advances(r)
  PROVE  WritersSound' /\ OwnersSound'
<1>1. PICK new \in RunStates :
        /\ run' = [run EXCEPT ![r] = new]
        /\ new.at = "write" => /\ RegisterChecks(r) /\ Registered(r) = {}
                              /\ new.left = run[r].left /\ new.commands = run[r].commands
  BY AdvanceForm
<1>2. run \in [Runs -> RunStates]
  BY DEF Sound, PluginsTypeOK, RunStates
<1>3. run'[r] = new /\ \A q \in Runs : q # r => run'[q] = run[q]
  BY <1>1, <1>2
<1>4. raced \subseteq raced'
  BY DEF Advances, ReadPath, InsertLState, RegisterChecks, RegisterWrites, FileEnds, FileFails, CallFunction, history
<1>5. CASE RegisterWrites(r)
  <2>1. new.at # "write" /\ raced' = raced
    BY <1>1, <1>5 DEF RegisterWrites, RegisterChecks, history
  <2>2. ASSUME NEW c \in Names \ raced, NEW q \in Runs, Writing(q, c)'
        PROVE  /\ q # r /\ Writing(q, c) /\ run'[q] = run[q]
               /\ luaCommands'[Config][c] = luaCommands[Config][c]
    <3>1. q # r /\ Writing(q, c) /\ run'[q] = run[q]
      BY <1>3, <2>1, <2>2 DEF Writing
    <3>2. ~Writing(r, c)
      BY <3>1 DEF CallInv, WritersSound
    <3> QED
      BY <1>5, <3>1, <3>2, WriteCalls
  <2>3. WritersSound'
    BY <2>1, <2>2 DEF CallInv, WritersSound
  <2> QED
    BY <1>5, <2>3, WriteCalls
<1>6. CASE ~RegisterWrites(r)
  <2>1. luaCommands' = luaCommands
    BY <1>6 DEF Advances, ReadPath, InsertLState, RegisterChecks, FileEnds, FileFails, CallFunction
  <2>2. ASSUME NEW c \in Names \ raced', NEW q \in Runs, Writing(q, c)', q # r
        PROVE  Writing(q, c) /\ run'[q] = run[q]
    BY <1>3, <2>2 DEF Writing
  <2>3. ASSUME NEW c \in Names \ raced', Writing(r, c)'
        PROVE  /\ \A q \in Runs : ~Writing(q, c)
               /\ run'[r].commands = Config => luaCommands[Config][c] = {}
    <3>1. /\ RegisterChecks(r) /\ Registered(r) = {} /\ Head(run[r].left) = c
          /\ run'[r].commands = run[r].commands
      BY <1>1, <1>3, <2>3 DEF Writing
    <3> QED
      BY <3>1, CheckCalls
  <2>4. WritersSound'
    <3> SUFFICES ASSUME NEW c \in Names \ raced'
                 PROVE  /\ \A p, q \in Runs : Writing(p, c)' /\ Writing(q, c)' => p = q
                        /\ \A q \in Runs : Writing(q, c)' /\ run'[q].commands = Config => luaCommands'[Config][c] = {}
      BY DEF WritersSound
    <3>1. c \in Names \ raced
      BY <1>4
    <3> QED
      BY <2>1, <2>2, <2>3, <3>1 DEF CallInv, WritersSound
  <2> QED
    BY <2>1, <2>4 DEF CallInv, OwnersSound, NamesOf
<1> QED
  BY <1>5, <1>6

LEMMA AdvanceAsked ==
  ASSUME Sound, CallInv, NEW r \in Runs, Advances(r)
  PROVE  AskedSound'
<1>1. PICK new \in RunStates :
        /\ run' = [run EXCEPT ![r] = new]
        /\ new.asked = run[r].asked /\ new.at # "path"
        /\ new.at # "over" => ReadPath(r) \/ new.path = run[r].path
        /\ new.at = "insert" => ReadPath(r)
        /\ new.at \in {"file", "write", "call"} => InsertLState(r) \/ run[r].at \in {"file", "write", "call"}
  BY AdvanceForm
<1>2. run \in [Runs -> RunStates]
  BY DEF Sound, PluginsTypeOK, RunStates
<1>3. run'[r] = new /\ \A q \in Runs : q # r => run'[q] = run[q]
  BY <1>1, <1>2
<1>4. raced \subseteq raced' /\ interrupted' = interrupted
  BY DEF Advances, ReadPath, InsertLState, RegisterChecks, RegisterWrites, FileEnds, FileFails, CallFunction, history
<1>5. \A q \in Runs : run[q].asked \subseteq Names
  BY <1>2 DEF RunStates
<1>6. ASSUME NEW c \in Names \ raced, luaCommands[Config][c] # {}
      PROVE  luaCommands'[Config][c] = luaCommands[Config][c]
  <2>1. CASE RegisterWrites(r)
    BY <1>6, <2>1, WriteCalls
  <2>2. CASE ~RegisterWrites(r)
    BY <2>2 DEF Advances, ReadPath, InsertLState, RegisterChecks, FileEnds, FileFails, CallFunction
  <2> QED
    BY <2>1, <2>2
<1> DEFINE Meets(c, state) ==
      /\ state.at = "path" => luaCommands[Config][c] # {}
      /\ state.at \in {"insert", "file", "write", "call"} => luaCommands[Config][c] = {state.path}
<1>7. ASSUME NEW q \in Runs, NEW c \in run[q].asked, c \notin raced, q \notin interrupted
      PROVE  Meets(c, run[q])
  BY <1>7 DEF CallInv, AskedSound
<1>8. ASSUME NEW c \in run[r].asked, c \notin raced, r \notin interrupted
      PROVE  Meets(c, new)
  <2>1. CASE ReadPath(r)
    <3>1. run[r].at = "path" /\ new.at = "insert"
      BY <1>2, <1>3, <2>1 DEF ReadPath, RunStates
    <3>2. c \in Names /\ luaCommands[Config][c] # {} /\ run[r].asked = {c}
      BY <1>5, <1>7, <1>8, <3>1 DEF CallInv, AskedSound
    <3>3. PICK s \in Scripts : luaCommands[Config][c] = {s}
      BY <3>2 DEF CallInv, OwnersSound
    <3>4. UNION {luaCommands[Config][d] : d \in run[r].asked} = {s}
      BY <3>2, <3>3
    <3> DEFINE found == UNION {luaCommands[Config][d] : d \in run[r].asked}
               p == IF found = {} THEN NoPath ELSE CHOOSE q \in found : TRUE
    <3>5. p = s
      BY <3>4
    <3>6. run' = [run EXCEPT ![r].at = "insert", ![r].path = p]
      BY <2>1, Zenon DEF ReadPath
    <3> HIDE DEF p
    <3>7. new.path = p
      BY <1>2, <1>3, <3>6 DEF RunStates
    <3> QED
      BY <3>1, <3>3, <3>5, <3>7
  <2>2. CASE ~ReadPath(r)
    <3>1. new.at \in {"insert", "file", "write", "call"} =>
            new.path = run[r].path /\ run[r].at \in {"insert", "file", "write", "call"}
      BY <1>1, <2>2 DEF InsertLState
    <3> QED
      BY <1>1, <1>7, <1>8, <3>1
  <2> QED
    BY <2>1, <2>2
<1>9. ASSUME NEW q \in Runs, NEW c \in run'[q].asked
      PROVE  /\ run'[q].asked = {c}
             /\ c \notin raced' /\ q \notin interrupted' =>
                  /\ run'[q].at = "path" => luaCommands'[Config][c] # {}
                  /\ run'[q].at \in {"insert", "file", "write", "call"} => luaCommands'[Config][c] = {run'[q].path}
  <2>1. c \in run[q].asked /\ run'[q].asked = run[q].asked
    BY <1>1, <1>3
  <2>2. run'[q].asked = {c}
    BY <2>1 DEF CallInv, AskedSound
  <2>3. ASSUME c \notin raced', q \notin interrupted'
        PROVE  Meets(c, run'[q])
    BY <1>3, <1>4, <1>7, <1>8, <2>1, <2>3
  <2> QED
    BY <1>4, <1>5, <1>6, <2>1, <2>2, <2>3
<1> QED
  BY <1>9 DEF AskedSound

LEMMA AdvanceCalls ==
  ASSUME Sound, CallInv, NEW r \in Runs, Advances(r)
  PROVE  CallInv'
<1>1. PICK new \in RunStates :
        /\ run' = [run EXCEPT ![r] = new]
        /\ run[r].at # "unused" /\ new.at # "unused" /\ new.asked = run[r].asked
  BY AdvanceForm
<1>2. run \in [Runs -> RunStates] /\ mixed \subseteq Runs
  BY DEF Sound, PluginsTypeOK, RunStates
<1>3. raced \subseteq raced' /\ interrupted' = interrupted
  BY DEF Advances, ReadPath, InsertLState, RegisterChecks, RegisterWrites, FileEnds, FileFails, CallFunction, history
<1>4. mixed' = mixed \/ (CallFunction(r) /\ mixed' = mixed \union {q \in {r} : \E c \in run[r].asked : ~(luaCommands[Config][c] \subseteq {run[r].path})})
  BY DEF Advances, ReadPath, InsertLState, RegisterChecks, RegisterWrites, FileEnds, FileFails, CallFunction, history
<1>5. r \in mixed' \ mixed => r \in interrupted \/ run[r].asked \subseteq raced
  <2> SUFFICES ASSUME r \in mixed' \ mixed, r \notin interrupted PROVE run[r].asked \subseteq raced
    OBVIOUS
  <2>1. run[r].at = "call"
    BY <1>4 DEF CallFunction
  <2>2. PICK c \in run[r].asked : ~(luaCommands[Config][c] \subseteq {run[r].path})
    BY <1>4
  <2>3. run[r].asked = {c} /\ c \in raced
    BY <2>1, <2>2 DEF CallInv, AskedSound
  <2> QED
    BY <2>3
<1>6. mixed' \subseteq mixed \union {r}
  BY <1>4
<1>7. CallsItsScript' /\ MixedUsed'
  BY <1>1, <1>2, <1>3, <1>5, <1>6 DEF CallInv, CallsItsScript, MixedUsed
<1> QED
  BY <1>7, AdvanceWriters, AdvanceAsked DEF CallInv

\* An unload takes a command away, and says so of the runs that were asked for it.
LEMMA UnloadCommandCalls ==
  ASSUME Sound, CallInv, NEW u \in Unloads, NEW s \in Scripts, UnloadCommand(u, s)
  PROVE  CallInv'
<1>1. UNCHANGED <<run, mixed, raced>> /\ interrupted \subseteq interrupted'
  BY DEF UnloadCommand, UnloadBegins
<1>2. ASSUME NEW c \in Names, luaCommands'[Config][c] # luaCommands[Config][c]
      PROVE  /\ luaCommands'[Config][c] = {}
             /\ \A r \in Runs : run[r].at \notin {"unused", "over"} /\ run[r].asked = {c} => r \in interrupted'
  BY <1>2 DEF UnloadCommand, Sound, PluginsTypeOK, Owners
<1>3. \A r \in Runs : run[r].asked \subseteq Names
  BY DEF Sound, PluginsTypeOK
<1>4. WritersSound' /\ OwnersSound'
  BY <1>1, <1>2 DEF CallInv, WritersSound, OwnersSound, Writing, NamesOf
<1>5. AskedSound'
  BY <1>1, <1>2, <1>3 DEF CallInv, AskedSound
<1> QED
  BY <1>1, <1>4, <1>5 DEF CallInv, MixedUsed, CallsItsScript

LEMMA DeletesCalls ==
  ASSUME Sound, CallInv, NEW u \in Unloads, Deletes(u)
  PROVE  CallInv'
<1>1. UNCHANGED <<luaCommands, mixed, raced, interrupted>>
  BY DEF Deletes, UnloadLook, UnloadCancel, UnloadDelete, history
<1>2. mixed \subseteq Runs
  BY DEF Sound, PluginsTypeOK
<1>3. \A q \in Runs : /\ run'[q].at = run[q].at /\ run'[q].path = run[q].path
                      /\ run'[q].commands = run[q].commands /\ run'[q].asked = run[q].asked /\ run'[q].left = run[q].left
  BY CancelForm DEF Deletes, UnloadLook, UnloadDelete
<1>4. \A q \in Runs, c \in Names : Writing(q, c)' <=> Writing(q, c)
  BY <1>3 DEF Writing
<1>5. WritersSound' /\ OwnersSound'
  BY <1>1, <1>3, <1>4 DEF CallInv, WritersSound, OwnersSound, NamesOf
<1>6. AskedSound'
  BY <1>1, <1>3 DEF CallInv, AskedSound
<1> QED
  BY <1>1, <1>2, <1>3, <1>5, <1>6 DEF CallInv, MixedUsed, CallsItsScript

LEMMA CallsStay ==
  ASSUME Sound, CallInv, [PluginsNext]_pluginVars
  PROVE  CallInv'
<1>1. CASE UNCHANGED <<luaStates, luaCommands, made, run, unload, history>>
  BY <1>1 DEF history, CallInv, WritersSound, AskedSound, OwnersSound, Writing, NamesOf, MixedUsed, CallsItsScript
<1> QED
  BY <1>1, StepForm, StartCalls, AdvanceCalls, UnloadCommandCalls, DeletesCalls

LEMMA CallsInitially == PluginsInit => CallInv
<1> SUFFICES ASSUME PluginsInit PROVE CallInv
  OBVIOUS
<1>1. \A r \in Runs : run[r].at = "unused" /\ run[r].asked = {}
  BY DEF PluginsInit, A
<1>2. \A c \in Names : luaCommands[Config][c] = {}
  BY DEF PluginsInit, Owners
<1> QED
  BY <1>1, <1>2 DEF PluginsInit, CallInv, WritersSound, AskedSound, OwnersSound, Writing, MixedUsed, CallsItsScript

\* A command calls a function of the script it has executed, although the path is asked
\* for twice, unless it was unloaded in between or two scripts raced for its name.
THEOREM CommandsCallTheirScripts == PluginsSpec => []CallsItsScript
<1>1. CallInv => CallsItsScript
  BY DEF CallInv
<1> QED
  BY <1>1, SoundInitially, SoundStays, CallsInitially, CallsStay, PTL DEF PluginsSpec

-----------------------------------------------------------------------------
\* The commands of a script.
Its(s) == {c \in Names : luaCommands[Config][c] = {s}}

\* A script that was withdrawn is not run, and has lost a command.
GoneInv ==
  \A s \in withdrawn :
    /\ UnderWayOf(s) = {}
    /\ Registers[s] # <<>> => Cardinality(Its(s)) < Len(Registers[s])

LEMMA NamesBounded ==
  ASSUME NEW s \in Scripts
  PROVE  IsFiniteSet(NamesOf(s)) /\ Cardinality(NamesOf(s)) <= Len(Registers[s])
<1> DEFINE n == Len(Registers[s])
           f == [i \in 1..n |-> Registers[s][i]]
<1>1. n \in Nat /\ NamesOf(s) = {Registers[s][i] : i \in 1..n}
  BY NamesOfScript DEF NamesOf
<1>2. f \in Surjection(1..n, NamesOf(s))
  BY <1>1 DEF Surjection
<1>3. IsFiniteSet(1..n) /\ Cardinality(1..n) = n
  BY <1>1, FS_Interval
<1> HIDE DEF n, f
<1> QED
  BY <1>2, <1>3, FS_Surjection DEF n

\* Fewer commands than names, for all a script has are its own, and one is missing.
LEMMA FewerCommands ==
  ASSUME NEW s \in Scripts, NEW its, its \subseteq NamesOf(s), NEW c \in NamesOf(s), c \notin its
  PROVE  Cardinality(its) < Len(Registers[s])
<1>1. IsFiniteSet(its) /\ Cardinality(its) <= Cardinality(NamesOf(s)) /\ Cardinality(its) # Cardinality(NamesOf(s))
  BY NamesBounded, FS_Subset
<1>2. Cardinality(its) \in Nat /\ Cardinality(NamesOf(s)) \in Nat /\ Len(Registers[s]) \in Nat
  BY <1>1, NamesBounded, FS_CardinalityType, NamesOfScript
<1> QED
  BY <1>1, <1>2, NamesBounded

\* What makes no command of a script that was withdrawn, and starts no run of it, leaves it gone.
LEMMA GoneFrame ==
  ASSUME Sound, CallInv, NEW s \in withdrawn, GoneInv, UnderWayOf(s)' = {}, Its(s)' \subseteq Its(s)
  PROVE  UnderWayOf(s)' = {} /\ (Registers[s] # <<>> => Cardinality(Its(s)') < Len(Registers[s]))
<1>1. s \in Scripts /\ Its(s) \subseteq NamesOf(s)
  BY DEF Sound, PluginsTypeOK, CallInv, OwnersSound, Its
<1>2. IsFiniteSet(Its(s))
  BY <1>1, NamesBounded, FS_Subset
<1>3. Cardinality(Its(s)') <= Cardinality(Its(s)) /\ IsFiniteSet(Its(s)')
  BY <1>2, FS_Subset
<1>4. Cardinality(Its(s)') \in Nat /\ Cardinality(Its(s)) \in Nat /\ Len(Registers[s]) \in Nat
  BY <1>1, <1>2, <1>3, FS_CardinalityType, NamesOfScript
<1> QED
  BY <1>3, <1>4 DEF GoneInv

LEMMA StartGone ==
  ASSUME Sound, CallInv, GoneInv, NEW r \in Runs, Starts(r)
  PROVE  GoneInv'
<1>1. PICK new \in RunStates :
        /\ Fresh(new)
        /\ run' = [run EXCEPT ![r] = new]
        /\ withdrawn' = withdrawn \ {new.path} /\ UNCHANGED luaCommands
  BY StartForm
<1>2. run \in [Runs -> RunStates]
  BY DEF Sound, PluginsTypeOK, RunStates
<1>3. ASSUME NEW s \in withdrawn'
      PROVE  s \in withdrawn /\ UnderWayOf(s)' = {} /\ Its(s)' \subseteq Its(s)
  BY <1>1, <1>2 DEF GoneInv, UnderWayOf, Its
<1> QED
  BY <1>3, GoneFrame DEF GoneInv

LEMMA AdvanceGone ==
  ASSUME Sound, CallInv, GoneInv, NEW r \in Runs, Advances(r)
  PROVE  GoneInv'
<1>1. PICK new \in RunStates :
        /\ run' = [run EXCEPT ![r] = new]
        /\ run[r].at # "unused" /\ run[r].at # "over"
        /\ new.at # "over" => ReadPath(r) \/ new.path = run[r].path
  BY AdvanceForm
<1>2. run \in [Runs -> RunStates]
  BY DEF Sound, PluginsTypeOK, RunStates
<1>3. run'[r] = new /\ \A q \in Runs : q # r => run'[q] = run[q]
  BY <1>1, <1>2
<1>4. ASSUME NEW s \in withdrawn
      PROVE  s \in Scripts /\ run[r].path # s /\ UnderWayOf(s) = {}
  BY <1>1 DEF GoneInv, UnderWayOf, Sound, PluginsTypeOK
<1>5. CASE ReadPath(r)
  <2>1. withdrawn' = withdrawn \ {new.path} /\ UNCHANGED luaCommands
    <3> DEFINE found == UNION {luaCommands[Config][c] : c \in run[r].asked}
               p == IF found = {} THEN NoPath ELSE CHOOSE s \in found : TRUE
    <3>1. run' = [run EXCEPT ![r].at = "insert", ![r].path = p] /\ withdrawn' = withdrawn \ {p} /\ UNCHANGED luaCommands
      BY <1>5, Zenon DEF ReadPath
    <3> HIDE DEF p
    <3>2. new.path = p
      BY <1>2, <1>3, <3>1 DEF RunStates
    <3> QED
      BY <3>1, <3>2
  <2>2. ASSUME NEW s \in withdrawn'
        PROVE  s \in withdrawn /\ UnderWayOf(s)' = {} /\ Its(s)' \subseteq Its(s)
    BY <1>3, <1>4, <2>1 DEF UnderWayOf, Its
  <2> QED
    BY <2>2, GoneFrame DEF GoneInv
<1>6. CASE ~ReadPath(r)
  <2>1. withdrawn' = withdrawn
    BY <1>6 DEF Advances, InsertLState, RegisterChecks, RegisterWrites, FileEnds, FileFails, CallFunction, history
  <2>2. ASSUME NEW s \in withdrawn
        PROVE  UnderWayOf(s)' = {}
    BY <1>1, <1>3, <1>4, <1>6 DEF UnderWayOf
  <2>3. ASSUME NEW s \in withdrawn
        PROVE  Its(s)' \subseteq Its(s)
    <3>1. CASE RegisterWrites(r)
      <4>1. luaCommands' = [luaCommands EXCEPT ![run[r].commands][Head(run[r].left)] = {run[r].path}]
        BY <3>1 DEF RegisterWrites
      <4>2. luaCommands \in [Owners -> [Names -> SUBSET Scripts]] /\ run[r].commands \in Owners
        BY <1>2 DEF Sound, PluginsTypeOK, RunStates
      <4> QED
        BY <1>4, <4>1, <4>2 DEF Its
    <3>2. CASE ~RegisterWrites(r)
      BY <3>2 DEF Its, Advances, ReadPath, InsertLState, RegisterChecks, FileEnds, FileFails, CallFunction
    <3> QED
      BY <3>1, <3>2
  <2> QED
    BY <2>1, <2>2, <2>3, GoneFrame DEF GoneInv
<1> QED
  BY <1>5, <1>6

LEMMA UnloadCommandGone ==
  ASSUME Sound, CallInv, GoneInv, NEW u \in Unloads, NEW s \in Scripts, UnloadCommand(u, s)
  PROVE  GoneInv'
<1>1. /\ withdrawn' = withdrawn \union {q \in {s} : UnderWayOf(s) = {}} /\ UNCHANGED run
      /\ \/ Its(s) = {} /\ UNCHANGED luaCommands
         \/ \E c \in Its(s) : luaCommands' = [luaCommands EXCEPT ![Config][c] = {}]
  BY DEF UnloadCommand, UnloadBegins, Its
<1>2. luaCommands \in [Owners -> [Names -> SUBSET Scripts]] /\ Config \in Owners
  BY DEF Sound, PluginsTypeOK, Owners
<1>3. \A q \in Scripts : Its(q)' \subseteq Its(q)
  <2>1. ASSUME NEW c \in Names, luaCommands' = [luaCommands EXCEPT ![Config][c] = {}]
        PROVE  \A d \in Names : luaCommands'[Config][d] = luaCommands[Config][d] \/ luaCommands'[Config][d] = {}
    BY <1>2, <2>1
  <2>2. \A d \in Names : luaCommands'[Config][d] = luaCommands[Config][d] \/ luaCommands'[Config][d] = {}
    BY <1>1, <2>1 DEF Its
  <2> QED
    BY <2>2 DEF Its
<1>4. \A q \in Scripts : UnderWayOf(q)' = UnderWayOf(q)
  BY <1>1 DEF UnderWayOf
<1>5. ASSUME NEW q \in withdrawn
      PROVE  UnderWayOf(q)' = {} /\ (Registers[q] # <<>> => Cardinality(Its(q)') < Len(Registers[q]))
  <2>1. q \in Scripts /\ UnderWayOf(q) = {}
    BY DEF GoneInv, Sound, PluginsTypeOK
  <2> QED
    BY <1>3, <1>4, <2>1, GoneFrame
<1>6. ASSUME Registers[s] # <<>>
      PROVE  Cardinality(Its(s)') < Len(Registers[s])
  <2>1. Its(s) \subseteq NamesOf(s)
    BY DEF CallInv, OwnersSound, Its
  <2>2. CASE Its(s) = {}
    <3>1. Registers[s][1] \in NamesOf(s)
      BY <1>6, NamesOfScript
    <3>2. Its(s)' = {}
      BY <1>3, <2>2
    <3> DEFINE its == Its(s)'
    <3>3. its \subseteq NamesOf(s) /\ Registers[s][1] \notin its
      BY <3>2
    <3> HIDE DEF its
    <3>4. Cardinality(its) < Len(Registers[s])
      BY <3>1, <3>3, FewerCommands
    <3> QED
      BY <3>4 DEF its
  <2>3. CASE Its(s) # {}
    <3>1. PICK c \in Its(s) : luaCommands' = [luaCommands EXCEPT ![Config][c] = {}]
      BY <1>1, <2>3
    <3> DEFINE its == Its(s)'
    <3>2. c \in NamesOf(s) /\ c \notin its /\ its \subseteq NamesOf(s)
      BY <1>2, <1>3, <2>1, <3>1 DEF Its
    <3> HIDE DEF its
    <3>3. Cardinality(its) < Len(Registers[s])
      BY <3>2, FewerCommands
    <3> QED
      BY <3>3 DEF its
  <2> QED
    BY <2>2, <2>3
<1> QED
  BY <1>1, <1>4, <1>5, <1>6 DEF GoneInv

LEMMA GoneStays ==
  ASSUME Sound, CallInv, GoneInv, [PluginsNext]_pluginVars
  PROVE  GoneInv'
<1>1. CASE UNCHANGED <<luaStates, luaCommands, made, run, unload, history>>
  BY <1>1 DEF history, GoneInv, UnderWayOf, Its
<1>2. CASE \E u \in Unloads : Deletes(u)
  <2>1. withdrawn' = withdrawn /\ luaCommands' = luaCommands
    BY <1>2 DEF Deletes, UnloadLook, UnloadCancel, UnloadDelete, history
  <2>2. \A q \in Runs : run'[q].at = run[q].at /\ run'[q].path = run[q].path
    BY <1>2, CancelForm DEF Deletes, UnloadLook, UnloadDelete
  <2>3. \A s \in withdrawn : UnderWayOf(s)' = UnderWayOf(s)
    BY <2>2 DEF UnderWayOf
  <2> QED
    BY <2>1, <2>3 DEF GoneInv, Its
<1> QED
  BY <1>1, <1>2, StepForm, StartGone, AdvanceGone, UnloadCommandGone

\* A script that is unloaded while none of its runs is under way has fewer commands than
\* it registers, and none if it registers one, until it is run again.
THEOREM UnloadedStaysGone == PluginsSpec => []UnloadedIsGone
<1>1. PluginsInit => GoneInv
  BY DEF PluginsInit, GoneInv
<1>2. GoneInv => UnloadedIsGone
  BY DEF GoneInv, UnloadedIsGone, Its
<1> QED
  BY <1>1, <1>2, SoundInitially, SoundStays, CallsInitially, CallsStay, GoneStays, PTL DEF PluginsSpec

=============================================================================
