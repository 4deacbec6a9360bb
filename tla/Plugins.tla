------------------------------- MODULE Plugins -------------------------------
(***************************************************************************)
(* The Lua plugins of plugins.go, with the load, unload and default cases  *)
(* of runCommand (main.go) and the maps of TomlConfig (types.go). A run is *)
(* a Lua state of its own in a goroutine: RunScript executes the script,   *)
(* RunLuaFunc and RunTriggeredLuaFunc execute it and then call a function  *)
(* of it. The run enters LuaStates under the path, and whatever script     *)
(* executes may register commands; both maps have no lock.                 *)
(*                                                                         *)
(* registerTriggeredScripts has a copy of the configuration: maps that are *)
(* made by then are shared with it, others it makes for itself. Each       *)
(* iteration of LoadAllEventPlugins adds handlers for all the scripts.     *)
(* A script passes its own path to register_cmd, as those in plugins/ do.  *)
(***************************************************************************)
EXTENDS Integers, Sequences, FiniteSets

CONSTANTS
  Scripts,          \* paths
  Registers,        \* for each script the names it registers, in order
  Triggered,        \* TriggeredScripts, those with PRIVMSG among their types
  MaxRuns, MaxAtOnce, \* bounds for model checking: on runs, in all and at once, ...
  MaxUnloads,       \* ... on the admins' unloads, which may overlap, ...
  MaxBegun          \* ... and on both together, a run counted twice

ASSUME PluginsAssumption ==
  /\ Triggered \subseteq Scripts
  /\ DOMAIN Registers = Scripts
  /\ \A s \in Scripts : Registers[s] \in Seq(UNION {{Registers[q][i] : i \in DOMAIN Registers[q]} : q \in Scripts})

Runs == 1..MaxRuns
Unloads == 1..MaxUnloads
Names == UNION {{Registers[s][i] : i \in DOMAIN Registers[s]} : s \in Scripts}
NoPath == ""                      \* that of a command that is not in the map
Paths == Scripts \union {NoPath}
Config == "config"                \* the configuration that runCommand works on
Owners == {Config} \union Triggered

ASSUME PathAssumption == NoPath \notin Scripts
ASSUME BoundsAssumption == MaxRuns \in Nat /\ MaxAtOnce \in Nat /\ MaxUnloads \in Nat /\ MaxBegun \in Nat

VARIABLES
  luaStates,        \* of each owner, by path: {the run whose Cancel is stored}, or {}
  luaCommands,      \* of each owner, by name: {the script}, or {}
  made,             \* which maps the configuration has: subset of {"states", "commands"}
  copies,           \* per iteration of LoadAllEventPlugins: {owners of its maps}, or {}
  run,              \* what each run does, and with which maps
  unload,           \* what the handler of each unload does, and of which script
  ended,            \* the process has ended: a map with two goroutines in it, a nil Cancel
  \* History, for the properties:
  mixed,            \* runs that called a function of another script than they executed
  doubled,          \* runs of a script that was run by two at once
  slipped,          \* runs that entered between the Cancel of an unload and its delete
  outlived,         \* runs that went on after an unload of their script, entered or not yet
  withdrawn,        \* scripts unloaded when no run of them was under way
  interrupted,      \* runs whose command was unloaded meanwhile
  raced             \* names that two runs registered at once

pluginVars == <<luaStates, luaCommands, made, copies, run, unload, ended,
                mixed, doubled, slipped, outlived, withdrawn, interrupted, raced>>
history == <<mixed, doubled, slipped, outlived, withdrawn, interrupted, raced>>
stays == <<slipped, outlived>>
admin == <<unload, ended>>

A(at, path, states, commands, asked) ==
  [at |-> at, path |-> path, states |-> states, commands |-> commands,
   asked |-> asked, left |-> <<>>, cancelled |-> FALSE]

PluginsInit ==
  /\ luaStates = [o \in Owners |-> [p \in Paths |-> {}]]
  /\ luaCommands = [o \in Owners |-> [c \in Names |-> {}]]
  /\ made = {}
  /\ copies = [t \in Triggered |-> {}]
  /\ run = [r \in Runs |-> A("unused", NoPath, Config, Config, {})]
  /\ unload = [u \in Unloads |-> [at |-> "unused", of |-> NoPath]] /\ ended = FALSE
  /\ mixed = {} /\ doubled = {} /\ slipped = {} /\ outlived = {}
  /\ withdrawn = {} /\ interrupted = {} /\ raced = {}

Over(r) == A("over", NoPath, run[r].states, Config, run[r].asked)
UnderWayOf(s) == {r \in Runs : run[r].at \notin {"unused", "over"} /\ run[r].path = s}

\* The runs of a script that go on: those that have entered LuaStates and were not
\* cancelled, and those that have begun and will enter.
Entered(s) == {r \in UnderWayOf(s) : run[r].at \notin {"path", "insert"} /\ ~run[r].cancelled}
Coming(s) ==
  {r \in UnderWayOf(s) : run[r].at = "insert"} \union
  {r \in Runs : run[r].at = "path" /\ \E c \in run[r].asked : luaCommands[Config][c] = {s}}
Live(s) == Entered(s) \union Coming(s)

Begun == 2 * Cardinality({r \in Runs : run[r].at # "unused"}) + Cardinality({u \in Unloads : unload[u].at # "unused"})

Begins(r, new) ==
  /\ Begun + 2 <= MaxBegun
  /\ Cardinality({q \in Runs : run[q].at \notin {"unused", "over"}}) < MaxAtOnce
  /\ run[r].at = "unused" /\ \A q \in 1..(r - 1) : run[q].at # "unused"
  /\ run' = [run EXCEPT ![r] = new]
  /\ withdrawn' = withdrawn \ {new.path}
  /\ UNCHANGED <<luaStates, luaCommands, made, admin, mixed, doubled, stays, interrupted, raced>>

\* RunScript, for LoadAllPlugins or for an admin's load.
RunScript(r, s) == Begins(r, A("insert", s, Config, Config, {})) /\ UNCHANGED copies

\* The next iteration of LoadAllEventPlugins: go RunScript, ...
LoadEventPlugin(r, t) ==
  /\ \A u \in Triggered : UnderWayOf(u) = {} \/ copies[u] # {}
  /\ copies[t] = {}
  /\ Begins(r, A("insert", t, Config, Config, {})) /\ UNCHANGED copies

\* ... and registerTriggeredScripts with a copy.
CopyConfig(t) ==
  /\ copies[t] = {}
  /\ \E r \in Runs : run[r].at # "unused" /\ run[r].path = t
  /\ copies' = [copies EXCEPT ![t] =
       {[states |-> IF "states" \in made THEN Config ELSE t,
         commands |-> IF "commands" \in made THEN Config ELSE t]}]
  /\ UNCHANGED <<luaStates, luaCommands, made, run, admin, history>>

\* A PRIVMSG to the bot: RunTriggeredLuaFunc of t, by a handler of iteration i.
RunTriggered(r, i, t) ==
  /\ \E c \in copies[i] : Begins(r, A("insert", t, c.states, c.commands, {}))
  /\ UNCHANGED copies

\* The default case of runCommand: there is such a command. RunLuaFunc makes a state ...
RunCommand(r, c) ==
  /\ luaCommands[Config][c] # {}
  /\ Begins(r, A("path", NoPath, Config, Config, {c})) /\ UNCHANGED copies

\* ... and then looks the path up, which is empty if the command is gone.
ReadPath(r) ==
  /\ run[r].at = "path"
  /\ LET found == UNION {luaCommands[Config][c] : c \in run[r].asked}
         p == IF found = {} THEN NoPath ELSE CHOOSE s \in found : TRUE IN
       /\ run' = [run EXCEPT ![r].at = "insert", ![r].path = p]
       /\ withdrawn' = withdrawn \ {p}
  /\ UNCHANGED <<luaStates, luaCommands, made, copies, admin, mixed, doubled, stays, interrupted, raced>>

\* The run and those that are under its path in the same map, if there are any.
Company(r) ==
  LET others == {q \in Entered(run[r].path) : run[q].states = run[r].states} IN
    IF others = {} THEN {} ELSE others \union {r}

\* An unload of its script has called Cancel, or found none, and is about to delete.
Slips(r) == \E u \in Unloads : unload[u].at = "delete" /\ unload[u].of = run[r].path

\* Mutant of InsertLState: an entry that is there is kept.
InsertLStateOnce(r) ==
  /\ run[r].at = "insert"
  /\ LET p == run[r].path IN
       /\ luaStates' = [luaStates EXCEPT ![run[r].states][p] = IF @ = {} THEN {r} ELSE @]
       /\ run' = [run EXCEPT ![r].at = "file", ![r].left = IF p = NoPath THEN <<>> ELSE Registers[p]]
       /\ doubled' = doubled \union Company(r)
       /\ slipped' = slipped \union {q \in {r} : Slips(r)}
  /\ made' = made \union {m \in {"states"} : run[r].states = Config}
  /\ UNCHANGED <<luaCommands, copies, admin, mixed, outlived, withdrawn, interrupted, raced>>

\* insertLState, whatever is there under the path; DoFile begins.
InsertLState(r) ==
  /\ run[r].at = "insert"
  /\ LET p == run[r].path IN
       /\ luaStates' = [luaStates EXCEPT ![run[r].states][p] = {r}]
       /\ run' = [run EXCEPT ![r].at = "file", ![r].left = IF p = NoPath THEN <<>> ELSE Registers[p]]
       /\ doubled' = doubled \union Company(r)
       /\ slipped' = slipped \union {q \in {r} : Slips(r)}
  /\ made' = made \union {m \in {"states"} : run[r].states = Config}
  /\ UNCHANGED <<luaCommands, copies, admin, mixed, outlived, withdrawn, interrupted, raced>>

Registered(r) == luaCommands[run[r].commands][Head(run[r].left)]

\* Mutant of RegisterChecks: a name that is taken is taken over.
RegisterAnyway(r) ==
  /\ run[r].at = "file" /\ ~run[r].cancelled /\ run[r].left # <<>>
  /\ run' = [run EXCEPT ![r].at = "write"]
  /\ raced' = raced \union {Head(run[q].left) : q \in {q \in Runs : run[q].at = "write" /\ Head(run[q].left) = Head(run[r].left)}}
  /\ UNCHANGED <<luaStates, luaCommands, made, copies, admin, mixed, doubled, stays, withdrawn, interrupted>>

\* register_cmd looks whether the name is taken, ...
RegisterChecks(r) ==
  /\ run[r].at = "file" /\ ~run[r].cancelled /\ run[r].left # <<>>
  /\ run' = IF Registered(r) # {} THEN [run EXCEPT ![r].left = Tail(@)] ELSE [run EXCEPT ![r].at = "write"]
  /\ raced' = raced \union {c \in {Head(run[r].left)} :
       Registered(r) = {} /\ \E q \in Runs : run[q].at = "write" /\ Head(run[q].left) = c}
  /\ UNCHANGED <<luaStates, luaCommands, made, copies, admin, mixed, doubled, stays, withdrawn, interrupted>>

\* ... and insertLuaCommand writes it.
RegisterWrites(r) ==
  /\ run[r].at = "write"
  /\ luaCommands' = [luaCommands EXCEPT ![run[r].commands][Head(run[r].left)] = {run[r].path}]
  /\ made' = made \union {m \in {"commands"} : run[r].commands = Config}
  /\ run' = [run EXCEPT ![r].at = "file", ![r].left = Tail(@)]
  /\ UNCHANGED <<luaStates, copies, admin, history>>

\* The script is at its end, with the function of a trigger; it may have been at it long.
FileEnds(r) ==
  /\ run[r].at = "file" /\ run[r].left = <<>>
  /\ run' = [run EXCEPT ![r] = IF @.asked = {} THEN Over(r) ELSE [@ EXCEPT !.at = "call"]]
  /\ UNCHANGED <<luaStates, luaCommands, made, copies, admin, history>>

\* The script fails, or its context is done. The entry in LuaStates stays.
FileFails(r) ==
  /\ run[r].at = "file"
  /\ run' = [run EXCEPT ![r] = Over(r)]
  /\ UNCHANGED <<luaStates, luaCommands, made, copies, admin, history>>

\* RunLuaFunc looks the function up in the map, again, and calls it.
CallFunction(r) ==
  /\ run[r].at = "call"
  /\ mixed' = mixed \union {q \in {r} : \E c \in run[r].asked : ~(luaCommands[Config][c] \subseteq {run[r].path})}
  /\ run' = [run EXCEPT ![r] = Over(r)]
  /\ UNCHANGED <<luaStates, luaCommands, made, copies, admin, doubled, stays, withdrawn, interrupted, raced>>

UnloadBegins(u, s) ==
  /\ Begun + 1 <= MaxBegun
  /\ unload[u].at = "unused" /\ \A v \in 1..(u - 1) : unload[v].at # "unused"
  /\ unload' = [unload EXCEPT ![u] = [at |-> "look", of |-> s]]
  /\ withdrawn' = withdrawn \union {q \in {s} : UnderWayOf(s) = {}}

\* Mutant of UnloadCommand: no command is deleted.
UnloadNoCommand(u, s) ==
  /\ UnloadBegins(u, s)
  /\ UNCHANGED <<luaStates, luaCommands, made, copies, run, ended, mixed, doubled, stays, interrupted, raced>>

\* An admin's unload deletes one command of the script, the first the map yields.
UnloadCommand(u, s) ==
  /\ UnloadBegins(u, s)
  /\ LET its == {c \in Names : luaCommands[Config][c] = {s}} IN
       \/ its = {} /\ UNCHANGED <<luaCommands, interrupted>>
       \/ \E c \in its :
            /\ luaCommands' = [luaCommands EXCEPT ![Config][c] = {}]
            /\ interrupted' = interrupted \union {r \in Runs : run[r].at \notin {"unused", "over"} /\ run[r].asked = {c}}
  /\ UNCHANGED <<luaStates, made, copies, run, ended, mixed, doubled, stays, raced>>

UnloadEnds(u) ==
  /\ unload' = [unload EXCEPT ![u] = [at |-> "over", of |-> NoPath]]
  /\ outlived' = outlived \union {[of |-> r, entered |-> run[r].at \notin {"path", "insert"}] : r \in Live(unload[u].of)}

\* deleteLstate, which holds no lock: it looks whether there is a Cancel, ...
UnloadLook(u) ==
  /\ unload[u].at = "look"
  /\ \/ "states" \notin made /\ UnloadEnds(u)
     \/ /\ "states" \in made
        /\ unload' = [unload EXCEPT ![u].at = IF luaStates[Config][unload[u].of] = {} THEN "delete" ELSE "cancel"]
        /\ UNCHANGED outlived
  /\ UNCHANGED <<luaStates, luaCommands, made, copies, run, ended, mixed, doubled, slipped, withdrawn, interrupted, raced>>

\* ... looks again and calls the Cancel that is there now, a nil one if there is none, ...
UnloadCancel(u) ==
  /\ unload[u].at = "cancel"
  /\ LET stored == luaStates[Config][unload[u].of] IN
       /\ ended' = (stored = {})
       /\ run' = [r \in Runs |-> [run[r] EXCEPT !.cancelled = @ \/ (r \in stored /\ run[r].at # "over")]]
  /\ unload' = [unload EXCEPT ![u].at = "delete"]
  /\ UNCHANGED <<luaStates, luaCommands, made, copies, history>>

\* ... and deletes the entry, whosever it is by then.
UnloadDelete(u) ==
  /\ unload[u].at = "delete"
  /\ luaStates' = [luaStates EXCEPT ![Config][unload[u].of] = {}]
  /\ UnloadEnds(u)
  /\ UNCHANGED <<luaCommands, made, copies, run, ended, mixed, doubled, slipped, withdrawn, interrupted, raced>>

\* Go's maps detect a second goroutine during a write: of two runs, of a run and an
\* unload that deletes a command or is in deleteLstate, or of two unloads.
MapsCollide ==
  /\ \/ \E r, q \in Runs :
          /\ r # q
          /\ \/ run[r].at = "insert" /\ run[q].at = "insert" /\ run[r].states = run[q].states
             \/ run[r].at = "write" /\ run[q].at \in {"path", "call"} /\ run[r].commands = Config
             \/ run[r].at = "write" /\ run[q].at \in {"file", "write"} /\ run[r].commands = run[q].commands
     \/ \E r \in Runs, u \in Unloads :
          \/ run[r].at = "insert" /\ run[r].states = Config /\ unload[u].at \in {"look", "cancel", "delete"}
          \/ run[r].at \in {"path", "write", "call"} /\ run[r].commands = Config /\ unload[u].at = "unused"
     \/ \E u, v \in Unloads :
          u # v /\ unload[u].at = "delete" /\ unload[v].at \in {"look", "cancel", "delete"}
  /\ ended' = TRUE
  /\ UNCHANGED <<luaStates, luaCommands, made, copies, run, unload, history>>

PluginsNext ==
  /\ ~ended
  /\ \/ \E r \in Runs :
          \/ \E s \in Scripts : RunScript(r, s)
          \/ \E t \in Triggered : LoadEventPlugin(r, t)
          \/ \E i, t \in Triggered : RunTriggered(r, i, t)
          \/ \E c \in Names : RunCommand(r, c)
          \/ ReadPath(r) \/ InsertLState(r) \/ RegisterChecks(r) \/ RegisterWrites(r)
          \/ FileEnds(r) \/ FileFails(r) \/ CallFunction(r)
     \/ \E t \in Triggered : CopyConfig(t)
     \/ \E u \in Unloads :
          \/ \E s \in Scripts : UnloadCommand(u, s)
          \/ UnloadLook(u) \/ UnloadCancel(u) \/ UnloadDelete(u)
     \/ MapsCollide

PluginsSpec == PluginsInit /\ [][PluginsNext]_pluginVars
-----------------------------------------------------------------------------
PluginsTypeOK ==
  /\ luaStates \in [Owners -> [Paths -> SUBSET Runs]]
  /\ luaCommands \in [Owners -> [Names -> SUBSET Scripts]]
  /\ made \subseteq {"states", "commands"}
  /\ copies \in [Triggered -> SUBSET [states : Owners, commands : Owners]]
  /\ run \in [Runs -> [at : {"unused", "path", "insert", "file", "write", "call", "over"}, path : Paths,
                       states : Owners, commands : Owners, asked : SUBSET Names, left : Seq(Names), cancelled : BOOLEAN]]
  /\ unload \in [Unloads -> [at : {"unused", "look", "cancel", "delete", "over"}, of : Paths]]
  /\ ended \in BOOLEAN
  /\ mixed \subseteq Runs /\ doubled \subseteq Runs /\ slipped \subseteq Runs /\ interrupted \subseteq Runs
  /\ outlived \subseteq [of : Runs, entered : BOOLEAN]
  /\ withdrawn \subseteq Scripts /\ raced \subseteq Names

\* When an unload ends, which runs of its script go on? Those that had begun and not yet
\* entered LuaStates; those that entered between its Cancel and its delete, or another
\* unload's (no later one knows them either); those that were under the path at once with
\* another (only the latest is known); and those of triggers that were set up before the
\* configuration had the map. No others (types.go:157-174, plugins.go:520).
UnloadStops ==
  \A o \in outlived :
    o.entered => o.of \in slipped \/ o.of \in doubled \/ run[o.of].states # Config

\* A script that is unloaded while none of its runs is under way has a command fewer
\* than it registers until it is run again: none, if it registers one (main.go:464-470).
UnloadedIsGone ==
  \A s \in withdrawn : Registers[s] # <<>> =>
    Cardinality({c \in Names : luaCommands[Config][c] = {s}}) < Len(Registers[s])

\* A command calls a function of the script it has executed, although it asks the map
\* twice: unless it was unloaded in between, or two scripts raced for its name
\* (plugins.go:218-225, 536, 584).
CallsItsScript ==
  \A r \in mixed : r \in interrupted \/ run[r].asked \subseteq raced
=============================================================================
