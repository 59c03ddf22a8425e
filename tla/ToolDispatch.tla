----------------------------- MODULE ToolDispatch -----------------------------
(***************************************************************************)
(* From the tools a request is offered to the one that runs                *)
(* (gateway/tool_executor.py, core/plugins/registry.py, the names of       *)
(* core/plugins/normalization.py and the registration of the core tools,   *)
(* core/core_tools/__init__.py).                                           *)
(*                                                                         *)
(* Tools come from four places: the registry, whose names are canonical    *)
(* ones that aliases and spellings share; the adapter's tools; the MCP     *)
(* servers, which come and go; and the sub-agents'.  A call names one of   *)
(* them as a string, some awaits after the offer, and is routed by the     *)
(* prefix, the table of handlers and the registry, in that order.          *)
(*                                                                         *)
(* Two parts of their own follow: the loader of tool modules               *)
(* (tools/_loader.py) and the policies on calls                            *)
(* (core/plugins/policies.py).                                             *)
(***************************************************************************)
EXTENDS Naturals, Sequences, FiniteSets, SequencesExt, FiniteSetsExt

CONSTANTS
    CoreModules,    \* the core modules in order: sequences of [name, requires, gate]
    Handled,        \* names with an entry in the executor's table
    AdapterTools,   \* those among them that an adapter with every capability is offered
    RemoteTools,    \* names "server__tool" that MCP servers may provide
    AgentTools,     \* "subagent_..." names
    Canonical(_),   \* ToolNameNormalizer.resolve
    Calls,
    None

VARIABLES
    registered,  \* how many core modules were turned to
    native,      \* the registry's tools: canonical name -> [name, requires, gate]
    provided,    \* what MCP servers provide now
    call         \* [Calls -> [pc, offer, tool, ran, heard, gone]], gone: no server provides the name

dispatchVars == <<registered, native, provided, call>>

(* A tool is known to a request by where it comes from and its name.       *)
Tool(origin, name) == [origin |-> origin, name |-> name]

CallInit == [pc |-> "idle", offer |-> {}, tool |-> None, ran |-> None, heard |-> <<>>,
             gone |-> FALSE]
DispatchInit ==
    /\ registered = 0 /\ native = <<>> /\ provided \in SUBSET RemoteTools
    /\ call = [c \in Calls |-> CallInit]

-----------------------------------------------------------------------------
(* register_core_tools: a module whose initialize() raises is left out. All*)
(* register as "builtin", so no conflict is seen and the last one stays.   *)
Register(table, tool) == (Canonical(tool.name) :> tool) @@ table

RegisterModule ==
    /\ registered < Len(CoreModules)
    /\ registered' = registered + 1
    /\ \/ native' = FoldLeft(Register, native, CoreModules[registered + 1])
       \/ UNCHANGED native
    /\ UNCHANGED <<provided, call>>

ServersChange ==
    /\ \E p \in SUBSET RemoteTools : p # provided /\ provided' = p
    /\ UNCHANGED <<registered, native, call>>

-----------------------------------------------------------------------------
(* get_all_tools: what needs a capability the gateway lacks is left out;   *)
(* of two tools with one name the first stays.                             *)
FromRegistry(capabilities) ==
    { native[n].name : n \in {n \in DOMAIN native : native[n].requires \subseteq capabilities} }

Offered(capabilities) ==
    LET own     == FromRegistry(capabilities)
        adapter == AdapterTools \ own
        remote  == provided \ (own \cup adapter)
        agents  == AgentTools \ (own \cup adapter \cup remote)
    IN  { Tool("native", n) : n \in own } \cup { Tool("adapter", n) : n \in adapter }
        \cup { Tool("remote", n) : n \in remote } \cup { Tool("agent", n) : n \in agents }

(* _filter_by_availability asks each predicate once, under the name as the *)
(* registry resolves it, whatever place the tool comes from.               *)
GateOf(name) ==
    IF Canonical(name) \in DOMAIN native THEN native[Canonical(name)].gate ELSE None
Gates == { native[n].gate : n \in DOMAIN native } \ {None}
Available_AskEach(offer, open) ==
    { t \in offer : GateOf(t.name) = None \/ t.name \in open }
Available(offer, open) == { t \in offer : GateOf(t.name) \in open \cup {None} }

Offer(c) ==
    /\ call[c].pc = "idle" /\ registered = Len(CoreModules)
    /\ \E capabilities \in {{"docker", "files"}, {"docker", "files", "google_oauth"}} :
       \E open \in SUBSET (Gates \cup {native[n].name : n \in DOMAIN native}) :
          call' = [call EXCEPT ![c].pc = "offered",
                               ![c].offer = Available(Offered(capabilities), open)]
    /\ UNCHANGED <<registered, native, provided>>

Choose(c) ==
    /\ call[c].pc = "offered"
    /\ \E t \in call[c].offer :
          call' = [call EXCEPT ![c].pc = "called", ![c].tool = t, ![c].offer = {}]
    /\ UNCHANGED <<registered, native, provided>>

(* The open circuit of the tool answers for it.                            *)
Refused(c) ==
    /\ call[c].pc = "called"
    /\ call' = [call EXCEPT ![c].pc = "over"]
    /\ UNCHANGED <<registered, native, provided>>

(* _route_tool.  A name with "__" that no server provides now goes on to   *)
(* the table and to the registry, which resolves its spelling.             *)
Route_RegistryFirst(name) ==
    CASE name \in AgentTools -> Tool("agent", name)
      [] Canonical(name) \in DOMAIN native -> Tool("native", native[Canonical(name)].name)
      [] name \in provided -> Tool("remote", name)
      [] name \in Handled -> Tool("adapter", name)
      [] OTHER -> None
Route(name) ==
    CASE name \in AgentTools -> Tool("agent", name)
      [] name \notin AgentTools /\ name \in provided -> Tool("remote", name)
      [] name \notin AgentTools \cup provided /\ name \in Handled -> Tool("adapter", name)
      [] name \notin AgentTools \cup provided \cup Handled
            /\ Canonical(name) \in DOMAIN native -> Tool("native", native[Canonical(name)].name)
      [] OTHER -> None

Begin(c) ==
    LET t == Route(call[c].tool.name) IN
    /\ call[c].pc = "called"
    /\ call' = [call EXCEPT
          ![c].ran = t, ![c].gone = call[c].tool.name \notin provided,
          ![c].pc = IF t = None THEN "over" ELSE "running",
          ![c].heard = IF t # None /\ t.origin = "native" THEN <<"tool_start">> ELSE <<>>]
    /\ UNCHANGED <<registered, native, provided>>

(* The handler returns or raises, which PluginRegistry.execute tells its   *)
(* hooks and turns into text; the others' errors end in execute().         *)
Heard_EndAlways(c, event) ==
    IF event = "tool_error" THEN call[c].heard \o <<"tool_error", "tool_end">>
    ELSE Append(call[c].heard, event)
Heard(c, event) == Append(call[c].heard, event)

Finish(c) ==
    /\ call[c].pc = "running"
    /\ \E event \in {"tool_end", "tool_error"} :
          call' = [call EXCEPT ![c].pc = "over",
                     ![c].heard = IF call[c].ran.origin = "native" THEN Heard(c, event) ELSE @]
    /\ UNCHANGED <<registered, native, provided>>

(* The request is cancelled: no handler of an Exception sees it.           *)
Cancelled(c) ==
    /\ call[c].pc = "running"
    /\ call' = [call EXCEPT ![c].pc = "cancelled"]
    /\ UNCHANGED <<registered, native, provided>>

DispatchNext ==
    \/ RegisterModule \/ ServersChange
    \/ \E c \in Calls :
          Offer(c) \/ Choose(c) \/ Refused(c) \/ Begin(c) \/ Finish(c) \/ Cancelled(c)

DispatchSpec == DispatchInit /\ [][DispatchNext]_dispatchVars

-----------------------------------------------------------------------------
(* The variables stay within their types.                                  *)
DispatchTypeOK ==
    /\ registered \in 0 .. Len(CoreModules)
    /\ \A n \in DOMAIN native : Canonical(native[n].name) = n
    /\ provided \subseteq RemoteTools
    /\ \A c \in Calls :
          call[c].pc \in {"idle", "offered", "called", "running", "over", "cancelled"}

(* The tool that runs is the one that was offered, whatever came or went   *)
(* between the offer and the call.  Two exceptions are in the code: a name *)
(* of the executor's table hides the registry's tool of that name          *)
(* (terminal_tool's read_file and write_file run in the sandbox), and the  *)
(* name of a tool whose server has gone may be a spelling of a registry    *)
(* tool, which then runs.                                                  *)
RunsWhatWasOffered ==
    \A c \in Calls :
        call[c].ran # None /\ call[c].ran # call[c].tool =>
           \/ call[c].tool.origin = "native" /\ call[c].tool.name \in Handled
           \/ call[c].tool.origin = "remote" /\ call[c].gone
                /\ call[c].ran.origin = "native"
                /\ Canonical(call[c].tool.name) = Canonical(call[c].ran.name)

(* Tools behind one predicate are offered or hidden together.              *)
OfferedTogether ==
    \A c \in Calls : call[c].pc = "offered" =>
        \A n, m \in DOMAIN native :
            /\ native[n].gate # None /\ native[n].gate = native[m].gate
            /\ native[n].requires = native[m].requires
            => (Tool("native", native[n].name) \in call[c].offer
                  <=> Tool("native", native[m].name) \in call[c].offer)

(* A plugin that hears a tool start hears it end or fail, once, unless the *)
(* request was cancelled.                                                  *)
StartsAreEnded ==
    \A c \in Calls :
        /\ call[c].heard # <<>> => Head(call[c].heard) = "tool_start"
        /\ call[c].pc = "over" => Len(call[c].heard) \in {0, 2}
        /\ call[c].pc = "cancelled" => Len(call[c].heard) \in {0, 1}

DispatchSafe == RunsWhatWasOffered /\ OfferedTogether /\ StartsAreEnded

-----------------------------------------------------------------------------
(* The policies on tools (core/plugins/policies.py): rules on tools and    *)
(* groups of tools, ordered by priority, and limits on risk, intent and    *)
(* the rate of calls.  PluginRegistry.execute asks Evaluate; the enhanced  *)
(* checks are for callers that record the calls they make.                 *)
CONSTANTS
    Rules,         \* [name, groups, tools, action, users, admin, priority]; {} of users: any
    Groups, Tools, Users, Nobody,
    Builtin,       \* BUILTIN_GROUPS: [group -> tools]
    Risks,         \* the order of risk levels: <<"safe", "moderate", "dangerous">>
    MaxRisk, RiskOf(_), RefusedIntents, IntentOf(_),
    Admins, AdminForDangerous,
    Callers,
    MaxCalls, Window,     \* the rate limit of every tool
    MaxClock, MaxRules    \* bounds

VARIABLES
    policies,  \* _policies
    added,     \* history: the rules in the order in which they were added
    default,   \* _default_action
    groups,    \* _groups: [group -> tools], absent ones empty
    recorded,  \* _call_counts: [Tools -> [Users -> sequence of times]]
    checked,   \* [Callers -> <<tool, user>> of a call allowed and not recorded yet, or <<>>]
    overlap,   \* history: <<tool, user>> with calls checked at once
    clock

policyVars == <<policies, added, default, groups, recorded, checked, overlap, clock>>

PolicyInit ==
    /\ policies = <<>> /\ added = <<>> /\ default = "allow" /\ clock = 0
    /\ groups = Builtin
    /\ recorded = [t \in Tools |-> [u \in Users |-> <<>>]] /\ overlap = {}
    /\ checked = [c \in Callers |-> <<>>]

-----------------------------------------------------------------------------
(* list.sort(key=priority, reverse=True) is stable in both directions.     *)
Precedes(rules, i, j) ==
    rules[i].priority > rules[j].priority
    \/ (rules[i].priority = rules[j].priority /\ i < j)
Sorted_NewestFirst(rules) ==
    LET order == SetToSortSeq(DOMAIN rules, LAMBDA i, j :
                     rules[i].priority > rules[j].priority
                     \/ (rules[i].priority = rules[j].priority /\ i > j))
    IN  [k \in DOMAIN rules |-> rules[order[k]]]
Sorted(rules) ==
    LET order == SetToSortSeq(DOMAIN rules, LAMBDA i, j : Precedes(rules, i, j))
    IN  [k \in DOMAIN rules |-> rules[order[k]]]

AddPolicy(p) ==
    /\ Len(policies) < MaxRules
    /\ policies' = Sorted(Append(policies, p)) /\ added' = Append(added, p)
    /\ UNCHANGED <<default, groups, recorded, checked, overlap, clock>>

RemovePolicy(name) ==
    LET Others(rules) == SelectSeq(rules, LAMBDA p : p.name # name) IN
    /\ policies' = Others(policies) /\ added' = Others(added) /\ policies' # policies
    /\ UNCHANGED <<default, groups, recorded, checked, overlap, clock>>

SetDefault(action) ==
    /\ default' = action /\ action # default
    /\ UNCHANGED <<policies, added, groups, recorded, checked, overlap, clock>>

AddToGroup(g, t) ==
    /\ t \notin groups[g]
    /\ groups' = [groups EXCEPT ![g] = @ \cup {t}]
    /\ UNCHANGED <<policies, added, default, recorded, checked, overlap, clock>>

-----------------------------------------------------------------------------
Matches(p, t, u) ==
    /\ t \in p.tools \cup UNION {groups[g] : g \in p.groups}
    /\ p.users = {} \/ u \in p.users
    /\ p.admin => u \in Admins

Evaluate(t, u) ==
    LET matching == SelectSeq(policies, LAMBDA p : Matches(p, t, u)) IN
    IF matching = <<>> THEN default ELSE Head(matching).action

(* check_risk_level: an unknown level counts as the highest.               *)
Level(r) == IF \E i \in DOMAIN Risks : Risks[i] = r
            THEN CHOOSE i \in DOMAIN Risks : Risks[i] = r ELSE Len(Risks)
RiskAllowed(t, u) ==
    /\ Level(RiskOf(t)) <= Level(MaxRisk)
    /\ Level(RiskOf(t)) = Len(Risks) /\ AdminForDangerous => u \in Admins

(* check_rate_limit: nobody in particular is not limited.                  *)
Recent(t, u) == SelectSeq(recorded[t][u], LAMBDA at : at + Window > clock)
WithinRate_OffByOne(t, u) == u = Nobody \/ Len(Recent(t, u)) <= MaxCalls
WithinRate(t, u) == u = Nobody \/ Len(Recent(t, u)) < MaxCalls

EvaluateEnhanced(t, u) ==
    IF Evaluate(t, u) # "allow" THEN Evaluate(t, u)
    ELSE IF RiskAllowed(t, u) /\ IntentOf(t) \notin RefusedIntents /\ WithinRate(t, u)
         THEN "allow" ELSE "deny"

(* A caller asks, makes its call, and records it.                          *)
Check(c, t, u) ==
    /\ checked[c] = <<>> /\ EvaluateEnhanced(t, u) = "allow"
    /\ checked' = [checked EXCEPT ![c] = <<t, u>>]
    /\ recorded' = [recorded EXCEPT ![t][u] = IF u = Nobody THEN @ ELSE Recent(t, u)]
    /\ overlap' = IF \E d \in Callers : checked[d] = <<t, u>>
                  THEN overlap \cup {<<t, u>>} ELSE overlap
    /\ UNCHANGED <<policies, added, default, groups, clock>>

RecordCall(c) ==
    LET t == checked[c][1]  u == checked[c][2] IN
    /\ checked[c] # <<>>
    /\ checked' = [checked EXCEPT ![c] = <<>>]
    /\ recorded' = [recorded EXCEPT ![t][u] = IF u = Nobody THEN @ ELSE Append(@, clock)]
    /\ UNCHANGED <<policies, added, default, groups, overlap, clock>>

Tick ==
    /\ clock < MaxClock /\ clock' = clock + 1
    /\ UNCHANGED <<policies, added, default, groups, recorded, checked, overlap>>

PolicyNext ==
    \/ \E p \in Rules : AddPolicy(p) \/ RemovePolicy(p.name)
    \/ \E action \in {"allow", "deny"} : SetDefault(action)
    \/ \E g \in Groups, t \in Tools : AddToGroup(g, t)
    \/ Tick
    \/ \E c \in Callers : RecordCall(c) \/ \E t \in Tools, u \in Users : Check(c, t, u)

PolicySpec == PolicyInit /\ [][PolicyNext]_policyVars

-----------------------------------------------------------------------------
(* Rules and groups are made of what exists; times do not run ahead.       *)
PolicyTypeOK ==
    /\ \A i \in DOMAIN policies : policies[i] \in Rules
    /\ default \in {"allow", "deny"} /\ clock \in 0 .. MaxClock
    /\ \A g \in Groups : groups[g] \subseteq Tools
    /\ \A t \in Tools, u \in Users :
          \A i \in DOMAIN recorded[t][u] : recorded[t][u][i] <= clock

(* The answer is that of the rule of highest priority that matches, of     *)
(* several the one added first, whatever was added or removed meanwhile.   *)
FirstOfTheHighest ==
    \A t \in Tools, u \in Users :
        LET matching == {i \in DOMAIN added : Matches(added[i], t, u)}
            best == {i \in matching : \A j \in matching : added[i].priority >= added[j].priority}
        IN  Evaluate(t, u) = IF best = {} THEN default ELSE added[Min(best)].action

(* A user makes no more calls of a tool within a window than its limit, but*)
(* for calls that were checked before another one was recorded.            *)
RateIsKept ==
    \A t \in Tools, u \in Users : <<t, u>> \notin overlap => Len(Recent(t, u)) <= MaxCalls

PoliciesSafe == FirstOfTheHighest /\ RateIsKept

-----------------------------------------------------------------------------
(***************************************************************************)
(* The loading and reloading of tool modules (tools/_loader.py) into the   *)
(* registry (behind tools/_registry.py).  A file holds a version of a      *)
(* module; the loader executes the file, awaits the module's initialize(), *)
(* registers its tools and remembers the module; to reload, it first       *)
(* awaits cleanup() and removes the tools that carry the module's name.    *)
(* Loads of one file may overlap: nothing locks the loader.                *)
(***************************************************************************)

CONSTANTS
    Files,         \* the files of the tools directory, numbers in the order of their names
    Loads,         \* calls of load_all, reload_all, reload_module and unload_module
    Versions,      \* 1 .. n, what a file may hold, the newer the higher
    Content(_, _)  \* (file, version) -> [module, tools, imports]

VARIABLES
    disk,      \* [Files -> version on disk, 0 for no file]
    modules,   \* _modules: [Files -> version of the module object, 0 for none]
    mtimes,    \* _module_mtimes: [Files -> version, 0 for unknown or cleared]
    registry,  \* tools and tool_sources: canonical name -> [source, file, version]
    load,      \* [Loads -> [pc, todo, version, mtime]]
    spoiled,   \* history: files with overlapping loads or a load that a conflict ended
    omitted    \* history: <<file, name>> the last load of the file left to another module

loaderVars == <<disk, modules, mtimes, registry, load, spoiled, omitted>>

ModuleOf(f, v) == Content(f, v).module
ToolsOf(f, v) == Content(f, v).tools

ToolLoaderInit ==
    /\ disk \in [Files -> Versions] /\ modules = [f \in Files |-> 0]
    /\ mtimes = [f \in Files |-> 0] /\ registry = <<>> /\ spoiled = {} /\ omitted = {}
    /\ load = [l \in Loads |-> [pc |-> "idle", todo |-> <<>>, version |-> 0, mtime |-> 0]]

File(l) == Head(load[l].todo)
Busy(l, f) == load[l].pc \in {"cleanup", "initialize", "unload"} /\ File(l) = f
Overlap(l, f) == IF \E k \in Loads \ {l} : Busy(k, f) THEN {f} ELSE {}
Discovered == SetToSortSeq({f \in Files : disk[f] # 0}, <)

(* The call turns to its next file, or returns.                            *)
Onward(l) == [load EXCEPT ![l].todo = Tail(@), ![l].version = 0, ![l].mtime = 0,
                  ![l].pc = IF Len(load[l].todo) = 1 THEN "over" ELSE "next"]

-----------------------------------------------------------------------------
(* A file is changed or removed.                                           *)
Edit(f) ==
    /\ \E v \in Versions \cup {0} :
          (v = 0 \/ v > disk[f]) /\ disk' = [disk EXCEPT ![f] = v]
    /\ UNCHANGED <<modules, mtimes, registry, load, spoiled, omitted>>

LoadAll(l) ==
    /\ load[l].pc = "idle" /\ Discovered # <<>>
    /\ \/ UNCHANGED mtimes
       \/ mtimes' = [f \in Files |-> 0]   \* reload_all
    /\ load' = [load EXCEPT ![l].pc = "next", ![l].todo = Discovered]
    /\ UNCHANGED <<disk, modules, registry, spoiled, omitted>>

ReloadModule(l, f) ==
    /\ load[l].pc = "idle"
    /\ mtimes' = [mtimes EXCEPT ![f] = 0]
    /\ load' = [load EXCEPT ![l].pc = "next", ![l].todo = <<f>>]
    /\ UNCHANGED <<disk, modules, registry, spoiled, omitted>>

UnloadModule(l, f) ==
    /\ load[l].pc = "idle" /\ modules[f] # 0
    /\ load' = [load EXCEPT ![l].pc = "unload", ![l].todo = <<f>>, ![l].version = modules[f]]
    /\ spoiled' = spoiled \cup Overlap(l, f)
    /\ UNCHANGED <<disk, modules, mtimes, registry, omitted>>

(* A file that is gone is left as it is, tools and all; one that has not   *)
(* changed is left too.                                                    *)
Unchanged(l) ==
    LET f == File(l) IN
    disk[f] = 0 \/ (modules[f] # 0 /\ disk[f] <= mtimes[f])

Skip(l) ==
    /\ load[l].pc = "next" /\ Unchanged(l)
    /\ load' = Onward(l)
    /\ UNCHANGED <<disk, modules, mtimes, registry, spoiled, omitted>>

BeginCleanup(l) ==
    LET f == File(l) IN
    /\ load[l].pc = "next" /\ ~Unchanged(l) /\ modules[f] # 0
    /\ load' = [load EXCEPT ![l].pc = "cleanup", ![l].version = modules[f],
                            ![l].mtime = disk[f]]
    /\ spoiled' = spoiled \cup Overlap(l, f)
    /\ UNCHANGED <<disk, modules, mtimes, registry, omitted>>

(* The module is executed, which may fail, and begins its initialize().    *)
Execute(l, mtime) ==
    LET f == File(l) IN
    IF disk[f] # 0 /\ Content(f, disk[f]).imports
    THEN load' = [load EXCEPT ![l].pc = "initialize", ![l].version = disk[f],
                              ![l].mtime = mtime]
    ELSE load' = Onward(l)

BeginLoad(l) ==
    LET f == File(l) IN
    /\ load[l].pc = "next" /\ ~Unchanged(l) /\ modules[f] = 0
    /\ Execute(l, disk[f])
    /\ spoiled' = spoiled \cup Overlap(l, f)
    /\ UNCHANGED <<disk, modules, mtimes, registry, omitted>>

(* unregister_module removes what carries the name of the module whose     *)
(* cleanup was awaited.  A call that finds the module forgotten meanwhile  *)
(* ends with a KeyError.                                                   *)
Unregistered_Version(f, v) ==
    Restrict(registry, {n \in DOMAIN registry : registry[n].version # v})
Unregistered(f, v) ==
    Restrict(registry, {n \in DOMAIN registry : registry[n].source # ModuleOf(f, v)})

Cleanup(l) ==
    LET f == File(l) IN
    /\ load[l].pc \in {"cleanup", "unload"}
    /\ registry' = Unregistered(f, load[l].version)
    /\ modules' = [modules EXCEPT ![f] = 0]
    /\ IF modules[f] = 0
       THEN /\ load' = [load EXCEPT ![l].pc = "over", ![l].todo = <<>>]
            /\ UNCHANGED mtimes
       ELSE /\ mtimes' = [mtimes EXCEPT ![f] = 0]
            /\ IF load[l].pc = "unload" THEN load' = Onward(l) ELSE Execute(l, load[l].mtime)
    /\ UNCHANGED <<disk, spoiled, omitted>>

InitializeFails(l) ==
    /\ load[l].pc = "initialize"
    /\ load' = Onward(l)
    /\ UNCHANGED <<disk, modules, mtimes, registry, spoiled, omitted>>

(* ToolRegistry.register raises for a name that another module holds; a    *)
(* name that only resolves to one held by another is left to register_tool,*)
(* which records a diagnostic and returns.                                 *)
Held(table, n, m) == n \in DOMAIN table /\ table[n].source # m
Enter_Takes(acc, t, f, v) ==
    [acc EXCEPT !.table = (Canonical(t) :> [source |-> ModuleOf(f, v), file |-> f,
                                            version |-> v]) @@ @]
Enter(acc, t, f, v) ==
    IF acc.raised \/ Held(acc.table, t, ModuleOf(f, v)) THEN [acc EXCEPT !.raised = TRUE]
    ELSE IF Held(acc.table, Canonical(t), ModuleOf(f, v))
         THEN [acc EXCEPT !.omitted = @ \cup {<<f, Canonical(t)>>}]
    ELSE Enter_Takes(acc, t, f, v)

Initialized(l) ==
    LET f == File(l)
        v == load[l].version
        done == FoldLeft(LAMBDA acc, t : Enter(acc, t, f, v),
                         [table |-> registry, raised |-> FALSE,
                          omitted |-> {x \in omitted : x[1] # f}], ToolsOf(f, v))
    IN
    /\ load[l].pc = "initialize"
    /\ registry' = done.table /\ omitted' = done.omitted
    /\ IF done.raised
       THEN spoiled' = spoiled \cup {f} /\ UNCHANGED <<modules, mtimes>>
       ELSE /\ modules' = [modules EXCEPT ![f] = v]
            /\ mtimes' = [mtimes EXCEPT ![f] = load[l].mtime]
            /\ UNCHANGED spoiled
    /\ load' = Onward(l)
    /\ UNCHANGED disk

ToolLoaderNext ==
    \/ \E f \in Files : Edit(f)
    \/ \E l \in Loads :
          \/ LoadAll(l)
          \/ \E f \in Files : ReloadModule(l, f) \/ UnloadModule(l, f)
          \/ Skip(l) \/ BeginCleanup(l) \/ BeginLoad(l) \/ Cleanup(l)
          \/ InitializeFails(l) \/ Initialized(l)

ToolLoaderSpec == ToolLoaderInit /\ [][ToolLoaderNext]_loaderVars

-----------------------------------------------------------------------------
ToolLoaderTypeOK ==
    /\ disk \in [Files -> Versions \cup {0}] /\ modules \in [Files -> Versions \cup {0}]
    /\ mtimes \in [Files -> Versions \cup {0}] /\ spoiled \subseteq Files
    /\ \A n \in DOMAIN registry : registry[n].file \in Files /\ registry[n].version \in Versions
    /\ \A l \in Loads : load[l].pc \in {"idle", "next", "cleanup", "unload", "initialize",
                                        "over"}

(* Reloading leaves no tool behind: a registered tool belongs to the       *)
(* module object the loader remembers for its file, the tools of a         *)
(* remembered module are registered, and none was taken from another       *)
(* module, except after loads of the file overlapped or a conflict ended   *)
(* one half-way.  (A name that resolves to another module's tool is        *)
(* silently left out.)                                                     *)
NothingLeftBehind ==
    \A f \in Files \ spoiled :
        /\ \A n \in DOMAIN registry : registry[n].file = f => modules[f] = registry[n].version
        /\ modules[f] # 0 =>
              \A i \in DOMAIN ToolsOf(f, modules[f]) :
                  LET n == Canonical(ToolsOf(f, modules[f])[i])
                  IN  (n \in DOMAIN registry /\ registry[n].file = f) \/ <<f, n>> \in omitted

(* A tool changes hands only after it was removed.                         *)
NothingTaken ==
    [][\A n \in DOMAIN registry \cap DOMAIN registry' :
          registry[n].source = registry'[n].source]_loaderVars
=============================================================================
