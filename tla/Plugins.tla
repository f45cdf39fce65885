-------------------------------- MODULE Plugins --------------------------------
(***************************************************************************)
(* Plugins: the row of the disabled ones, the registry, and the worker       *)
(* thread each plugin runs in. A request reads the row, writes it, looks at *)
(* the registry, and waits for a worker to load or to unload; other requests *)
(* do the same in between. A worker may also throw, which nobody hears once  *)
(* it is loaded, so that the API dies and begins again, or just exit.        *)
(*                                                                         *)
(* A plugin's name is that of its directory: of another name, the routes      *)
(* would never find it loaded. Timeouts are failures.                       *)
(***************************************************************************)
EXTENDS Naturals, FiniteSets

CONSTANTS
    PluginDirs,     \* the directories under PLUGIN_DIR
    PluginCalls,    \* requests to enable or disable
    PluginWorkers,  \* bound: the workers that may be running
    MaxToggles      \* bound on the requests between two starts of the API

NoWorker == "none"

ASSUME PluginsAssumption == MaxToggles \in Nat /\ NoWorker \notin PluginWorkers

VARIABLES
    disabled,   \* the row plugins.disabled
    registry,   \* plugin -> the worker of its contract
    workers,    \* worker -> the plugin it runs and how far it is
    calls,      \* the requests
    toggles,    \* bounds the requests
    \* What the properties remember since the last start:
    asked,      \* plugin -> the last request about it that was begun
    overlapped, \* plugins about which a request was begun while any other was under way
    unclean     \* plugins whose unloading failed or whose worker exited

pluginVars == <<disabled, registry, workers, calls, toggles, asked, overlapped, unclean>>

PluginOps == {"enable", "disable"}
Free == [pc |-> "free", dir |-> "none"]
NoCall == [pc |-> "idle", op |-> "enable", dir |-> "none", row |-> {}, worker |-> NoWorker]

PluginsTypeOK ==
    /\ disabled \subseteq PluginDirs
    /\ registry \in [PluginDirs -> PluginWorkers \cup {NoWorker}]
    /\ workers \in [PluginWorkers ->
         [pc : {"free", "loading", "ready", "ended"}, dir : PluginDirs \cup {"none"}]]
    /\ calls \in [PluginCalls ->
         [pc : {"idle", "read", "write", "look", "load", "unload"}, op : PluginOps,
          dir : PluginDirs \cup {"none"}, row : SUBSET PluginDirs,
          worker : PluginWorkers \cup {NoWorker}]]
    /\ toggles \in 0 .. MaxToggles
    /\ asked \in [PluginDirs -> PluginOps \cup {"none"}]
    /\ overlapped \subseteq PluginDirs /\ unclean \subseteq PluginDirs

Registered(d) == registry[d] # NoWorker
Serving == {c \in PluginCalls : calls[c].pc # "idle"}
FreeWorkers == {w \in PluginWorkers :
                  workers[w].pc \in {"free", "ended"} /\ \A d \in PluginDirs : registry[d] # w}

--------------------------------------------------------------------------------
\* Starting

\* loadPluginsFromDir: one worker after the other for those that are not disabled; one that
\* fails is left out. No request is served yet.
Started(ds) ==
    \E chosen \in [ds -> PluginWorkers] :
      /\ \A d, e \in ds : chosen[d] = chosen[e] => d = e
      /\ registry' = [d \in PluginDirs |-> IF d \in ds THEN chosen[d] ELSE NoWorker]
      /\ workers' = [w \in PluginWorkers |->
           IF \E d \in ds : chosen[d] = w
           THEN [pc |-> "ready", dir |-> CHOOSE d \in ds : chosen[d] = w] ELSE Free]

Restart ==
    /\ \E ds \in SUBSET (PluginDirs \ disabled) : Started(ds)
    /\ calls' = [c \in PluginCalls |-> NoCall] /\ toggles' = 0
    /\ asked' = [d \in PluginDirs |-> "none"] /\ overlapped' = {} /\ unclean' = {}
    /\ UNCHANGED disabled

\* An error thrown by a plugin that is loaded: nobody listens for it, the process ends.
WorkerThrows(w) ==
    /\ workers[w].pc = "ready"
    /\ \A c \in Serving : ~ (calls[c].pc = "unload" /\ calls[c].worker = w)
    /\ Restart

\* A plugin that is loaded ends its thread; the registry does not hear of it.
WorkerExits(w) ==
    /\ workers[w].pc = "ready"
    /\ \A c \in Serving : ~ (calls[c].pc = "unload" /\ calls[c].worker = w)
    /\ workers' = [workers EXCEPT ![w].pc = "ended"]
    /\ unclean' = unclean \cup {workers[w].dir}
    /\ UNCHANGED <<disabled, registry, calls, toggles, asked, overlapped>>

--------------------------------------------------------------------------------
\* Requests

Begin(c, d, op) ==
    /\ calls[c].pc = "idle" /\ toggles < MaxToggles
    /\ calls' = [calls EXCEPT ![c] = [NoCall EXCEPT !.pc = "read", !.op = op, !.dir = d]]
    /\ toggles' = toggles + 1
    /\ asked' = [asked EXCEPT ![d] = op]
    /\ overlapped' = IF Serving = {} THEN overlapped
                     ELSE overlapped \cup {d} \cup {calls[b].dir : b \in Serving}
    /\ UNCHANGED <<disabled, registry, workers, unclean>>

\* readDisabled.
ReadDisabled(c) ==
    /\ calls[c].pc = "read"
    /\ calls' = [calls EXCEPT ![c] = [calls[c] EXCEPT !.pc = "write", !.row = disabled]]
    /\ UNCHANGED <<disabled, registry, workers, toggles, asked, overlapped, unclean>>

\* writeDisabled: the set that was read, with the change. Nothing of it happens when the
\* write fails.
WriteDisabled(c) ==
    /\ calls[c].pc = "write"
    /\ \/ /\ disabled' = IF calls[c].op = "enable" THEN calls[c].row \ {calls[c].dir}
                         ELSE calls[c].row \cup {calls[c].dir}
          /\ calls' = [calls EXCEPT ![c].pc = "look"]
          /\ UNCHANGED <<asked>>
       \/ /\ calls' = [calls EXCEPT ![c] = NoCall]
          /\ asked' = [asked EXCEPT ![calls[c].dir] = "none"]
          /\ UNCHANGED <<disabled>>
    /\ UNCHANGED <<registry, workers, toggles, overlapped, unclean>>

Done(c) == calls' = [calls EXCEPT ![c] = NoCall]

\* enable: a worker for a plugin that is not in the registry.
LookEnable(c) ==
    /\ calls[c].pc = "look" /\ calls[c].op = "enable"
    /\ IF Registered(calls[c].dir)
       THEN Done(c) /\ UNCHANGED workers
       ELSE \E w \in FreeWorkers :
              /\ workers' = [workers EXCEPT ![w] = [pc |-> "loading", dir |-> calls[c].dir]]
              /\ calls' = [calls EXCEPT ![c] = [calls[c] EXCEPT !.pc = "load", !.worker = w]]
    /\ UNCHANGED <<disabled, registry, toggles, asked, overlapped, unclean>>

\* disable: the worker in the registry is asked to unload.
LookDisable(c) ==
    /\ calls[c].pc = "look" /\ calls[c].op = "disable"
    /\ IF Registered(calls[c].dir)
       THEN calls' = [calls EXCEPT ![c] = [calls[c] EXCEPT !.pc = "unload",
                                                           !.worker = registry[calls[c].dir]]]
       ELSE Done(c)
    /\ UNCHANGED <<disabled, registry, workers, toggles, asked, overlapped, unclean>>

\* The worker is ready: its contract is registered, unless one of that name already is.
LoadDone(c) ==
    /\ calls[c].pc = "load"
    /\ LET d == calls[c].dir w == calls[c].worker IN
       /\ workers' = [workers EXCEPT ![w].pc = "ready"]
       /\ registry' = IF Registered(d) THEN registry ELSE [registry EXCEPT ![d] = w]
    /\ Done(c)
    /\ UNCHANGED <<disabled, toggles, asked, overlapped, unclean>>

\* It reports an error, throws, exits or takes longer than 5 s: it is ended. The row stays.
LoadFails(c) ==
    /\ calls[c].pc = "load"
    /\ workers' = [workers EXCEPT ![calls[c].worker].pc = "ended"]
    /\ Done(c)
    /\ UNCHANGED <<disabled, registry, toggles, asked, overlapped, unclean>>

Waiting(w) == {c \in PluginCalls : calls[c].pc = "unload" /\ calls[c].worker = w}

\* The requests that wait for worker w go on.
Answered(w) == calls' = [c \in PluginCalls |-> IF c \in Waiting(w) THEN NoCall ELSE calls[c]]

\* Mutated form: the worker is asked to unload, and left.
UnloadedRunning(w) ==
    /\ Waiting(w) # {} /\ workers[w].pc = "ready"
    /\ registry' = [registry EXCEPT ![workers[w].dir] = NoWorker]
    /\ Answered(w)
    /\ UNCHANGED <<disabled, workers, toggles, asked, overlapped, unclean>>

\* It has unloaded and is ended, and its name leaves the registry.
Unloaded(w) ==
    /\ Waiting(w) # {} /\ workers[w].pc = "ready"
    /\ workers' = [workers EXCEPT ![w].pc = "ended"]
    /\ registry' = [registry EXCEPT ![workers[w].dir] = NoWorker]
    /\ Answered(w)
    /\ UNCHANGED <<disabled, toggles, asked, overlapped, unclean>>

\* It fails to, or does not answer: it is ended, and its name stays in the registry.
UnloadFails(w) ==
    /\ Waiting(w) # {}
    /\ workers' = [workers EXCEPT ![w].pc = "ended"]
    /\ unclean' = unclean \cup {workers[w].dir}
    /\ Answered(w)
    /\ UNCHANGED <<disabled, registry, toggles, asked, overlapped>>

PluginsInit ==
    /\ disabled \in SUBSET PluginDirs
    /\ registry = [d \in PluginDirs |-> NoWorker]
    /\ workers = [w \in PluginWorkers |-> Free]
    /\ calls = [c \in PluginCalls |-> NoCall] /\ toggles = 0
    /\ asked = [d \in PluginDirs |-> "none"] /\ overlapped = {} /\ unclean = {}

PluginsNext ==
    \/ Restart
    \/ \E w \in PluginWorkers :
         WorkerThrows(w) \/ WorkerExits(w) \/ Unloaded(w) \/ UnloadFails(w)
    \/ \E c \in PluginCalls :
         \/ \E d \in PluginDirs, op \in PluginOps : Begin(c, d, op)
         \/ ReadDisabled(c) \/ WriteDisabled(c) \/ LookEnable(c) \/ LookDisable(c)
         \/ LoadDone(c) \/ LoadFails(c)

PluginsSpec == PluginsInit /\ [][PluginsNext]_pluginVars

--------------------------------------------------------------------------------
\* Properties

Running(d) == {w \in PluginWorkers : workers[w].pc = "ready" /\ workers[w].dir = d}

\* Once its requests are over, a plugin is as the last of them asked, in the row, in the
\* registry and in its thread, and runs once at most: unless requests overlapped - then a
\* request may have written a row read before another's, found a plugin that was going, or
\* left a second worker behind - or its unloading failed, or its worker exited
\* (plugins/index.ts:127 and 167, plugin-isolate.ts:78).
PluginsAsAsked ==
    \A d \in PluginDirs \ (overlapped \cup unclean) :
      (\A c \in Serving : calls[c].dir # d) =>
        /\ Cardinality(Running(d)) <= 1
        /\ Registered(d) <=> registry[d] \in Running(d)
        /\ Running(d) # {} => Registered(d)
        /\ asked[d] = "disable" => d \in disabled /\ ~ Registered(d)
        /\ asked[d] = "enable" => d \notin disabled
================================================================================
