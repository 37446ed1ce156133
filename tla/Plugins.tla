------------------------------ MODULE Plugins ------------------------------
(***************************************************************************)
(* What the directories under plugins/ add to the program: the tool        *)
(* plugins of ToolPluginLoader and ToolRegistry, the provider plugins of   *)
(* ProviderPluginLoader and AdapterRegistry, and the export formats of     *)
(* SessionExportPluginLoader.  A registry is built the first time it is    *)
(* asked for; the directories do not change.                               *)
(*                                                                         *)
(* A directory is [name, manifest, id, on, tool, provider, export]: its    *)
(* manifest is missing, bad (not a YAML object) or ok; then id and on are  *)
(* the plugin's, and the other three its sections, or None.  A section is  *)
(* [on, entry, works, gives], tool sections also [runs, caps, handles]:    *)
(* whether it is enabled, names an entrypoint, and the entrypoint runs;    *)
(* and the names of what it contributes, tools it defines and tools it     *)
(* runs apart.  Titles and icons are left out.                             *)
(***************************************************************************)
EXTENDS Naturals, Sequences, FiniteSets, SequencesExt

CONSTANTS None,
          Directories,  \* what plugins/ may hold, in the order of the names
          BuiltinId,    \* the plugin that replaces the builtin tools
          Builtin,      \* names of the builtin tools
          RequestScoped, \* names of the tools a request brings its own handler for
          Adapters,     \* keys of the adapters of the program itself
          Strict,       \* keys that only a plugin may serve
          Formats       \* export formats of the program itself

VARIABLES dirs,       \* plugins/
          tools,      \* ToolRegistry, or None
          providers,  \* AdapterRegistry, or None
          exports,    \* the export formats, or None
          exported    \* the last export

vars == <<dirs, tools, providers, exports, exported>>

Core == 0  \* where a name of the program itself comes from; else the directory

-----------------------------------------------------------------------------
(* Capabilities of a manifest *)

Distinct(seq) == \A i, j \in DOMAIN seq : seq[i] = seq[j] => i = j

\* _load_chat_capability_options
ValidOptions(cap) == Distinct(cap.options) /\ (~cap.select => cap.options = <<>>)

\* First a faulty one that takes any default.
ValidCapabilityUnchecked(cap) == ValidOptions(cap) /\ (cap.select => cap.options # <<>>)
ValidCapability(cap) ==
    /\ ValidOptions(cap)
    /\ cap.select => /\ cap.options # <<>>
                     /\ cap.default = None \/ cap.default \in Range(cap.options)

ValidCapabilities(caps) ==
    /\ Distinct([k \in DOMAIN caps |-> caps[k].id])
    /\ \A k \in DOMAIN caps : ValidCapability(caps[k])

DefaultOf(cap) == IF cap.select /\ cap.default = None THEN cap.options[1] ELSE cap.default

-----------------------------------------------------------------------------
(* Loading.  d is plugins/ as it is read, i a directory of it. *)

\* _load_manifest; the export loader checks the entrypoint when it needs it.
Valid(kind, section) ==
    \/ kind = "export"
    \/ section.entry /\ (kind = "tool" => ValidCapabilities(section.caps))

HasSection(kind, dir) == dir.manifest = "ok" /\ dir[kind] # None
Readable(kind, dir) == HasSection(kind, dir) /\ Valid(kind, dir[kind])
Enabled(kind, dir) == dir.on /\ dir[kind].on

\* An id is taken by the first plugin that is enabled; a disabled one takes its id only
\* from the other export plugins.
Claims(kind, dir) == Readable(kind, dir) /\ (kind = "export" \/ Enabled(kind, dir))
Duplicate(kind, d, i) == \E j \in 1..(i - 1) : Claims(kind, d[j]) /\ d[j].id = d[i].id

\* _load_contribution
Runs(section) == section.entry /\ section.works

Loaded(kind, d) ==
    {i \in DOMAIN d : /\ Readable(kind, d[i]) /\ Enabled(kind, d[i])
                      /\ ~Duplicate(kind, d, i) /\ Runs(d[i][kind])}

\* A status for each directory but those another loader is for; without its own id when
\* the manifest tells none.
Reported(kind, dir) ==
    \/ dir.manifest = "missing" /\ kind # "export"
    \/ dir.manifest = "bad" /\ kind # "export"
    \/ HasSection(kind, dir)
ReportedId(kind, dir) == IF Readable(kind, dir) THEN dir.id ELSE dir.name
Statuses(kind, d) ==
    [i \in {j \in DOMAIN d : Reported(kind, d[j])} |->
        [id |-> ReportedId(kind, d[i]), loaded |-> i \in Loaded(kind, d)]]

-----------------------------------------------------------------------------
(* The registries *)

\* Who gives which names, turned into who gives a name first.
FirstWins(names) ==
    [n \in UNION Range(names) |-> Min({i \in DOMAIN names : n \in names[i]})]

\* ToolRegistry: the builtin tools unless their plugin is there, then the plugins in order.
ToolSources(d) ==
    LET plugins == Loaded("tool", d)
    IN  plugins \cup (IF \E i \in plugins : d[i].id = BuiltinId THEN {} ELSE {Core})
Definitions(d) ==
    FirstWins([i \in ToolSources(d) |->
                  IF i = Core THEN Builtin \cup RequestScoped ELSE d[i].tool.gives])
HandledBy(d, i) == IF i = Core THEN Builtin ELSE d[i].tool.runs
\* First a faulty one that lets the last plugin win.
HandlersLastWins(d) ==
    LET names(n) == {i \in ToolSources(d) : n \in HandledBy(d, i)}
    IN  [n \in UNION {HandledBy(d, i) : i \in ToolSources(d)} |-> Max(names(n))]
Handlers(d) == FirstWins([i \in ToolSources(d) |-> HandledBy(d, i)])

\* _dedupe_chat_capabilities: of the capabilities with an id the one with the lowest order
\* is kept; its handler is the first that was given.
CapabilitiesOf(d) ==
    UNION {{<<i, k>> : k \in DOMAIN d[i].tool.caps} : i \in Loaded("tool", d)}
Cap(d, at) == d[at[1]].tool.caps[at[2]]
Before(d, at, other) ==
    \/ Cap(d, at).order < Cap(d, other).order
    \/ Cap(d, at).order = Cap(d, other).order /\ at[1] <= other[1]
Capabilities(d) ==
    LET all == CapabilitiesOf(d)
        with(id) == {at \in all : Cap(d, at).id = id}
        kept(id) == CHOOSE at \in with(id) : \A other \in with(id) : Before(d, at, other)
    IN  [id \in {Cap(d, at).id : at \in all} |->
            [from |-> kept(id)[1], select |-> Cap(d, kept(id)).select,
             options |-> Range(Cap(d, kept(id)).options),
             default |-> DefaultOf(Cap(d, kept(id)))]]
CapabilityHandlers(d) ==
    FirstWins([i \in Loaded("tool", d) |-> d[i].tool.handles])

\* AdapterRegistry: a plugin with a key that is taken is left out with all its keys.  First
\* a faulty one that takes the others.
RegisterOthers(d, owner, i) ==
    [k \in DOMAIN owner \cup d[i].provider.gives |->
        IF k \in DOMAIN owner THEN owner[k] ELSE i]
Register(d, owner, i) ==
    IF d[i].provider.gives \cap DOMAIN owner # {} THEN owner
    ELSE [k \in DOMAIN owner \cup d[i].provider.gives |->
             IF k \in DOMAIN owner THEN owner[k] ELSE i]
Owners(d) ==
    FoldLeft(LAMBDA owner, i : Register(d, owner, i), [k \in Adapters |-> Core],
             SetToSortSeq(Loaded("provider", d), LAMBDA i, j : i < j))
Skipped(d) == {i \in Loaded("provider", d) : ~\A k \in d[i].provider.gives : Owners(d)[k] = i}

\* One status an id, the last; a plugin that was left out is not loaded.
ProviderStatuses(d) ==
    LET all == Statuses("provider", d)
        of(id) == {i \in DOMAIN all : all[i].id = id}
    IN  [id \in {all[i].id : i \in DOMAIN all} |->
            /\ all[Max(of(id))].loaded
            /\ ~\E i \in Skipped(d) : d[i].id = id]

\* get: the adapter under a key, OpenAI's for a key nobody knows.
Adapter(registry, key) ==
    IF key \in DOMAIN registry THEN registry[key] ELSE IF key \in Strict THEN None ELSE Core

\* The formats, each with those who export it, the last one first.
Givers(d, format) ==
    {i \in Loaded("export", d) : format \in d[i].export.gives}
        \cup (IF format \in Formats THEN {Core} ELSE {})
Exporters(d) ==
    [format \in Formats \cup UNION {d[i].export.gives : i \in Loaded("export", d)} |->
        LET givers == Givers(d, format)
        IN  [primary |-> Max(givers),
             fallback |-> IF Cardinality(givers) = 1 THEN None
                          ELSE Max(givers \ {Max(givers)})]]

-----------------------------------------------------------------------------
Init ==
    /\ dirs \in Directories
    /\ tools = None /\ providers = None /\ exports = None /\ exported = None

GetToolRegistry ==
    /\ tools = None
    /\ tools' = [definitions |-> Definitions(dirs),
                 handlers |-> Handlers(dirs), caps |-> Capabilities(dirs),
                 capHandlers |-> CapabilityHandlers(dirs)]
    /\ UNCHANGED <<dirs, providers, exports, exported>>

EnsurePluginsLoaded ==
    /\ providers = None
    /\ providers' = [owners |-> Owners(dirs),
                     statuses |-> ProviderStatuses(dirs)]
    /\ UNCHANGED <<dirs, tools, exports, exported>>

EnsureRegistry ==
    /\ exports = None
    /\ exports' = Exporters(dirs)
    /\ UNCHANGED <<dirs, tools, providers, exported>>

\* What a handler does: it answers, takes its argument by position only, raises a
\* TypeError of its own, or raises anything else.
Behaviours == {"answers", "positional", "typeError", "raises"}
Answers(behaviour) == behaviour \in {"answers", "positional"}

\* export_session_artifact: the fallback is for what is not a TypeError.  First a faulty one
\* without.
ExportedWithoutFallback(entry, primary, fallback) ==
    IF Answers(primary) THEN entry.primary ELSE None
Exported(entry, primary, fallback) ==
    IF Answers(primary) THEN entry.primary
    ELSE IF primary = "raises" /\ entry.fallback # None /\ Answers(fallback)
    THEN entry.fallback ELSE None

Export(format, primary, fallback) ==
    /\ exports # None
    /\ exported' = [format |-> format, primary |-> primary, fallback |-> fallback,
                    by |-> IF format \in DOMAIN exports
                           THEN Exported(exports[format], primary, fallback) ELSE None]
    /\ UNCHANGED <<dirs, tools, providers, exports>>

Next ==
    \/ GetToolRegistry \/ EnsurePluginsLoaded \/ EnsureRegistry
    \/ \E format \in Formats, primary, fallback \in Behaviours :
          Export(format, primary, fallback)

Spec == Init /\ [][Next]_vars

-----------------------------------------------------------------------------
(* Properties *)

\* The definition the model is given under a name and the handler that runs its calls are of
\* one plugin, however many use the name, unless one defines what it does not run.
ToolsAgree ==
    tools # None => \A n \in DOMAIN tools.definitions \cap DOMAIN tools.handlers :
        (\A i \in Loaded("tool", dirs) :
            n \in dirs[i].tool.gives <=> n \in dirs[i].tool.runs)
        => tools.definitions[n] = tools.handlers[n]

\* A capability is handled by the plugin it is shown for, unless plugins give it different
\* orders or one handles what it does not declare; a choice has a default to choose.
CapabilitiesAgree ==
    tools # None => \A id \in DOMAIN tools.caps :
        LET d == dirs
            cap == tools.caps[id]
            declared == {at \in CapabilitiesOf(d) : Cap(d, at).id = id}
        IN  /\ cap.select => cap.default \in cap.options
            /\ (/\ Cardinality({Cap(d, at).order : at \in declared}) = 1
                /\ {at[1] : at \in declared} = {i \in Loaded("tool", d) : id \in d[i].tool.handles})
               => tools.capHandlers[id] = cap.from

\* A plugin is registered with all its adapters or none, and its status says which, unless
\* another directory reports the same id; no plugin takes a key the program has itself.
ProvidersHonest ==
    providers # None =>
        LET d == dirs IN
        /\ \A k \in Adapters : providers.owners[k] = Core
        /\ \A i \in DOMAIN d :
              LET mine == {k \in DOMAIN providers.owners : providers.owners[k] = i}
              IN  /\ mine # {} => mine = d[i].provider.gives
                  /\ (/\ Readable("provider", d[i])
                      /\ \A j \in DOMAIN d \ {i} : Reported("provider", d[j]) =>
                            ReportedId("provider", d[j]) # d[i].id)
                     => providers.statuses[d[i].id] = (i \in Loaded("provider", d) /\
                                                       mine = d[i].provider.gives)
        /\ \A k \in Strict : Adapter(providers.owners, k) # Core

\* A plugin whose handler raises anything but a TypeError does not take a format of the
\* program away while it is the only one for the format.
CoreExports ==
    (exported # None /\ exported.primary = "raises" /\ exports[exported.format].fallback = Core
        /\ Answers(exported.fallback))
    => exported.by = Core
=============================================================================
