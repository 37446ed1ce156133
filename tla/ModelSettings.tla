--------------------------- MODULE ModelSettings ---------------------------
(***************************************************************************)
(* Providers, models and the default selection: ModelConfigService and     *)
(* ModelConfigRepository (infrastructure/config) under the requests of     *)
(* api/routers/models.py.                                                  *)
(*                                                                         *)
(* The configuration is three YAML files written one after the other; to   *)
(* open one for writing empties it, and an empty or damaged file is read   *)
(* as no entries.  The event loop loads and saves without waiting, but     *)
(* every request first builds a service in a worker thread, whose          *)
(* _sync_builtin_entries reads the files and may write them as well.  Keys *)
(* are left out, and so is all metadata: a provider is on or off, a model  *)
(* [provider, id, on].  The pages change neither the id nor the provider   *)
(* of a model they edit.                                                   *)
(***************************************************************************)
EXTENDS Naturals, Sequences

CONSTANTS Void,
          Providers, Builtin, \* ids of providers, and those that are built in
          ModelIds,
          MaxSaves            \* bound: changes of the configuration

VARIABLES disk,       \* what each file holds, Void if it is empty or damaged
          saving,     \* the event loop's save_config, or Void
          syncing,    \* the thread's _sync_builtin_entries, or Void
          existing,   \* what an update_provider request has read of its provider, or Void
          up,         \* the process is "on", "starting" or "off"
          saves,      \* how many changes so far
          mixed  \* history: since the last start, loop and thread were both at the files

settingsVars == <<disk, saving, syncing, existing, up, saves, mixed>>

ConfigFiles == <<"providers", "models", "default">>
Left == {ConfigFiles, Tail(ConfigFiles), Tail(Tail(ConfigFiles))}

\* What the files, a request that saves and a thread that synchronises may hold.
Models == [provider : Providers, id : ModelIds, on : BOOLEAN]
Maps == UNION {[P -> BOOLEAN] : P \in SUBSET Providers}
Configurations == [providers : Maps, models : Seq(Models),
                   default : {Void} \cup (Providers \X ModelIds)]
Writers == [config : Configurations, left : Left, opened : BOOLEAN]
Readers == [left : Left, got : Configurations, writer : {Void} \cup Writers]

ASSUME SettingsAssumption ==
    /\ Builtin \subseteq Providers
    /\ Void \notin Maps \cup Seq(Models)
    /\ Void \notin Writers \cup Readers

Empty == [providers |-> [p \in {} |-> TRUE], models |-> <<>>, default |-> Void]

Selection(model) == <<model.provider, model.id>>
\* The models a selection may mean, and those of an id.
Selected(selection) == [provider : {selection[1]}, id : {selection[2]}, on : BOOLEAN]
OfId(id) == [provider : Providers, id : {id}, on : BOOLEAN]

\* The providers that are built in are on; one may have a model, which may be the default.
SettingsInit ==
    /\ \E p \in Builtin, id \in ModelIds, models \in {0, 1}, selected \in BOOLEAN :
          /\ selected => models = 1
          /\ disk = [providers |-> [q \in Builtin |-> TRUE],
                     models |-> [i \in 1..models |-> [provider |-> p, id |-> id, on |-> TRUE]],
                     default |-> IF selected THEN <<p, id>> ELSE Void]
    /\ saving = Void /\ syncing = Void /\ existing = Void
    /\ up = "on" /\ saves = 0 /\ mixed = FALSE

\* load_yaml_dict: a file that cannot be read has no entries.
Read(f) == IF disk[f] = Void THEN Empty[f] ELSE disk[f]
Loaded == [providers |-> Read("providers"), models |-> Read("models"),
           default |-> Read("default")]

On(config, p) == p \in DOMAIN config.providers /\ config.providers[p]

\* The i-th model is the first of some.
Foremost(models, some, i) ==
    i \in DOMAIN models /\ models[i] \in some /\ \A j \in 1..(i - 1) : models[j] \notin some

\* The models but those that go, in their order.
Keep(kept, gone, model) == IF model \in gone THEN kept ELSE Append(kept, model)
Remaining(models, gone) ==
    LET kept[n \in 0..Len(models)] == IF n = 0 THEN <<>> ELSE Keep(kept[n-1], gone, models[n])
    IN  kept[Len(models)]

\* _is_model_effectively_enabled, for the first model the selection names.
Usable(config, selection) ==
    \E i \in DOMAIN config.models :
        /\ Foremost(config.models, Selected(selection), i)
        /\ config.models[i].on /\ On(config, config.models[i].provider)

-----------------------------------------------------------------------------
(* Writing the three files *)

Writer(config) == [config |-> config, left |-> ConfigFiles, opened |-> FALSE]

\* One file is opened, then filled.
Touched(w) ==
    [disk EXCEPT ![Head(w.left)] = IF w.opened THEN w.config[Head(w.left)] ELSE Void]
Onward(w) ==
    IF ~w.opened THEN [w EXCEPT !.opened = TRUE]
    ELSE IF Len(w.left) > 1 THEN [w EXCEPT !.left = Tail(@), !.opened = FALSE]
    ELSE Void

SaveStep ==
    /\ saving # Void
    /\ disk' = Touched(saving)
    /\ saving' = Onward(saving)
    /\ UNCHANGED <<syncing, existing, up, saves, mixed>>

\* The event loop does nothing else until it has saved.
LoopFree == up = "on" /\ saving = Void

\* A handler has loaded the configuration and saves what it made of it.
SaveConfig(config) ==
    /\ LoopFree /\ saves < MaxSaves
    /\ saves' = saves + 1
    /\ saving' = Writer(config)
    /\ mixed' = (mixed \/ syncing # Void)
    /\ UNCHANGED <<disk, syncing, up>>

-----------------------------------------------------------------------------
(* The service is built: in a thread for a request, first of all at start. *)

\* _sync_default_selection: a selection that cannot be used is given up.
Kept(config) ==
    IF config.default = Void \/ Usable(config, config.default)
    THEN config ELSE [config EXCEPT !.default = Void]

Reading == [left |-> ConfigFiles, got |-> Empty, writer |-> Void]

Build ==
    /\ up = "on" /\ syncing = Void
    /\ syncing' = Reading
    /\ mixed' = (mixed \/ saving # Void)
    /\ UNCHANGED <<disk, saving, existing, up, saves>>

\* _load_split_config, file by file; then it writes if there is something to change.
SyncRead ==
    /\ syncing # Void /\ syncing.writer = Void
    /\ LET f == Head(syncing.left)
           got == [syncing.got EXCEPT ![f] = Read(f)]
       IN  syncing' = IF f # "default"
                      THEN [syncing EXCEPT !.got = got, !.left = Tail(@)]
                      ELSE IF Kept(got) = got THEN Void
                      ELSE [syncing EXCEPT !.writer = Writer(Kept(got))]
    /\ up' = IF syncing' = Void THEN "on" ELSE up
    /\ UNCHANGED <<disk, saving, existing, saves, mixed>>

SyncWrite ==
    /\ syncing # Void /\ syncing.writer # Void
    /\ disk' = Touched(syncing.writer)
    /\ syncing' = IF Onward(syncing.writer) = Void THEN Void
                  ELSE [syncing EXCEPT !.writer = Onward(@)]
    /\ up' = IF syncing' = Void THEN "on" ELSE up
    /\ UNCHANGED <<saving, existing, saves, mixed>>

Die ==
    /\ saving # Void \/ syncing # Void
    /\ up' = "off" /\ saving' = Void /\ syncing' = Void /\ existing' = Void
    /\ UNCHANGED <<disk, saves, mixed>>

\* Void is served before the service that main.py builds is done.
StartUp ==
    /\ up = "off"
    /\ up' = "starting" /\ mixed' = FALSE
    /\ syncing' = Reading
    /\ UNCHANGED <<disk, saving, existing, saves>>

-----------------------------------------------------------------------------
(* Requests *)

AddProvider(p, on) ==
    /\ p \notin DOMAIN Loaded.providers
    /\ SaveConfig([Loaded EXCEPT !.providers =
                      [q \in DOMAIN @ \cup {p} |-> IF q = p THEN on ELSE @[q]]])
    /\ UNCHANGED existing

\* The handler reads the provider and waits for its keys,
BeginUpdate(p) ==
    /\ LoopFree /\ existing = Void
    /\ p \in DOMAIN Loaded.providers
    /\ existing' = [provider |-> p, on |-> Loaded.providers[p]]
    /\ UNCHANGED <<disk, saving, syncing, up, saves, mixed>>

\* A faulty Deselected: a default under a provider that goes off is kept.
DeselectedNever(config, p, on) == config.default

\* The default after provider p was replaced by one that is on or off.
Deselected(config, p, on) ==
    IF config.default # Void /\ config.default[1] = p /\ ~on THEN Void ELSE config.default

\* then it writes all fields of what it read, with those of the request changed.
EndUpdate(on) ==
    /\ existing # Void
    /\ LET p == existing.provider
           new == IF on = Void THEN existing.on ELSE on
       IN  /\ p \in DOMAIN Loaded.providers
           /\ SaveConfig([Loaded EXCEPT !.providers[p] = new,
                                        !.default = Deselected(Loaded, p, new)])
    /\ existing' = Void

\* The provider is gone by then: 404.
UpdateRefused ==
    /\ LoopFree /\ existing # Void
    /\ existing.provider \notin DOMAIN Loaded.providers
    /\ existing' = Void
    /\ UNCHANGED <<disk, saving, syncing, up, saves, mixed>>

DeleteProvider(p) ==
    /\ p \in DOMAIN Loaded.providers \ Builtin
    /\ SaveConfig([providers |-> [q \in DOMAIN Loaded.providers \ {p} |-> Loaded.providers[q]],
                   models |-> Remaining(Loaded.models, [provider : {p}, id : ModelIds, on : BOOLEAN]),
                   default |-> Deselected(Loaded, p, FALSE)])
    /\ UNCHANGED existing

AddModel(p, id, on) ==
    /\ p \in DOMAIN Loaded.providers
    /\ \A i \in DOMAIN Loaded.models : Selection(Loaded.models[i]) # <<p, id>>
    /\ SaveConfig([Loaded EXCEPT !.models = Append(@, [provider |-> p, id |-> id, on |-> on])])
    /\ UNCHANGED existing

UpdateModel(i, on) ==
    /\ i \in DOMAIN Loaded.models
    /\ SaveConfig([Loaded EXCEPT !.models[i].on = on,
                                 !.default = IF Selection(Loaded.models[i]) = @ /\ ~on
                                             THEN Void ELSE @])
    /\ UNCHANGED existing

\* Named with its provider, or by its id alone, which takes all models of that id.
DeleteModel(i, simple) ==
    /\ i \in DOMAIN Loaded.models
    /\ LET model == Loaded.models[i]
           gone == [provider : IF simple THEN Providers ELSE {model.provider},
                    id : {model.id}, on : BOOLEAN]
       IN  SaveConfig([Loaded EXCEPT !.models = Remaining(@, gone),
                                     !.default = IF \E k \in DOMAIN Loaded.models :
                                                       /\ Loaded.models[k] \in gone
                                                       /\ Selection(Loaded.models[k]) = @
                                                 THEN Void ELSE @])
    /\ UNCHANGED existing

\* The first model of that id must be the provider's, and usable.
SetDefaultModel(p, id) ==
    /\ p \in DOMAIN Loaded.providers
    /\ \E i \in DOMAIN Loaded.models :
          /\ Foremost(Loaded.models, OfId(id), i)
          /\ Loaded.models[i].provider = p /\ Loaded.models[i].on
    /\ On(Loaded, p)
    /\ SaveConfig([Loaded EXCEPT !.default = <<p, id>>])
    /\ UNCHANGED existing

SettingsNext ==
    \/ SaveStep \/ Build \/ SyncRead \/ SyncWrite \/ Die \/ StartUp \/ UpdateRefused
    \/ \E p \in Providers : BeginUpdate(p) \/ DeleteProvider(p)
    \/ \E p \in Providers, on \in BOOLEAN : AddProvider(p, on)
    \/ \E on \in BOOLEAN \cup {Void} : EndUpdate(on)
    \/ \E p \in Providers, id \in ModelIds, on \in BOOLEAN : AddModel(p, id, on)
    \/ \E i \in DOMAIN Loaded.models, b \in BOOLEAN : UpdateModel(i, b) \/ DeleteModel(i, b)
    \/ \E p \in Providers, id \in ModelIds : SetDefaultModel(p, id)

SettingsSpec == SettingsInit /\ [][SettingsNext]_settingsVars

-----------------------------------------------------------------------------
(* Properties *)

(***************************************************************************)
(* Whenever nobody is at the files the default selection is empty or names *)
(* an enabled model of an enabled provider, whatever was switched off,     *)
(* deleted or updated from a stale copy, and also after a crash between or *)
(* inside the three writes, once the service has been built again -        *)
(* unless a save and the thread of another request were mixed            *)
(* (update_provider, delete_model, _sync_default_selection).               *)
(***************************************************************************)
DefaultUsable ==
    (up = "on" /\ saving = Void /\ syncing = Void /\ ~mixed) =>
        (Loaded.default = Void \/ Usable(Loaded, Loaded.default))
=============================================================================
