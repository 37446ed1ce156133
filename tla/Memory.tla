------------------------------- MODULE Memory -------------------------------
(***************************************************************************)
(* The long-term memory: MemoryService over its Chroma collection, the     *)
(* requests of api/routers/memory.py, and what the turns of a chat read    *)
(* and extract.  No call awaits anything, so a call is one step.           *)
(*                                                                         *)
(* A memory is [content, scope, assistant, layer, pinned, active]; its     *)
(* hash stands for the first four.  The service of the requests loads the  *)
(* settings anew for every request, the one of the chats when the process  *)
(* starts.  There is one profile; times, confidence and the length limits  *)
(* of a context are left out.                                              *)
(***************************************************************************)
EXTENDS Naturals, Sequences, FiniteSets, SequencesExt

CONSTANTS None,
          Assistants,
          Contents,
          Marked,          \* per content: the layer its markers put it into, or None
          Score,           \* per content: its relevance to what is asked
          Threshold, TopK, MaxInjected,  \* the settings of the retrieval
          MaxInstructions, \* _load_instruction_memories
          MaxItems,        \* max_items_per_turn
          Settings,        \* [enabled, extract, global, assistant, layers] there may be
          MaxMemories,     \* bound: memories ever made
          MaxOps           \* bound: requests and turns

VARIABLES mems,      \* per id: the memory, or None
          made,      \* how many ids have been given out
          disk,      \* the settings file
          chat,      \* the settings the chats work with
          injected,  \* the last turn: what was asked for and the sources it got
          ops,
          edited     \* history: memories that were changed by hand

vars == <<mems, made, disk, chat, injected, ops, edited>>

Ids == 1..MaxMemories
Scopes == {"global", "assistant"}
Layers == {"fact", "instruction"}
There == {id \in Ids : mems[id] # None}

Init ==
    /\ mems = [id \in Ids |-> None] /\ made = 0
    /\ disk \in Settings /\ chat = disk
    /\ injected = None /\ ops = 0 /\ edited = {}

Step == ops < MaxOps /\ ops' = ops + 1

-----------------------------------------------------------------------------
(* Writing *)

\* _validate_scope_layer
Valid(scope, assistant) == scope = "assistant" => assistant # None

\* _content_hash
Hash(mem) == <<mem.scope, mem.assistant, mem.layer, mem.content>>

\* upsert_memory takes the memory with the same hash.
Twins(store, mem) == {id \in Ids : store[id] # None /\ Hash(store[id]) = Hash(mem)}

\* The memories and their number after an upsert; a twin becomes active and stays pinned.
Upserted(store, mem) ==
    IF Twins(store.mems, mem) = {}
    THEN [mems |-> [store.mems EXCEPT ![store.made + 1] = mem], made |-> store.made + 1]
    ELSE LET id == Min(Twins(store.mems, mem))
         IN  [store EXCEPT !.mems[id] = [mem EXCEPT !.pinned = @ \/ store.mems[id].pinned]]

Memory(content, scope, assistant, layer, pinned) ==
    [content |-> content, scope |-> scope, assistant |-> assistant, layer |-> layer,
     pinned |-> pinned, active |-> TRUE]

Create(content, scope, assistant, layer, pinned) ==
    LET store == Upserted([mems |-> mems, made |-> made],
                          Memory(content, scope, assistant, layer, pinned))
    IN  /\ made < MaxMemories /\ Step /\ Valid(scope, assistant)
        /\ mems' = store.mems /\ made' = store.made
        /\ UNCHANGED <<disk, chat, injected, edited>>

\* update_memory; what is not given stays, so an assistant cannot be taken away.
Update(id, new) ==
    /\ id \in There /\ Step
    /\ new.assistant # None \/ mems[id].assistant = None
    /\ Valid(new.scope, new.assistant)
    /\ mems' = [mems EXCEPT ![id] = new]
    /\ edited' = edited \cup {id}
    /\ UNCHANGED <<made, disk, chat, injected>>

Delete(id) ==
    /\ id \in There /\ Step
    /\ mems' = [mems EXCEPT ![id] = None]
    /\ UNCHANGED <<made, disk, chat, injected, edited>>

-----------------------------------------------------------------------------
(* Extraction *)

\* extract_memory_candidates: the marked units of the message, each once, the instructions
\* first.
Candidates(config, units) ==
    LET keep(u) == Marked[u] # None /\ (config.layers = {} \/ Marked[u] \in config.layers)
        of(layer) == SelectSeq(units, LAMBDA u : keep(u) /\ Marked[u] = layer)
    IN  IF config.enabled /\ config.extract
        THEN SubSeq(of("instruction") \o of("fact"), 1,
                    Min({MaxItems, Len(of("instruction") \o of("fact"))}))
        ELSE <<>>

\* _resolve_extraction_target: whose a memory becomes, None for nobody's.
Owner(config, layer, assistant, allowed) ==
    LET mine == assistant # None /\ allowed /\ config.assistant IN
    IF mine /\ (layer = "instruction" \/ ~config.global)
    THEN [scope |-> "assistant", assistant |-> assistant]
    ELSE IF config.global THEN [scope |-> "global", assistant |-> None] ELSE None

\* extract_and_persist_from_turn
Persisted(store, config, unit, assistant, allowed) ==
    LET owner == Owner(config, Marked[unit], assistant, allowed)
    IN  IF owner = None THEN store
        ELSE Upserted(store, Memory(unit, owner.scope, owner.assistant, Marked[unit], FALSE))

Extract(units, assistant, allowed) ==
    LET found == Candidates(chat, units)
        store == FoldLeft(LAMBDA s, unit : Persisted(s, chat, unit, assistant, allowed),
                          [mems |-> mems, made |-> made], found)
    IN  /\ made + Len(found) <= MaxMemories /\ Step /\ found # <<>>
        /\ mems' = store.mems /\ made' = store.made
        /\ UNCHANGED <<disk, chat, injected, edited>>

-----------------------------------------------------------------------------
(* The context of a turn *)

\* The active memories of a layer in a scope.
InScope(config, layer, scope, assistant) ==
    IF config[scope] /\ (scope = "assistant" => assistant # None)
    THEN {id \in There : /\ mems[id].active /\ mems[id].layer = layer
                         /\ mems[id].scope = scope
                         /\ scope = "assistant" => mems[id].assistant = assistant}
    ELSE {}

Upto(seq, n) == SubSeq(seq, 1, Min({n, Len(seq)}))
ByAge(ids) == SetToSortSeq(ids, <)
ByScore(ids) ==
    SetToSortSeq(ids, LAMBDA i, j :
        \/ Score[mems[i].content] > Score[mems[j].content]
        \/ Score[mems[i].content] = Score[mems[j].content] /\ i < j)

\* _load_instruction_memories: the global ones come first.
Instructions(config, assistant) ==
    Upto(Upto(ByAge(InScope(config, "instruction", "global", assistant)), MaxInstructions)
           \o Upto(ByAge(InScope(config, "instruction", "assistant", assistant)), MaxInstructions),
         MaxInstructions)

\* _search_scope: the nearest, without those below the threshold.
Search(config, scope, assistant) ==
    SelectSeq(Upto(ByScore(InScope(config, "fact", scope, assistant)), TopK),
              LAMBDA id : Score[mems[id].content] >= Threshold)

\* search_memories_for_scopes merges the two scopes; first a faulty one that fills up with
\* the global ones.
FactsGlobalFirst(config, assistant) ==
    Upto(Search(config, "global", assistant) \o Search(config, "assistant", assistant),
         MaxInjected)
Facts(config, assistant) ==
    Upto(ByScore(Range(Search(config, "global", assistant))
                   \cup Range(Search(config, "assistant", assistant))), MaxInjected)

\* build_memory_context
Sources(config, assistant) ==
    IF ~config.enabled THEN <<>>
    ELSE (IF config.layers = {} \/ "instruction" \in config.layers
          THEN Instructions(config, assistant) ELSE <<>>)
         \o (IF config.layers = {} \/ "fact" \in config.layers
             THEN Facts(config, assistant) ELSE <<>>)

\* An assistant whose memory is off asks as nobody.
Turn(assistant, allowed) ==
    LET asker == IF allowed THEN assistant ELSE None IN
    /\ Step
    /\ injected' = [asker |-> asker, config |-> chat, store |-> mems,
                    sources |-> Sources(chat, asker)]
    /\ UNCHANGED <<mems, made, disk, chat, edited>>

-----------------------------------------------------------------------------
SaveSettings(config) ==
    /\ Step /\ disk # config /\ disk' = config
    /\ UNCHANGED <<mems, made, chat, injected, edited>>

Restart ==
    /\ chat # disk /\ chat' = disk
    /\ UNCHANGED <<mems, made, disk, injected, ops, edited>>

Next ==
    \/ \E content \in Contents, scope \in Scopes, assistant \in Assistants \cup {None},
          layer \in Layers, pinned \in BOOLEAN :
          Create(content, scope, assistant, layer, pinned)
    \/ \E id \in There :
          \/ Delete(id)
          \/ \E content \in Contents : Update(id, [mems[id] EXCEPT !.content = content])
          \/ \E scope \in Scopes, assistant \in Assistants \cup {None} :
                Update(id, [mems[id] EXCEPT !.scope = scope, !.assistant = assistant])
          \/ \E layer \in Layers : Update(id, [mems[id] EXCEPT !.layer = layer])
          \/ \E pinned, active \in BOOLEAN :
                Update(id, [mems[id] EXCEPT !.pinned = pinned, !.active = active])
    \/ \E assistant \in Assistants \cup {None}, allowed \in BOOLEAN :
          \/ Turn(assistant, allowed)
          \/ \E first, second \in Contents :
                Extract(IF first = second THEN <<first>> ELSE <<first, second>>, assistant, allowed)
    \/ \E config \in Settings : SaveSettings(config)
    \/ Restart

Spec == Init /\ [][Next]_vars

-----------------------------------------------------------------------------
(* Properties *)

\* Saying the same again makes no second memory, unless one was edited into the other.
NoTwins ==
    \A i, j \in There : i # j /\ Hash(mems[i]) = Hash(mems[j]) => {i, j} \cap edited # {}

\* A memory that is an assistant's names the assistant.
Owned == \A id \in There : Valid(mems[id].scope, mems[id].assistant)

\* A turn gets every instruction that applies to it while there are not too many, and the
\* most relevant facts, each once; nothing inactive, irrelevant, of another assistant or of
\* a scope or layer that is off.
Applies(id, asker, config) ==
    LET mem == injected.store[id] IN
    /\ mem # None /\ mem.active /\ config.enabled /\ config[mem.scope]
    /\ config.layers = {} \/ mem.layer \in config.layers
    /\ mem.scope = "assistant" => mem.assistant = asker
    /\ mem.layer = "fact" => Score[mem.content] >= Threshold

RightSources ==
    injected # None =>
        LET config == injected.config
            fit == {id \in Ids : Applies(id, injected.asker, config)}
            got == Range(injected.sources)
            of(layer, ids) == {id \in ids : injected.store[id].layer = layer}
            score(id) == Score[injected.store[id].content]
        IN  /\ Cardinality(got) = Len(injected.sources) /\ got \subseteq fit
            /\ Cardinality(of("instruction", fit)) <= MaxInstructions
               => of("instruction", fit) \subseteq got
            /\ TopK >= MaxInjected =>
                  /\ \A i \in of("fact", fit \ got), j \in of("fact", got) : score(i) <= score(j)
                  /\ Cardinality(of("fact", got)) =
                        Min({MaxInjected, Cardinality(of("fact", fit))})
=============================================================================
