--------------------------- MODULE ProviderAccess ---------------------------
(***************************************************************************)
(* The address and the key of a provider: what ModelSettings leaves out of *)
(* ModelConfigService and api/routers/models.py, with the key file of      *)
(* ModelConfigRepository, ModelRuntimeService.get_llm_instance and         *)
(* ProviderProbeService.                                                   *)
(*                                                                         *)
(* A request changes the configuration first, in one go of the event loop, *)
(* and the key file after that: it is read, the text is written to one     *)
(* temporary file, which every request uses, and that replaces the key     *)
(* file.  Every step of that waits.  A turn reads both without waiting; a  *)
(* test, a listing or a probe reads the provider, waits, then reads the    *)
(* key.  Files behave as on POSIX: who has opened the temporary file       *)
(* keeps writing to it after it was moved.                                 *)
(*                                                                         *)
(* How ModelSettings' three files are written is left out here, and so are *)
(* the models; addresses are equal up to a final slash.  What the user     *)
(* adds does not take the id of a built-in provider.                       *)
(***************************************************************************)
EXTENDS Naturals, Sequences, FiniteSets, SequencesExt

CONSTANTS None,
          Providers, Builtin,
          Keyless,         \* providers whose adapter needs no key
          Profiles,        \* the endpoint profiles of each provider, in order
          DefaultProfile,  \* the one each built-in definition names, or None
          Migrations,      \* for each provider the old address and the new one, or None
          Urls, Keys,
          Updates,         \* bodies of updates: [url, profile, on, key], each None if left out
          Answers,         \* what an address does when it is probed, of those below
          Tasks,           \* requests under way
          Hint,            \* the region a client names
          MaxRequests, MaxCrashes \* bounds

VARIABLES entries,   \* provider -> address, profile and whether it is on
          keys,      \* the key file
          temp,      \* the temporary file, or None
          reqs,      \* task -> its request, or None
          up, count, crashes,
          promised,  \* history: address and key last acknowledged, None for none
          torn,      \* history: providers whose request was cut short, or met another one
          sent       \* the call that went out with the last step, or None

vars == <<entries, keys, temp, reqs, up, count, crashes, promised, torn, sent>>

\* An emptied file has no keys; one with the rests of two texts cannot be parsed.
File(pairs) == [whole |-> TRUE, pairs |-> pairs]
Emptied == File(<<>>)
Damaged == [whole |-> FALSE, pairs |-> <<>>]

NoKey == ""

\* get_api_key_sync: an unreadable file has no key, nor has an empty one.
Key(p) == IF p \in DOMAIN keys.pairs THEN keys.pairs[p] ELSE NoKey

-----------------------------------------------------------------------------
(* Addresses and profiles *)

ProfileNamed(p, id) == SelectSeq(Profiles[p], LAMBDA f : f.id = id)
ProfileAt(p, url) == SelectSeq(Profiles[p], LAMBDA f : f.url = url)

Migrated(p, url) ==
    IF Migrations[p] # None /\ url = Migrations[p].old THEN Migrations[p].new ELSE url

\* _sync_single_builtin_provider_entry
Synced(p, e) ==
    LET url == Migrated(p, e.url)
        found == ProfileAt(p, url)
    IN  IF p \notin Builtin THEN e
        ELSE [e EXCEPT !.url = url,
                       !.profile = IF @ # None THEN @
                                   ELSE IF found # <<>> THEN found[1].id
                                   ELSE DefaultProfile[p]]

\* A faulty Moved: the address of the request goes before that of the profile it names.
MovedByUrl(p, e, url, profile) ==
    [e EXCEPT !.url = IF url # None THEN url
                      ELSE IF profile # None /\ ProfileNamed(p, profile) # <<>>
                      THEN ProfileNamed(p, profile)[1].url ELSE @,
              !.profile = IF profile # None THEN profile
                          ELSE IF url # None THEN "custom" ELSE @]

\* update_provider: the entry read before, with an address, a profile or both changed.
Moved(p, e, url, profile) ==
    LET found == ProfileAt(p, url)
        named == ProfileNamed(p, profile)
        at == IF url = None THEN e
              ELSE [e EXCEPT !.url = url,
                             !.profile = IF found = <<>> THEN "custom" ELSE found[1].id]
    IN  IF profile = None THEN at
        ELSE IF profile = "" THEN [at EXCEPT !.profile = None]
        ELSE IF profile = "custom" THEN [at EXCEPT !.profile = profile]
        ELSE [at EXCEPT !.profile = profile, !.url = named[1].url]

Known(p, profile) == profile \in {None, "", "custom"} \/ ProfileNamed(p, profile) # <<>>

-----------------------------------------------------------------------------
(* Requests *)

Changes == {"create", "update", "delete"}
Request(kind, p, pc) ==
    [kind |-> kind, p |-> p, pc |-> pc, entry |-> None, url |-> None, profile |-> None,
     on |-> None, key |-> None, text |-> None, at |-> None, alone |-> TRUE]

Doing(s) == reqs[s] # None
Changing == {s \in Tasks : Doing(s) /\ reqs[s].kind \in Changes}
Of(p) == {s \in Tasks : Doing(s) /\ reqs[s].p = p}
AtKeys == {s \in Changing : reqs[s].pc \in {"open", "write", "replace"}}
Settled(p) == p \notin torn /\ Of(p) \cap Changing = {}

\* The address of what goes out, its key, and whether nothing changed the provider meanwhile.
Call(kind, p, url, key, alone) ==
    [kind |-> kind, p |-> p, url |-> url, key |-> key, alone |-> alone, probed |-> None]

Free(t) == up = "on" /\ ~Doing(t) /\ count < MaxRequests

\* A change begins: nobody else at this provider is alone with it any longer.
Begin(t, r) ==
    /\ Free(t)
    /\ reqs' = [s \in Tasks |-> IF s = t THEN [r EXCEPT !.alone = Changing = {}]
                                ELSE IF s \in Of(r.p) \cup Changing
                                THEN [reqs[s] EXCEPT !.alone = FALSE] ELSE reqs[s]]
    /\ torn' = IF Of(r.p) \cap Changing = {} THEN torn ELSE torn \cup {r.p}
    /\ count' = count + 1
    /\ sent' = None

Create(t, p, url, key) ==
    /\ p \notin Builtin /\ p \notin DOMAIN entries
    /\ Begin(t, [Request("create", p, "load") EXCEPT !.url = url, !.key = key])
    /\ entries' = [q \in DOMAIN entries \cup {p} |->
                      IF q = p THEN [url |-> url, profile |-> None, on |-> TRUE] ELSE entries[q]]
    /\ UNCHANGED <<keys, temp, up, crashes, promised>>

\* The provider is read; looking for its key waits.
Update(t, p, body) ==
    /\ p \in DOMAIN entries
    /\ Begin(t, [Request("update", p, "existing") EXCEPT
                    !.entry = entries[p], !.url = body.url, !.profile = body.profile,
                    !.on = body.on, !.key = body.key])
    /\ UNCHANGED <<entries, keys, temp, up, crashes, promised>>

Delete(t, p) ==
    /\ p \in DOMAIN entries \ Builtin
    /\ Begin(t, Request("delete", p, "load"))
    /\ entries' = [q \in DOMAIN entries \ {p} |-> entries[q]]
    /\ UNCHANGED <<keys, temp, up, crashes, promised>>

\* What a request that was acknowledged promises.
Promise(r) ==
    IF r.kind = "delete" THEN None
    ELSE IF r.kind = "create" THEN [url |-> r.url, key |-> r.key]
    ELSE [url |-> IF r.url = None /\ r.profile \in {None, "", "custom"}
                  THEN IF promised[r.p] = None THEN None ELSE promised[r.p].url
                  ELSE Migrated(r.p, Moved(r.p, r.entry, r.url, r.profile).url),
          key |-> IF r.key # None THEN r.key
                  ELSE IF promised[r.p] = None THEN NoKey ELSE promised[r.p].key]

Acknowledge(t) ==
    LET r == reqs[t] IN
    /\ promised' = [promised EXCEPT ![r.p] = Promise(r)]
    /\ torn' = IF r.alone /\ r.kind # "update" THEN torn \ {r.p} ELSE torn

\* A request that fails or is refused; with the configuration changed it leaves a tear.
Abandon(t) ==
    /\ reqs' = [reqs EXCEPT ![t] = None]
    /\ torn' = IF t \in Changing /\ reqs[t].pc # "existing" THEN torn \cup {reqs[t].p} ELSE torn
    /\ UNCHANGED <<entries, keys, temp, promised>>

Step(t) == up = "on" /\ Doing(t) /\ sent' = None /\ UNCHANGED <<up, count, crashes>>

UpdateConfig(t) ==
    LET r == reqs[t]
        e == Moved(r.p, r.entry, r.url, r.profile)
    IN  /\ Step(t) /\ r.kind = "update" /\ r.pc = "existing"
        /\ IF ~keys.whole \/ ~Known(r.p, r.profile) \/ r.p \notin DOMAIN entries
           THEN Abandon(t)
           ELSE /\ entries' = [entries EXCEPT ![r.p] =
                                  [e EXCEPT !.on = IF r.on = None THEN @ ELSE r.on]]
                /\ IF r.key = None
                   THEN reqs' = [reqs EXCEPT ![t] = None] /\ Acknowledge(t)
                   ELSE /\ reqs' = [reqs EXCEPT ![t].pc = "load"]
                        /\ UNCHANGED <<promised, torn>>
                /\ UNCHANGED <<keys, temp>>

\* The key file without the key of a provider, or with another one.
Without(pairs, p) == [q \in DOMAIN pairs \ {p} |-> pairs[q]]
With(pairs, p, key) == [q \in DOMAIN pairs \cup {p} |-> IF q = p THEN key ELSE pairs[q]]

\* A faulty Edited: the key of a provider that is deleted stays.
EditedKeeping(r, pairs) == IF r.kind = "delete" THEN pairs ELSE With(pairs, r.p, r.key)

\* set_api_key, delete_api_key
Edited(r, pairs) == IF r.kind = "delete" THEN Without(pairs, r.p) ELSE With(pairs, r.p, r.key)

Load(t) ==
    LET r == reqs[t] IN
    /\ Step(t) /\ t \in Changing /\ r.pc = "load"
    /\ IF ~keys.whole THEN Abandon(t)
       ELSE IF r.kind = "delete" /\ r.p \notin DOMAIN keys.pairs
       THEN reqs' = [reqs EXCEPT ![t] = None] /\ Acknowledge(t)
       ELSE /\ reqs' = [reqs EXCEPT ![t].pc = "open", ![t].text = Edited(r, keys.pairs)]
            /\ torn' = IF AtKeys = {} THEN torn ELSE Providers
            /\ UNCHANGED promised
    /\ UNCHANGED <<entries, keys, temp>>

Open(t) ==
    /\ Step(t) /\ reqs[t].pc = "open"
    /\ temp' = Emptied
    /\ reqs' = [reqs EXCEPT ![t].pc = "write", ![t].at = "temp"]
    /\ UNCHANGED <<entries, keys, promised, torn>>

\* A text over another one may leave the end of that.
Over(file, text) == IF file \in {Emptied, File(text)} THEN {File(text)} ELSE {File(text), Damaged}

Write(t) ==
    LET r == reqs[t] IN
    /\ Step(t) /\ r.pc = "write"
    /\ \/ r.at = "temp" /\ temp' \in Over(temp, r.text) /\ UNCHANGED keys
       \/ r.at = "keys" /\ keys' \in Over(keys, r.text) /\ UNCHANGED temp
       \/ r.at = "gone" /\ UNCHANGED <<keys, temp>>
    /\ reqs' = [reqs EXCEPT ![t].pc = "replace"]
    /\ UNCHANGED <<entries, promised, torn>>

\* Who else has it open now has the key file open, and who had that has a file without a name.
Shifted(r) ==
    IF r = None \/ r.at = None THEN r
    ELSE [r EXCEPT !.at = IF @ = "temp" THEN "keys" ELSE "gone"]

Replace(t) ==
    /\ Step(t) /\ reqs[t].pc = "replace"
    /\ IF temp = None THEN Abandon(t)
       ELSE /\ keys' = temp /\ temp' = None
            /\ reqs' = [s \in Tasks |-> IF s = t THEN None ELSE Shifted(reqs[s])]
            /\ Acknowledge(t)
            /\ UNCHANGED entries

-----------------------------------------------------------------------------
(* What goes out *)

\* get_llm_instance: what a turn would use now, without a key only where the adapter needs
\* none.  It reads all at once and changes nothing.
Usable(p) ==
    up = "on" /\ p \in DOMAIN entries /\ entries[p].on /\ (Key(p) # NoKey \/ p \in Keyless)
Turn(p) == Call("turn", p, entries[p].url, Key(p), Settled(p))

\* test_model_connection, fetch_provider_models, test_provider_stored_connection and
\* probe_provider_endpoints read the provider; the address of a stored test is the client's.
Ask(t, kind, p, url) ==
    /\ Free(t) /\ p \in DOMAIN entries
    /\ kind # "stored" => url = entries[p].url
    /\ reqs' = [reqs EXCEPT ![t] = [Request(kind, p, "key") EXCEPT !.entry = entries[p],
                                         !.url = url, !.alone = Settled(p)]]
    /\ count' = count + 1 /\ sent' = None
    /\ UNCHANGED <<entries, keys, temp, up, crashes, promised, torn>>

\* Who does without a key: a listing always, the test of a model never.
Enough(kind, p) ==
    Key(p) # NoKey \/ kind = "fetch" \/ (kind \in {"stored", "probe"} /\ p \in Keyless)

\* _build_candidates, mode auto: one per address.
Candidates(p, e) ==
    IF Profiles[p] = <<>> THEN <<[id |-> e.profile, url |-> e.url, regions |-> {}, priority |-> 1000]>>
    ELSE SelectSeq(Profiles[p], LAMBDA f : ProfileAt(p, f.url)[1] = f)

\* _probe_openai_models: only a list of models is a success, it comes fast or slow; what is
\* empty, refused or silent is none.
Successes(answers) == {i \in DOMAIN answers : answers[i] \in {"fast", "slow"}}

\* _pick_recommended_result: the region first, then the latency, then the priority.
Preferred(candidates, answers, i, j) ==
    LET near(k) == Hint \in candidates[k].regions
        fast(k) == answers[k] = "fast"
    IN  IF near(i) # near(j) THEN near(i)
        ELSE IF fast(i) # fast(j) THEN fast(i)
        ELSE IF candidates[i].priority # candidates[j].priority
        THEN candidates[i].priority < candidates[j].priority
        ELSE i <= j

Recommended(candidates, answers) ==
    LET best == {i \in Successes(answers) :
                    \A j \in Successes(answers) : Preferred(candidates, answers, i, j)}
    IN  IF best = {} THEN None ELSE CHOOSE i \in best : TRUE

Answered(t) ==
    LET r == reqs[t]
        call == Call(r.kind, r.p, r.url, Key(r.p), r.alone)
        candidates == Candidates(r.p, r.entry)
    IN  /\ up = "on" /\ t \in {s \in Tasks : Doing(s)} \ Changing
        /\ reqs' = [reqs EXCEPT ![t] = None]
        /\ \/ sent' = None /\ (~keys.whole \/ ~Enough(r.kind, r.p))
           \/ keys.whole /\ Enough(r.kind, r.p) /\ r.kind # "probe" /\ sent' = call
           \/ /\ keys.whole /\ Enough(r.kind, r.p) /\ r.kind = "probe"
              /\ \E answers \in [DOMAIN candidates -> Answers] :
                    sent' = [call EXCEPT !.probed = [candidates |-> candidates,
                                answers |-> answers,
                                recommended |-> Recommended(candidates, answers)]]
        /\ UNCHANGED <<entries, keys, temp, up, count, crashes, promised, torn>>

-----------------------------------------------------------------------------
(* The service is built, at the start and for every request. *)

Sync ==
    /\ up # "off"
    /\ entries' = [p \in DOMAIN entries |-> Synced(p, entries[p])]
    /\ up' = "on"
    /\ sent' = None
    /\ UNCHANGED <<keys, temp, reqs, count, crashes, promised, torn>>

Crash ==
    /\ up = "on" /\ Changing # {} /\ crashes < MaxCrashes
    /\ up' = "off" /\ crashes' = crashes + 1
    /\ torn' = torn \cup {reqs[s].p : s \in {c \in Changing : reqs[c].pc # "existing"}}
    /\ reqs' = [s \in Tasks |-> None]
    /\ sent' = None
    /\ UNCHANGED <<entries, keys, temp, count, promised>>

Restart ==
    /\ up = "off" /\ up' = "starting"
    /\ UNCHANGED <<entries, keys, temp, reqs, count, crashes, promised, torn, sent>>

\* Addresses of earlier versions.
Olds == {Migrations[p].old : p \in {q \in Builtin : Migrations[q] # None}}

\* One provider that is built in, as an earlier version may have left it, with a key.
Init ==
    /\ \E p \in Builtin, key \in Keys, url \in Urls \cup Olds :
          /\ entries = [q \in {p} |-> [url |-> url, profile |-> None, on |-> TRUE]]
          /\ keys = File([q \in {p} |-> key])
          /\ promised = [q \in Providers |->
                            IF q = p THEN [url |-> Migrated(p, url), key |-> key] ELSE None]
    /\ temp = None /\ reqs = [t \in Tasks |-> None]
    /\ up = "starting" /\ count = 0 /\ crashes = 0 /\ torn = {} /\ sent = None

Next ==
    \/ Sync \/ Crash \/ Restart
    \/ \E t \in Tasks :
          \/ UpdateConfig(t) \/ Load(t) \/ Open(t) \/ Write(t) \/ Replace(t) \/ Answered(t)
          \/ \E p \in Providers :
                \/ Delete(t, p)
                \/ \E url \in Urls, key \in Keys \cup {NoKey} : Create(t, p, url, key)
                \/ \E body \in Updates : Update(t, p, body)
                \/ \E kind \in {"test", "fetch", "stored", "probe"}, url \in Urls :
                      Ask(t, kind, p, url)

Spec == Init /\ [][Next]_vars

-----------------------------------------------------------------------------
(* Properties *)

(***************************************************************************)
(* What the requests last acknowledged of a provider is what the files     *)
(* say of it - whether it is there, its address, its key, and no key once  *)
(* it was deleted - also after a crash in the middle of another provider's *)
(* change, unless a change of this one was cut short by a crash or met     *)
(* another one (ModelConfigRepository.save_keys_config, set_api_key,       *)
(* delete_api_key, update_provider).                                       *)
(***************************************************************************)
KeysKept ==
    up = "on" => \A p \in Providers : Settled(p) =>
        /\ (p \in DOMAIN entries) = (promised[p] # None)
        /\ p \in DOMAIN entries => Migrated(p, entries[p].url) = promised[p].url
        /\ IF promised[p] = None THEN p \notin DOMAIN keys.pairs ELSE Key(p) = promised[p].key

(***************************************************************************)
(* The profile an entry names is never another one than that of its        *)
(* address, in whatever order addresses and profiles are set, by stale     *)
(* updates too (update_provider, _sync_single_builtin_provider_entry).     *)
(***************************************************************************)
ProfilesAgree ==
    \A p \in DOMAIN entries :
        entries[p].profile \in {f.id : f \in ToSet(Profiles[p])} =>
            \A f \in ToSet(ProfileAt(p, entries[p].url)) :
                f.id = entries[p].profile \/ f.url = ProfileNamed(p, entries[p].profile)[1].url

(***************************************************************************)
(* What goes out for a provider nobody was changing meanwhile goes to the  *)
(* address acknowledged last, with the key acknowledged last; and a probe  *)
(* recommends an address that answered, one of the client's region if one  *)
(* of those did (get_llm_instance, test_model_connection, probe).          *)
(***************************************************************************)
CallsHonest ==
    /\ \A call \in {Turn(p) : p \in {q \in Providers : Usable(q)}} \cup ({sent} \ {None}) :
          call.alone =>
              /\ call.key = promised[call.p].key
              /\ call.kind # "stored" => Migrated(call.p, call.url) = promised[call.p].url
    /\ sent # None /\ sent.probed # None =>
          LET good == Successes(sent.probed.answers)
              near == {i \in good : Hint \in sent.probed.candidates[i].regions}
          IN  IF good = {} THEN sent.probed.recommended = None
              ELSE sent.probed.recommended \in IF near = {} THEN good ELSE near
=============================================================================
