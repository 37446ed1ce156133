---------------------------- MODULE Translation ----------------------------
(***************************************************************************)
(* Translations and the local model: TranslationService.translate_stream   *)
(* (application/translation/translation_service.py) under its route        *)
(* (api/routers/translation.py), LocalLlamaCppService                      *)
(* (infrastructure/llm/local_llama_cpp_service.py) and the languages of    *)
(* LanguageDetectionService.                                               *)
(*                                                                         *)
(* Everything runs on the one thread of the event loop.  A local answer is *)
(* read synchronously, between two texts that are shown, by a generator    *)
(* that holds the thread lock of its model while it is suspended: who asks *)
(* for a lock that another holds stops the thread, and with it the holder. *)
(* A local compression asks for the same lock, and runs in one go.         *)
(***************************************************************************)
EXTENDS ThinkTags

CONSTANTS None,
          Users,          \* who asks for a translation, once each
          Configs,        \* [local, key, target, input]: what the settings may be
          Asked,          \* [target, auto, input]: what a request may ask for
          Detected,       \* what a text may be detected to be, or None
          Code,           \* normalize_language_hint: the code of a language's name, or None
          Compressors,    \* the keys of the models that compressions use
          Fragments,      \* what the model may say at once
          MaxFragments,   \* bound: symbols that are said in all
          MaxChanges      \* bound: changes of the settings

VARIABLES settings,  \* translation_config.yaml
          tr,        \* [Users -> the translation]
          lock,      \* _inference_locks: who holds it
          control,   \* who runs, between two points where others may: a user or None
          stuck,     \* whom the thread waits for, in vain: a user, "compression" or None
          changes

vars == <<settings, tr, lock, control, stuck, changes>>

\* `said' is history: what the model said, in all attempts.
Unasked == [stage |-> "none", config |-> None, asked |-> None, detected |-> None, target |-> None,
            attempt |-> "chat", filter |-> Open, said |-> <<>>, shown |-> <<>>, failed |-> FALSE]

Keys == {c.key : c \in Configs} \cup Compressors

Init ==
    /\ settings \in Configs
    /\ tr = [u \in Users |-> Unasked]
    /\ lock = [k \in Keys |-> None]
    /\ control = None /\ stuck = None /\ changes = 0

\* A coroutine takes a step when the thread is not stopped and no other is between two points.
Runs(u) == stuck = None /\ control \in {None, u}
Free == stuck = None /\ control = None

-----------------------------------------------------------------------------
(* The languages *)

\* A faulty Routed: the pair the wrong way round.
RoutedSwapped(detected, c) ==
    LET answer == Code[c.target]
        input == Code[c.input]
    IN  IF None \in {detected, answer, input} \/ answer = input THEN None
        ELSE IF detected = answer THEN c.target
        ELSE IF detected = input THEN c.input
        ELSE None

\* _resolve_auto_target_language: between the two languages of a pair.
Routed(detected, c) ==
    LET answer == Code[c.target]
        input == Code[c.input]
    IN  IF None \in {detected, answer, input} \/ answer = input THEN None
        ELSE IF detected = answer THEN c.input
        ELSE IF detected = input THEN c.target
        ELSE None

TargetOf(a, detected, c) ==
    IF a.target # None THEN a.target
    ELSE IF a.auto THEN (IF Routed(detected, c) # None THEN Routed(detected, c) ELSE c.target)
    ELSE IF a.input THEN c.input ELSE c.target

-----------------------------------------------------------------------------
(* A translation *)

\* The request, with the settings as they are; what was detected is the first thing told.
Ask(u, a, detected) ==
    /\ Free /\ tr[u].stage = "none"
    /\ a.auto \/ detected = None
    /\ tr' = [tr EXCEPT ![u] = [@ EXCEPT !.stage = "asked", !.config = settings, !.asked = a,
                                         !.detected = detected,
                                         !.target = TargetOf(a, detected, settings)]]
    /\ control' = IF detected = None THEN u ELSE None
    /\ UNCHANGED <<settings, lock, stuck, changes>>

\* With the coroutine goes all it knew; what was shown of a whole answer is remembered.
Gone(stage) == [Unasked EXCEPT !.stage = stage, !.failed = TRUE]

\* No such model, provider or key, or no file of the local one.
NotStarted(u) ==
    /\ Runs(u) /\ tr[u].stage = "asked"
    /\ tr' = [tr EXCEPT ![u] = Gone("over")] /\ control' = None
    /\ UNCHANGED <<settings, lock, stuck, changes>>

\* `with self._get_inference_lock()', on the thread of the event loop.
Acquire(k, who) ==
    IF lock[k] = None
    THEN lock' = [lock EXCEPT ![k] = who] /\ control' = who /\ UNCHANGED stuck
    ELSE stuck' = who /\ UNCHANGED <<lock, control>>

\* The prompt is made, and with it what was detected and asked for has had its effect.
Begin(u) ==
    /\ Runs(u) /\ tr[u].stage = "asked"
    /\ tr' = [tr EXCEPT ![u] = [Unasked EXCEPT !.stage = "streaming", !.config = tr[u].config]]
    /\ IF tr[u].config.local THEN Acquire(tr[u].config.key, u)
       ELSE control' = None /\ UNCHANGED <<lock, stuck>>
    /\ UNCHANGED <<settings, changes>>

Spoken == FoldSet(LAMBDA u, n : n + Len(tr[u].said), 0, Users)

\* A fragment goes through the filter; others may run only once something is shown.
Fragment(u, text) ==
    /\ Runs(u) /\ tr[u].stage = "streaming"
    /\ Spoken + Len(text) <= MaxFragments
    /\ LET f == Filter(tr[u].filter, text)
       IN  /\ tr' = [tr EXCEPT ![u] = [@ EXCEPT !.filter = [f EXCEPT !.shown = <<>>],
                                                !.said = @ \o text, !.shown = @ \o f.shown]]
           /\ control' = IF tr[u].config.local /\ f.shown = <<>> THEN u ELSE None
    /\ UNCHANGED <<settings, lock, stuck, changes>>

\* A faulty Released: who fails keeps the lock.
ReleasedWhenDone(u, failed) ==
    [k \in Keys |-> IF lock[k] = u /\ ~failed THEN None ELSE lock[k]]
Released(u, failed) == [k \in Keys |-> IF lock[k] = u THEN None ELSE lock[k]]

\* stream_messages: a chat that fails is begun anew as a completion, under the lock again.
FallsBack(u) ==
    /\ Runs(u) /\ tr[u].stage = "streaming"
    /\ tr[u].config.local /\ tr[u].attempt = "chat"
    /\ tr' = [tr EXCEPT ![u].attempt = "completion"]
    /\ IF Released(u, TRUE)[tr[u].config.key] = None
       THEN lock' = [Released(u, TRUE) EXCEPT ![tr[u].config.key] = u] /\ control' = u
            /\ UNCHANGED stuck
       ELSE stuck' = u /\ UNCHANGED <<lock, control>>
    /\ UNCHANGED <<settings, changes>>

\* The answer is over, or it fails for good.
AnswerOver(u, failed) ==
    /\ Runs(u) /\ tr[u].stage = "streaming"
    /\ failed /\ tr[u].config.local => tr[u].attempt = "completion"
    /\ tr' = [tr EXCEPT ![u] =
                 IF failed THEN Gone("over")
                 ELSE [Unasked EXCEPT !.stage = "over", !.said = tr[u].said,
                                      !.shown = tr[u].shown \o Flushed(tr[u].filter)]]
    /\ lock' = Released(u, failed) /\ control' = None
    /\ UNCHANGED <<settings, stuck, changes>>

\* The client goes away while others run; the generators close once they are collected.
Leave(u) ==
    /\ Free /\ tr[u].stage \in {"asked", "streaming"}
    /\ tr' = [tr EXCEPT ![u] = Gone("left")]
    /\ UNCHANGED <<settings, lock, control, stuck, changes>>

Collected(u) ==
    /\ Free /\ tr[u].stage = "left"
    /\ tr' = [tr EXCEPT ![u] = Gone("over")]
    /\ lock' = Released(u, FALSE)
    /\ UNCHANGED <<settings, control, stuck, changes>>

-----------------------------------------------------------------------------
(* The rest of the system *)

\* A local compression: all its calls of the model without a pause.
Compress(k) ==
    /\ Free /\ lock[k] # None
    /\ stuck' = "compression"
    /\ UNCHANGED <<settings, tr, lock, control, changes>>

Configure(c) ==
    /\ Free /\ changes < MaxChanges
    /\ settings' = c /\ changes' = changes + 1
    /\ UNCHANGED <<tr, lock, control, stuck>>

Next ==
    \/ \E u \in Users :
          \/ \E a \in Asked, d \in Detected : Ask(u, a, d)
          \/ NotStarted(u) \/ Begin(u) \/ FallsBack(u) \/ Leave(u) \/ Collected(u)
          \/ \E text \in Fragments : Fragment(u, text)
          \/ \E failed \in BOOLEAN : AnswerOver(u, failed)
    \/ \E k \in Compressors : Compress(k)
    \/ \E c \in Configs : Configure(c)

Spec == Init /\ [][Next]_vars

-----------------------------------------------------------------------------
(* Properties *)

(***************************************************************************)
(* A lock is held by a translation that uses its model and is not over; so *)
(* the thread stops for ever only when two uses of one model overlap, and  *)
(* never for a translation that failed, was left, or uses other settings   *)
(* (LocalLlamaCppService, translate_stream).                               *)
(***************************************************************************)
StopsOnlyInOverlap ==
    /\ \A k \in Keys : lock[k] # None =>
          /\ tr[lock[k]].stage \in {"streaming", "left"}
          /\ tr[lock[k]].stage = "streaming" =>
                tr[lock[k]].config.local /\ tr[lock[k]].config.key = k
    /\ stuck \in Users =>
          /\ lock[tr[stuck].config.key] \notin {None, stuck}
          /\ tr[stuck].config.local
    /\ stuck = "compression" => \E k \in Compressors : lock[k] # None

(***************************************************************************)
(* What is shown of an answer is at every moment a beginning of what a     *)
(* parser of the whole text would call content, also across an attempt     *)
(* that failed, and all of it in the end but for the beginning of a tag    *)
(* (ThinkTagStreamFilter).                                                 *)
(***************************************************************************)
ShownWhole ==
    \A u \in Users :
       LET whole == Parsed("content", tr[u].said)
           missing == SubSeq(whole, Len(tr[u].shown) + 1, Len(whole))
       IN  /\ IsPrefix(tr[u].shown, whole)
           /\ tr[u].stage = "over" /\ ~tr[u].failed => IsPrefix(missing, Start)

(***************************************************************************)
(* With two languages to go between, a text whose language is detected is  *)
(* never translated into that language unless the request names it         *)
(* (_resolve_auto_target_language).                                        *)
(***************************************************************************)
NotIntoItself ==
    \A u \in Users :
       LET c == tr[u].config
           paired == None \notin {Code[c.target], Code[c.input]} /\ Code[c.target] # Code[c.input]
       IN  tr[u].stage = "asked" /\ tr[u].asked.auto /\ tr[u].asked.target = None /\ paired
              /\ tr[u].detected # None
           => Code[tr[u].target] # tr[u].detected
=============================================================================
