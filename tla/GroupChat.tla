----------------------------- MODULE GroupChat -----------------------------
(***************************************************************************)
(* One question to a group of assistants: GroupChatService and the         *)
(* orchestrators of application/chat/chat_runtime.  In round robin each    *)
(* participant speaks once; in a committee a supervisor, itself a          *)
(* participant, decides every round who speaks, alone or in parallel, and  *)
(* when to finish.  A gatekeeper corrects what the supervisor's model      *)
(* says.  What a turn says is left out, but whether it speaks for another  *)
(* participant (role drift) and is asked again.  Nothing under src/ hands  *)
(* the orchestrators a cancel token, so the checks for one are left out.   *)
(* An append to the session's file is one step here.                       *)
(***************************************************************************)
EXTENDS Integers, Sequences, SequencesExt

CONSTANTS None,
          Groups,   \* the group_assistants of a session that are enabled
          Policies, \* the policies of the group's settings, with None for what is not set
          AllowParallel, \* values of allow_parallel_speak
          AllowFinish    \* values of allow_finish

VARIABLES mode,     \* "round_robin" or "committee"
          order,    \* participant_order
          boss,     \* supervisor_id
          settings, \* ResolvedCommitteeSettings
          pc,       \* "round", "speak", "parallel", "summary" or "done"
          round,    \* state.round_index
          turns,    \* per participant: its turns in state.turns
          last,     \* who took the last of them
          talk,     \* per participant asked in this round: "streams", "answered" or "failed"
          targets,  \* who was asked, in order
          attempt,  \* of the turn
          log,      \* per participant: its messages in the session
          reason    \* of the group_done event

vars == <<mode, order, boss, settings, pc, round, turns, last, talk, targets, attempt, log, reason>>

-----------------------------------------------------------------------------
(* Settings *)

Lesser(a, b) == IF a < b THEN a ELSE b
Greater(a, b) == IF a < b THEN b ELSE a
Set(value, default) == IF value = None THEN default ELSE value

\* CommitteePolicy.
RoundLimit(raw, fallback, cap) ==
    IF raw = None \/ Set(raw, 0) <= 0 THEN fallback ELSE Lesser(raw, cap)

RoundPolicy(raw, participants) ==
    LET members == participants - 1
        minTurns == IF members >= 2 THEN 2 ELSE 1
        minRounds == members * minTurns
        limit == RoundLimit(raw, Greater(6, minRounds), 18)
    IN  [max |-> IF members > 0 THEN Greater(limit, minRounds) ELSE limit,
         minTurns |-> minTurns, minRounds |-> minRounds]

\* GroupSettingsResolver.resolve_committee_settings; rounds is the limit of the policy or
\* else of the supervisor.
Resolve(policy, participants) ==
    LET base == RoundPolicy(policy.rounds, participants)
        minRounds == Greater(0, Set(policy.minRounds, base.minRounds))
    IN  [max |-> Greater(minRounds, RoundLimit(policy.rounds, Greater(base.max, minRounds), 24)),
         minTurns |-> Greater(1, Lesser(Set(policy.minTurns, base.minTurns), 6)),
         minRounds |-> minRounds,
         maxParallel |-> Greater(1, Lesser(Set(policy.maxParallel, 3), 5)),
         retries |-> Greater(0, Lesser(Set(policy.retries, 1), 4))]

\* process_group_message_stream up to the orchestrator: the question is in the session.
Init ==
    /\ mode \in {"round_robin", "committee"}
    /\ order \in Groups /\ boss \in ToSet(order)
    /\ \E policy \in Policies, parallel \in AllowParallel, finish \in AllowFinish :
          settings = Resolve(policy, Len(order)) @@ [parallel |-> parallel, finish |-> finish]
    /\ pc = "round" /\ round = 0 /\ last = None /\ attempt = 0 /\ reason = None
    /\ turns = [p \in ToSet(order) |-> 0] /\ log = turns
    /\ talk = [p \in ToSet(order) |-> None] /\ targets = <<>>

-----------------------------------------------------------------------------
(* The gatekeeper *)

Members == SelectSeq(order, LAMBDA p : p # boss)
Pending == SelectSeq(Members, LAMBDA p : turns[p] = 0)
Total == FoldLeft(LAMBDA n, p : n + turns[p], 0, order)

\* depth_required_target: who should speak before the committee may finish; first a faulty
\* one that forgets the least number of rounds.
Before(p, q) ==
    \/ turns[p] < turns[q]
    \/ turns[p] = turns[q] /\ \E i, j \in DOMAIN order : i <= j /\ order[i] = p /\ order[j] = q
First(candidates) == CHOOSE p \in candidates : \A q \in candidates : Before(p, q)
Quiet == {p \in ToSet(Members) : turns[p] < settings.minTurns}
Ranked(candidates) == First(IF candidates \ {last} = {} THEN candidates ELSE candidates \ {last})
QuietTarget == IF Quiet = {} THEN None ELSE Ranked(Quiet)
DepthTarget ==
    CASE Members = <<>> \/ (Quiet = {} /\ round >= settings.minRounds) -> None
      [] Members # <<>> /\ Quiet # {} -> Ranked(Quiet)
      [] OTHER -> Ranked(ToSet(Members))

FallbackSpeaker ==
    LET candidates == IF Members = <<>> THEN order ELSE Members
    IN  candidates[(Total % Len(candidates)) + 1]

Speak(p) == [action |-> "speak", whom |-> <<p>>]
Forced == IF Pending # <<>> THEN Pending[1] ELSE Set(DepthTarget, FallbackSpeaker)

\* _normalize_finish_decision.
Finish ==
    IF settings.finish /\ Pending = <<>> /\ DepthTarget = None
    THEN [action |-> "finish", whom |-> <<>>] ELSE Speak(Forced)

\* _normalize_single_speak_decision.
Single(who) ==
    CASE Pending # <<>> -> Speak(IF who \in ToSet(Pending) THEN who ELSE Pending[1])
      [] Pending = <<>> /\ DepthTarget # None -> Speak(DepthTarget)
      [] OTHER -> Speak(IF who \in ToSet(order) THEN who ELSE FallbackSpeaker)

\* _select_parallel_targets and _normalize_parallel_speak_decision.
Append2(chosen, more) == chosen \o SelectSeq(more, LAMBDA p : p \notin ToSet(chosen))
Slots == IF Len(Pending) > 1 /\ settings.max - round <= Len(Pending) THEN 2 ELSE 1
Selected(requested) ==
    LET asked == Append2(SelectSeq(requested, LAMBDA p : p # boss), Pending)
        all == IF DepthTarget = None THEN asked ELSE Append2(asked, <<DepthTarget>>)
        limited == SubSeq(all, 1, Lesser(Len(all), settings.maxParallel))
        filled == Append2(limited, Members)
    IN  IF Len(limited) >= Slots THEN limited
        ELSE SubSeq(filled, 1, Greater(Len(limited), Lesser(Slots, Len(filled))))
Parallel(requested) ==
    LET selected == Selected(requested)
    IN  CASE Len(selected) > 1 -> [action |-> "parallel_speak", whom |-> selected]
          [] Len(selected) = 1 -> Speak(selected[1])
          [] OTHER -> Speak(IF Pending # <<>> THEN Pending[1] ELSE FallbackSpeaker)

\* normalize: what the supervisor's model said, or None for what cannot be parsed.
Normalize(said) ==
    CASE said.action = "finish" -> Finish
      [] said.action = "parallel_speak" /\ settings.parallel -> Parallel(said.whom)
      [] OTHER -> Single(IF said.whom = <<>> THEN None ELSE said.whom[1])

-----------------------------------------------------------------------------
(* The loop *)

End(why) == pc' = "done" /\ reason' = why

\* CommitteeLoopStateMachine.run, one round, with the supervisor's call in it.
Decide(said) ==
    /\ mode = "committee" /\ pc = "round" /\ round < settings.max
    /\ LET decision == Normalize(said)
       IN  /\ targets' = decision.whom
           /\ talk' = [p \in DOMAIN talk |-> IF p \in ToSet(decision.whom) THEN "streams" ELSE None]
           /\ attempt' = 0
           /\ \/ decision.action = "finish" /\ pc' = "summary" /\ reason' = "finish"
              \/ decision.action = "speak" /\ pc' = "speak" /\ UNCHANGED reason
              \/ decision.action = "parallel_speak" /\ pc' = "parallel" /\ UNCHANGED reason
    /\ UNCHANGED <<mode, order, boss, settings, round, turns, last, log>>

SupervisorFails ==
    /\ mode = "committee" /\ pc = "round" /\ round < settings.max /\ End("failed")
    /\ UNCHANGED <<mode, order, boss, settings, round, turns, last, talk, targets, attempt, log>>

\* process, after the last round.
RoundsOver ==
    /\ mode = "committee" /\ pc = "round" /\ round >= settings.max
    /\ pc' = "summary" /\ reason' = "max_rounds_reached"
    /\ UNCHANGED <<mode, order, boss, settings, round, turns, last, talk, targets, attempt, log>>

\* _run_round_robin_actor: who is next.
NextInTurn ==
    /\ mode = "round_robin" /\ pc = "round"
    /\ IF round = Len(order) THEN End("completed") /\ UNCHANGED <<targets, talk>>
       ELSE /\ pc' = "speak" /\ targets' = <<order[round + 1]>>
            /\ talk' = [talk EXCEPT ![order[round + 1]] = "streams"] /\ UNCHANGED reason
    /\ attempt' = 0
    /\ UNCHANGED <<mode, order, boss, settings, round, turns, last, log>>

Recorded(p) == turns' = [turns EXCEPT ![p] = @ + 1] /\ last' = p

\* stream_group_assistant_turn to its end, and _handle_speak_action from there: the answer
\* is in the session before it is read for role drift.
Answer(p, drifts) ==
    /\ pc = "speak" /\ talk[p] = "streams"
    /\ log' = [log EXCEPT ![p] = @ + 1]
    /\ IF mode = "committee" /\ drifts /\ attempt < settings.retries
       THEN attempt' = attempt + 1 /\ UNCHANGED <<pc, talk, turns, last, round>>
       ELSE /\ Recorded(p) /\ round' = round + 1 /\ pc' = "round"
            /\ talk' = [talk EXCEPT ![p] = "answered"] /\ UNCHANGED attempt
    /\ UNCHANGED <<mode, order, boss, settings, targets, reason>>

\* The turn raises, and the engine reports the run as failed.
Fail(p) ==
    /\ pc = "speak" /\ talk[p] = "streams" /\ End("failed")
    /\ UNCHANGED <<mode, order, boss, settings, round, turns, last, talk, targets, attempt, log>>

\* _run_parallel_target.
AnswerInParallel(p) ==
    /\ pc = "parallel" /\ talk[p] = "streams"
    /\ talk' = [talk EXCEPT ![p] = "answered"] /\ log' = [log EXCEPT ![p] = @ + 1]
    /\ UNCHANGED <<mode, order, boss, settings, pc, round, turns, last, targets, attempt, reason>>
FailInParallel(p) ==
    /\ pc = "parallel" /\ talk[p] = "streams"
    /\ talk' = [talk EXCEPT ![p] = "failed"]
    /\ UNCHANGED <<mode, order, boss, settings, pc, round, turns, last, targets, attempt, log, reason>>

\* _handle_parallel_speak_action, when all are done: the turns of those with a message are
\* recorded; first a faulty one that records all.
All == targets
Successful == SelectSeq(targets, LAMBDA p : talk[p] = "answered")
Gather ==
    /\ pc = "parallel" /\ \A p \in ToSet(targets) : talk[p] # "streams"
    /\ IF Successful = <<>> THEN End("parallel_speak_failed") /\ UNCHANGED <<turns, last, round>>
       ELSE /\ turns' = [p \in DOMAIN turns |->
                           IF p \in ToSet(Successful) THEN turns[p] + 1 ELSE turns[p]]
            /\ last' = Last(Successful) /\ round' = round + 1 /\ pc' = "round"
            /\ UNCHANGED reason
    /\ UNCHANGED <<mode, order, boss, settings, talk, targets, attempt, log>>

\* stream_supervisor_summary; where it raises the run has failed.
Summarise(raises) ==
    /\ pc = "summary" /\ pc' = "done"
    /\ reason' = (IF raises THEN "failed" ELSE reason)
    /\ log' = (IF raises THEN log ELSE [log EXCEPT ![boss] = @ + 1])
    /\ UNCHANGED <<mode, order, boss, settings, round, turns, last, talk, targets, attempt>>

\* The program shuts down: what a turn said so far goes into the session.
Stop(spoke) ==
    /\ pc \in {"speak", "parallel"} /\ \A p \in spoke : talk[p] = "streams"
    /\ log' = [p \in DOMAIN log |-> IF p \in spoke THEN log[p] + 1 ELSE log[p]]
    /\ End("stopped")
    /\ UNCHANGED <<mode, order, boss, settings, round, turns, last, talk, targets, attempt>>

Said == [action : {"speak", "parallel_speak", "finish"},
         whom : UNION {[1..n -> ToSet(order)] : n \in 0..2}]

Next ==
    \/ \E said \in Said : Decide(said)
    \/ SupervisorFails \/ RoundsOver \/ NextInTurn
    \/ \E p \in ToSet(order), drifts \in BOOLEAN : Answer(p, drifts)
    \/ \E p \in ToSet(order) : Fail(p) \/ AnswerInParallel(p) \/ FailInParallel(p)
    \/ Gather
    \/ \E raises \in BOOLEAN : Summarise(raises)
    \/ \E spoke \in SUBSET ToSet(order) : Stop(spoke)

Spec == Init /\ [][Next]_vars

-----------------------------------------------------------------------------
(* Properties *)

\* A committee that finishes by its supervisor's word has heard every member as often, and
\* gone on for as many rounds, as its settings say, whatever the supervisor's model asked
\* for in which round and whoever failed (a supervisor alone may finish at once); every turn
\* that counted is a message of the session.  A round robin that completes has heard everybody.
EveryoneHeard ==
    /\ reason = "finish" =>
          /\ Members # <<>> => round >= settings.minRounds
          /\ \A p \in ToSet(Members) : settings.minTurns <= turns[p] /\ turns[p] <= log[p]
    /\ reason = "completed" => \A p \in ToSet(order) : log[p] = 1
=============================================================================
