------------------------------ MODULE ToolLoop ------------------------------
(***************************************************************************)
(* One streamed model call with tools: call_llm_stream                     *)
(* (llm_runtime/streaming_client.py) around ToolLoopRunner                 *)
(* (llm_runtime/tool_loop_runner.py, tool_loop_runtime.py), and the tool   *)
(* calls that the browser executes, whose results reach the turn through   *)
(* ClientToolCallCoordinator.  The ids a provider gives to tool calls are  *)
(* taken to be unique.  A call is named by its round and position.         *)
(***************************************************************************)
EXTENDS Naturals, Sequences

CONSTANTS None,
          Batches,       \* sequences of tools the model may call in one pass
          MaxToolRounds, \* resolve_max_tool_rounds: 3, 5 or 6
          MaxPosts       \* bound: results the browser posts for one call

Searches == {"search_knowledge", "web_search"}
Reads == {"read_knowledge", "read_webpage"}
Client == "execute_python"
Tools == Searches \cup Reads \cup {Client}

Positions == UNION {DOMAIN calls : calls \in Batches}
Calls == (1..MaxToolRounds) \X Positions

ASSUME ToolAssumption ==
    /\ Batches \subseteq Seq(Tools) /\ <<>> \notin Batches
    /\ MaxToolRounds \in Nat \ {0} /\ MaxPosts \in Nat
    /\ None \notin {"waiting", "set", "cancelled"} \cup Calls

VARIABLES evidence, web, \* evidence_intent and web_research_enabled
          pc,            \* "llm", "tools", "done"
          round,         \* tool_round
          final,         \* force_finalize_without_tools
          compensated,   \* subset of {"read", "web"}: the prompts already used
          used,          \* the tools called so far (the counters that are positive)
          found,         \* searches that left refs or urls
          answered,      \* tool_result_count > 0
          stalled,       \* no_progress_rounds
          text,          \* full_response is not blank
          batch, results, \* calls of this round, and the results there are
          msgs,          \* messages added to current_messages
          passes,        \* history: model calls made
          pending,       \* _pending: per call None, "waiting", "set" or "cancelled"
          buffered,      \* _buffered: the calls with a buffered result
          waiting,       \* the call the turn awaits, or None
          future,        \* the state of the future it awaits
          announced,     \* calls the browser has been told to execute
          posts          \* per call: results posted by the browser

loopVars == <<evidence, web, pc, round, final, compensated, used, found, answered, stalled,
              text, batch, results, msgs, passes>>
clientVars == <<pending, buffered, waiting, future, announced, posts>>
vars == <<loopVars, clientVars>>

Init ==
    /\ evidence \in BOOLEAN /\ web \in BOOLEAN
    /\ pc = "llm" /\ round = 0 /\ final = FALSE /\ compensated = {} /\ used = {}
    /\ found = {} /\ answered = FALSE /\ stalled = 0 /\ text = FALSE
    /\ batch = <<>> /\ results = <<>> /\ msgs = <<>> /\ passes = 0
    /\ pending = [c \in Calls |-> None] /\ buffered = {} /\ waiting = None /\ future = None
    /\ announced = {} /\ posts = [c \in Calls |-> 0]

-----------------------------------------------------------------------------
(* After a pass of the model: decide_tool_loop_branch *)

Message(kind) == [kind |-> kind, call |-> None]
CallMessage(n) == [kind |-> "calls", call |-> <<round, n>>]
Tool(i) == [kind |-> "tool", call |-> <<round, i>>]

\* The messages of a round: the model's, with its calls, and one per result.
RoundMessages == <<CallMessage(Len(results))>> \o [i \in DOMAIN results |-> Tool(i)]

\* should_request_read_compensation
NeedsRead ==
    /\ ~final /\ evidence /\ "read" \notin compensated
    /\ used \cap Searches # {} /\ used \cap Reads = {}
    /\ "search_knowledge" \in found

\* should_request_web_read_compensation
NeedsWebRead ==
    /\ ~final /\ web /\ "web" \notin compensated
    /\ "web_search" \in used /\ "read_webpage" \notin used
    /\ "web_search" \in found

\* A faulty prompt that is not noted, then the one that is.
CompensateUnnoted(kind) == msgs' = Append(msgs, Message("human")) /\ UNCHANGED compensated
Compensate(kind) == msgs' = Append(msgs, Message("human")) /\ compensated' = compensated \cup {kind}

\* The model answered without calls: ask it to read what it found, once of each kind ...
AnsweredTooSoon ==
    /\ pc = "llm" /\ (NeedsRead \/ NeedsWebRead)
    /\ passes' = passes + 1
    /\ IF NeedsRead THEN Compensate("read") ELSE Compensate("web")
    /\ UNCHANGED <<evidence, web, pc, round, final, used, found, answered, stalled, text,
                   batch, results, clientVars>>

\* ... or finish: finalize_tool_loop puts an answer in when there is none.
Answered(says) ==
    /\ pc = "llm" /\ ~NeedsRead /\ ~NeedsWebRead
    /\ passes' = passes + 1
    /\ pc' = "done"
    /\ text' = (text \/ says \/ answered)
    /\ UNCHANGED <<evidence, web, round, final, compensated, used, found, answered, stalled,
                   batch, results, msgs, clientVars>>

\* advance_round_or_force_finalize: the calls are dropped and the model has to answer.  First
\* a faulty one that passes them on.
KeepsCalls == msgs' = msgs \o <<CallMessage(1), Message("human")>>
DropsCalls == msgs' = msgs \o <<Message("ai"), Message("human")>>

Exhausted == stalled >= 2 /\ answered

ForceFinalize(says) ==
    /\ pc = "llm" /\ ~final
    /\ Exhausted \/ round >= MaxToolRounds
    /\ round' = IF Exhausted THEN round ELSE round + 1
    /\ final' = TRUE
    /\ text' = (text \/ says)
    /\ DropsCalls
    /\ passes' = passes + 1
    /\ UNCHANGED <<evidence, web, pc, compensated, used, found, answered, stalled, batch,
                   results, clientVars>>

\* The calls are announced to the client and executed.
CallTools(calls, says) ==
    /\ pc = "llm" /\ ~final
    /\ ~Exhausted /\ round < MaxToolRounds
    /\ round' = round + 1
    /\ pc' = "tools" /\ batch' = calls /\ results' = <<>>
    /\ text' = (text \/ says)
    /\ passes' = passes + 1
    /\ announced' = announced \cup {<<round + 1, i>> : i \in {j \in DOMAIN calls : calls[j] = Client}}
    /\ UNCHANGED <<evidence, web, final, compensated, used, found, answered, stalled, msgs,
                   pending, buffered, waiting, future, posts>>

-----------------------------------------------------------------------------
(* execute_tool_calls, one after the other *)

Running == pc = "tools" /\ Len(results) < Len(batch)
Current == <<round, Len(results) + 1>>
CurrentTool == batch[Len(results) + 1]

\* What a search or a read brings: a new query or target, and references or content.
Outcomes == [fresh : BOOLEAN, hits : BOOLEAN]
Useless == [fresh |-> FALSE, hits |-> FALSE]

ServerTool ==
    /\ Running /\ CurrentTool # Client
    /\ \E outcome \in Outcomes : results' = Append(results, outcome)
    /\ UNCHANGED <<evidence, web, pc, round, final, compensated, used, found, answered,
                   stalled, text, batch, msgs, passes, clientVars>>

\* record_round_activity and append_round_with_tool_results.
FinishRound ==
    /\ pc = "tools" /\ Len(results) = Len(batch)
    /\ pc' = "llm"
    /\ used' = used \cup {batch[i] : i \in DOMAIN batch}
    /\ found' = found \cup {batch[i] : i \in {j \in DOMAIN batch : results[j].hits}}
    /\ answered' = TRUE
    /\ stalled' = IF \E i \in DOMAIN results : results[i].fresh \/ results[i].hits
                  THEN 0 ELSE stalled + 1
    /\ msgs' = msgs \o RoundMessages
    /\ UNCHANGED <<evidence, web, round, final, compensated, text, batch, results, passes,
                   clientVars>>

-----------------------------------------------------------------------------
(* ClientToolCallCoordinator *)

\* await_result: a result that came before is taken, or a future is registered.
Await ==
    /\ Running /\ CurrentTool = Client /\ waiting = None
    /\ IF Current \in buffered
       THEN /\ buffered' = buffered \ {Current}
            /\ results' = Append(results, Useless)
            /\ UNCHANGED <<pending, waiting, future>>
       ELSE /\ pending' = [pending EXCEPT ![Current] = "waiting"]
            /\ waiting' = Current /\ future' = "waiting"
            /\ UNCHANGED <<buffered, results>>
    /\ UNCHANGED <<announced, posts, evidence, web, pc, round, final, compensated, used, found, answered,
                   stalled, text, batch, msgs, passes>>

\* submit_result: a future that waits is set, and anything else is buffered.  First a
\* faulty one that does not look.
SubmitBuffered(c) == buffered' = buffered \cup {c} /\ UNCHANGED <<pending, future>>
Submit(c) ==
    IF pending[c] = "waiting"
    THEN /\ pending' = [pending EXCEPT ![c] = None]
         /\ future' = "set"
         /\ UNCHANGED buffered
    ELSE buffered' = buffered \cup {c} /\ UNCHANGED <<pending, future>>

\* The browser posts once it has the announcement; if posting fails it may post an error.
Post(c) ==
    /\ c \in announced
    /\ posts[c] < MaxPosts /\ posts' = [posts EXCEPT ![c] = @ + 1]
    /\ Submit(c)
    /\ UNCHANGED <<loopVars, waiting, announced>>

\* wait_for cancels the future; first a faulty one that waits without a limit.
NoTimeOut == FALSE /\ UNCHANGED vars
TimeOut ==
    /\ waiting # None /\ future = "waiting"
    /\ future' = "cancelled"
    /\ pending' = [pending EXCEPT ![waiting] = "cancelled"]
    /\ UNCHANGED <<loopVars, buffered, waiting, announced, posts>>

\* The finally clause; first a faulty one that is missing.
NotReleased == UNCHANGED pending
Released == pending' = [pending EXCEPT ![waiting] = None]

\* The turn goes on with the result, or with an error or another way to run the code.
Wake ==
    /\ waiting # None /\ future # "waiting"
    /\ Released
    /\ waiting' = None /\ future' = None
    /\ results' = Append(results, Useless)
    /\ UNCHANGED <<buffered, announced, posts, evidence, web, pc, round, final, compensated, used, found,
                   answered, stalled, text, batch, msgs, passes>>

\* The user stops the stream: the turn is cancelled wherever it is.
Abandon ==
    /\ pc # "done" /\ pc' = "done"
    /\ IF waiting = None THEN UNCHANGED pending ELSE Released
    /\ waiting' = None /\ future' = None
    /\ UNCHANGED <<buffered, announced, posts, evidence, web, round, final, compensated, used, found,
                   answered, stalled, text, batch, results, msgs, passes>>
-----------------------------------------------------------------------------
Turn ==
    \/ AnsweredTooSoon
    \/ \E says \in BOOLEAN :
          Answered(says) \/ ForceFinalize(says) \/ \E calls \in Batches : CallTools(calls, says)
    \/ ServerTool \/ FinishRound
    \/ Await \/ TimeOut \/ Wake

Next == Turn \/ Abandon \/ \E c \in Calls : Post(c)

Spec == Init /\ [][Next]_vars

\* The adapter's stream ends, a server tool returns and a timer fires.  The browser need
\* never post.
FairSpec == Spec /\ WF_vars(Turn)

-----------------------------------------------------------------------------
(* Properties *)

\* A turn costs a bounded number of model calls, whatever the model asks for: every round of
\* tools, one prompt of each kind, one refusal of more tools and the answer.
RoundsBounded == passes <= MaxToolRounds + 4

\* What a provider insists on: a message with tool calls is followed by the results of these
\* calls and of no other, also when the calls of a pass are dropped.
CallsAnswered ==
    \A i \in DOMAIN msgs :
        LET call == msgs[i].call IN
        /\ msgs[i].kind = "calls" => \A k \in 1..call[2] :
              i + k \in DOMAIN msgs /\ msgs[i + k] = [kind |-> "tool", call |-> <<call[1], k>>]
        /\ msgs[i].kind = "tool" => \E j \in 1..i : msgs[j].kind = "calls"
              /\ msgs[j].call[1] = call[1] /\ i - j = call[2] /\ call[2] <= msgs[j].call[2]

\* await_result and submit_result meet: the turn never sleeps on a call whose result has
\* arrived, and the coordinator, which lives as long as the process, forgets a call nobody
\* awaits.
Rendezvous ==
    /\ future = "waiting" => waiting \notin buffered
    /\ \A c \in Calls : pending[c] # None => c = waiting

\* Every call of a round is answered once, and by the result meant for it.
ResultsReachTheirCall == CallsAnswered /\ Rendezvous

\* A turn ends though the browser may never answer and the model may never stop calling.
TurnEnds == <>(pc = "done")
=============================================================================
