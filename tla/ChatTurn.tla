------------------------------ MODULE ChatTurn ------------------------------
(***************************************************************************)
(* The turns of a single chat (application/chat): the producer of          *)
(* POST /chat/stream, SingleChatFlowService, ChatInputService and          *)
(* PostTurnService, together with CompressionService and the separator     *)
(* endpoint, around the log of one session.                                *)
(*                                                                         *)
(* Several requests may be at work at once: the producer of a stream runs  *)
(* on when its client goes away, so a regenerated turn can overlap with    *)
(* the one it replaces.  An operation on the log is one step here:         *)
(* ConversationStorage looks inside it.  An entry is [kind, id, by,        *)
(* covers]: by is the request that wrote it, covers what a summary sums    *)
(* up.  What the messages say, tools, sources and memory are left out.     *)
(***************************************************************************)
EXTENDS Naturals, Sequences, FiniteSets

CONSTANTS NoQuestion,   \* a request that asks nothing
          MaxRequests,  \* bound: requests, numbered as they come in
          MinMessages,  \* min_messages: fewer are not compressed
          MaxBusy,      \* bound: requests at work at the same time
          MaxLog        \* bound: entries of the log when a request comes in

ASSUME TurnAssumption ==
    /\ MaxRequests \in Nat /\ MinMessages \in Nat /\ MaxLog \in Nat
    /\ NoQuestion \notin Nat

VARIABLES log, req,
          nextId,       \* fresh message ids
          crossed       \* history: requests whose summary was in the making when another
                        \* request changed the log

turnVars == <<log, req, nextId, crossed>>

Requests == 1..MaxRequests
Boundaries == {"summary", "separator"}
\* asks is the id of the question, prompt what the model gets to see,
\* sums what is being summed up, and alone a history: no other request was at work at the
\* same time.
Unused == [pc |-> "idle", temporary |-> FALSE, asks |-> NoQuestion, prompt |-> {},
           sums |-> {}, alone |-> TRUE]

TurnInit ==
    /\ log = <<>> /\ nextId = 1 /\ crossed = {}
    /\ req = [r \in Requests |-> Unused]

-----------------------------------------------------------------------------
(* What the model gets to see of a list of messages *)

Entry(kind, id, r, covers) == [kind |-> kind, id |-> id, by |-> r, covers |-> covers]

LastOf(msgs, kinds) ==
    LET at == {i \in DOMAIN msgs : msgs[i].kind \in kinds}
    IN  IF at = {} THEN 0 ELSE CHOOSE i \in at : \A j \in at : j <= i

\* filter_messages_by_context_boundary; first a faulty one that looks for summaries only.
SummaryBoundary(msgs) == LastOf(msgs, {"summary"})
Boundary(msgs) == LastOf(msgs, Boundaries)
AfterBoundary(msgs) == SubSeq(msgs, Boundary(msgs) + 1, Len(msgs))
IdsOf(msgs) == {msgs[i].id : i \in DOMAIN msgs}

\* The ids in the prompt, as they are or summed up.
Reaches(msgs) ==
    IdsOf(AfterBoundary(msgs)) \cup
    IF Boundary(msgs) # 0 THEN msgs[Boundary(msgs)].covers ELSE {}

\* Where _maybe_auto_compress applies; first a faulty condition.
AnyTurn(r) == TRUE
MayCompress(r) == ~req[r].temporary

-----------------------------------------------------------------------------
At(r, pc) == req[r].pc = pc
Done(r) == [Unused EXCEPT !.pc = "done", !.temporary = req[r].temporary]
Go(r, pc) == req' = [req EXCEPT ![r] = IF pc = "done" THEN Done(r) ELSE [@ EXCEPT !.pc = pc]]

\* The log changes under the other requests.
Wrote(r, new) ==
    /\ log' = new
    /\ crossed' = crossed \cup {q \in Requests \ {r} : At(q, "summarising")}
Busy == {r \in Requests : req[r].pc \notin {"idle", "done"}}

\* A request comes in, and the others are not alone any more.
Arrives(r, record) ==
    /\ At(r, "idle") /\ \A q \in 1..(r - 1) : ~At(q, "idle")
    /\ Len(log) < MaxLog /\ Cardinality(Busy) < MaxBusy
    /\ req' = [q \in Requests |->
                 CASE q = r -> [record EXCEPT !.alone = Busy = {}]
                   [] q \in Busy -> [req[q] EXCEPT !.alone = FALSE]
                   [] OTHER -> req[q]]

\* A request comes in: an edit or a regeneration truncates the log first, and a
\* regeneration then finds its question there (skip_user_append).
BeginTurn(r, temporary, skip, keep) ==
    /\ keep <= Len(log)
    /\ temporary => ~skip /\ keep = Len(log)
    /\ skip => keep > 0 /\ log[keep].kind = "user"
    /\ Wrote(r, SubSeq(log, 1, keep))
    /\ Arrives(r, [Unused EXCEPT !.pc = "asking", !.temporary = temporary,
                               !.asks = IF skip THEN log[keep].id ELSE NoQuestion])
    /\ UNCHANGED nextId

\* prepare_user_input.
Ask(r) ==
    /\ At(r, "asking")
    /\ IF req[r].asks # NoQuestion
       THEN Go(r, "loading") /\ UNCHANGED <<log, nextId, crossed>>
       ELSE /\ req' = [req EXCEPT ![r].pc = "loading", ![r].asks = nextId]
            /\ nextId' = nextId + 1
            /\ IF req[r].temporary THEN UNCHANGED <<log, crossed>>
               ELSE Wrote(r, Append(log, Entry("user", nextId, r, {})))

\* prepare_context; the question of a temporary turn is added to what was loaded, and
\* _maybe_auto_compress is given what was loaded.  It compresses if it is enabled and the
\* tokens of all the messages, also those before the boundary, are over the threshold.
Load(r, over) ==
    LET question == Entry("user", req[r].asks, r, {})
        compresses == over /\ MayCompress(r)
    IN  /\ At(r, "loading")
        /\ req' = [req EXCEPT
              ![r].pc = IF compresses THEN "compressing" ELSE "streaming",
              ![r].prompt = Reaches(IF req[r].temporary /\ ~compresses
                                    THEN Append(log, question) ELSE log)]
        /\ UNCHANGED <<log, nextId, crossed>>

-----------------------------------------------------------------------------
(* CompressionService *)

\* POST /chat/compress.
BeginCompress(r) ==
    /\ Arrives(r, [Unused EXCEPT !.pc = "compressing"])
    /\ UNCHANGED <<log, nextId, crossed>>

\* Where a request goes on after compressing: there is nothing more to the endpoint's.
Proceed(r) == IF req[r].asks = NoQuestion THEN "done" ELSE "streaming"

\* The messages to be summed up; the summary they may follow is not among them.
Compressible(msgs) == AfterBoundary(msgs)

\* compress_context and compress_context_stream load the log again.
ReadForSummary(r) ==
    /\ At(r, "compressing")
    /\ IF Len(Compressible(log)) < MinMessages
       THEN Go(r, Proceed(r))
       ELSE req' = [req EXCEPT ![r].pc = "summarising", ![r].sums = IdsOf(Compressible(log))]
    /\ UNCHANGED <<log, nextId, crossed>>

SummaryFails(r) ==
    /\ At(r, "summarising")
    /\ Go(r, Proceed(r))
    /\ UNCHANGED <<log, nextId, crossed>>

\* append_summary, at the end of the log as it is by now.
AppendSummary(r) ==
    /\ At(r, "summarising")
    /\ Wrote(r, Append(log, Entry("summary", nextId, r, req[r].sums)))
    /\ nextId' = nextId + 1
    /\ Go(r, IF req[r].asks = NoQuestion THEN "done" ELSE "reloading")

Reload(r) ==
    /\ At(r, "reloading")
    /\ req' = [req EXCEPT ![r].pc = "streaming", ![r].prompt = Reaches(log)]
    /\ UNCHANGED <<log, nextId, crossed>>

\* POST /chat/separator.
Separate(r) ==
    /\ Wrote(r, Append(log, Entry("separator", nextId, r, {})))
    /\ nextId' = nextId + 1
    /\ Arrives(r, [Unused EXCEPT !.pc = "done"])

-----------------------------------------------------------------------------
(* The answer *)

StreamEnds(r) ==
    /\ At(r, "streaming")
    /\ Go(r, IF req[r].temporary THEN "done" ELSE "saving")
    /\ UNCHANGED <<log, nextId, crossed>>

\* finalize_single_turn, the end of a turn, and save_partial_assistant_message.  The
\* title, the memory and the follow-up questions that come after leave the log alone.
Save(r) ==
    /\ req[r].pc \in {"saving", "partial"}
    /\ Wrote(r, Append(log, Entry("assistant", nextId, r, {})))
    /\ nextId' = nextId + 1
    /\ Go(r, IF At(r, "saving") THEN "closing" ELSE "done")

\* Whether the text there is by now is saved; first a faulty condition that covers the
\* whole turn.
SavesPartOfAny(r, text) == text /\ ~req[r].temporary
SavesPart(r, text) == At(r, "streaming") /\ text /\ ~req[r].temporary

\* CancelledError, wherever the request waits.  An error of the model or in preparing the
\* turn ends it the same way, and saves nothing.
Stop(r, text) ==
    /\ req[r].pc \notin {"idle", "done", "partial"}
    /\ Go(r, IF SavesPart(r, text) THEN "partial" ELSE "done")
    /\ UNCHANGED <<log, nextId, crossed>>

EndTurn(r) == At(r, "closing") /\ Go(r, "done") /\ UNCHANGED <<log, nextId, crossed>>

-----------------------------------------------------------------------------
TurnNext == \E r \in Requests :
    \/ \E temporary, skip \in BOOLEAN, keep \in 0..Len(log) : BeginTurn(r, temporary, skip, keep)
    \/ Ask(r)
    \/ \E over \in BOOLEAN : Load(r, over)
    \/ BeginCompress(r) \/ ReadForSummary(r) \/ SummaryFails(r) \/ AppendSummary(r) \/ Reload(r)
    \/ Separate(r)
    \/ StreamEnds(r) \/ Save(r) \/ EndTurn(r)
    \/ \E text \in BOOLEAN : Stop(r, text)

TurnSpec == TurnInit /\ [][TurnNext]_turnVars

-----------------------------------------------------------------------------
(* Properties *)

\* However a turn ends, there is at most one answer of it in the log, and a temporary turn
\* leaves nothing there: no question, no answer, no summary.
OneAnswer ==
    \A r \in Requests :
        LET left == {i \in DOMAIN log : log[i].by = r}
        IN  /\ Cardinality({i \in left : log[i].kind = "assistant"}) <= 1
            /\ req[r].temporary => left = {}

\* The model gets to see the question of the turn, as it is or summed up, if no other
\* request was at work at the time, whatever earlier turns left in the log.
QuestionReachesModel ==
    \A r \in Requests :
        At(r, "streaming") /\ req[r].alone => req[r].asks \in req[r].prompt

\* insert_separator: "when LLM is called, only messages after the last separator will be
\* included in the conversation history", in a summary neither.
Inside(i, j) ==
    log[i].kind = "separator" /\ log[j].kind = "summary"
        => log[j].covers \cap IdsOf(SubSeq(log, 1, i)) = {}
SeparatorHides == \A j \in DOMAIN log : \A i \in 1..j : Inside(i, j)

\* The same of every summary that was not in the making when another request changed the
\* log.
SummariesStayInside ==
    \A j \in DOMAIN log : log[j].by \notin crossed => \A i \in 1..j : Inside(i, j)

\* The log is in order: the model a turn asks sees the question, the question gets one answer,
\* and summaries stay in their section.
LogInOrder == QuestionReachesModel /\ OneAnswer /\ SummariesStayInside
=============================================================================
