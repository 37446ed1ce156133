----------------------------- MODULE ChatClient -----------------------------
(***************************************************************************)
(* The chat page: useChat of frontend/src/shared/chat/hooks/useChat.ts,    *)
(* the messages it shows, and the sessions on the server it shows them of. *)
(*                                                                         *)
(* The page changes what it shows first and tells the server then; it      *)
(* names messages to the server by their place in what it shows, and ids   *)
(* come back as events.  A request is made for the session that was open   *)
(* when it was made and changes whatever is shown when it returns.  The    *)
(* turn behind a stream is the server's (ChatTurn): it truncates, appends  *)
(* the question, appends the answer, and goes on when nobody reads the     *)
(* stream.  A message is its id, its role and how the page came by it;     *)
(* what it says is left out, and so are groups of assistants.              *)
(***************************************************************************)
EXTENDS Naturals, Sequences, SequencesExt

CONSTANTS None,
          Sessions,
          MaxMessages,  \* bound: ids
          MaxActs       \* bound: what the user does

VARIABLES files,     \* per session: its messages on the server
          nextId,
          acts,
          turns,     \* per turn the server was asked for: None or its state
          open,      \* sessionId
          view,      \* messages
          busy, loading, streaming, \* isProcessingRef, loading, isStreaming or isComparing
          loads,     \* getSession calls of loadSession, in order
          stream,    \* the stream being read (abortControllerRef), or None
          inbox,     \* its events on the way
          call,      \* another request under way, or None
          astray     \* history: see Agree

vars == <<files, nextId, acts, turns, open, view, busy, loading, streaming, loads, stream,
          inbox, call, astray>>

Message(id, role) == [id |-> id, role |-> role, as |-> "stored"]
Shown(role, as) == [id |-> None, role |-> role, as |-> as]

\* A session with two turns is open, the others are empty.
Init ==
    /\ open = (CHOOSE s \in Sessions : TRUE)
    /\ view = [i \in 1..4 |-> Message(i, IF i % 2 = 1 THEN "user" ELSE "assistant")]
    /\ files = [s \in Sessions |-> IF s = open THEN view ELSE <<>>]
    /\ nextId = 5 /\ acts = 0 /\ turns = [t \in 1..MaxActs |-> None]
    /\ busy = FALSE /\ loading = FALSE /\ streaming = FALSE /\ astray = FALSE
    /\ loads = <<>> /\ stream = None /\ inbox = <<>> /\ call = None

serverVars == <<files, nextId, turns>>
Without(seq, n) == SubSeq(seq, 1, IF Len(seq) < n THEN 0 ELSE Len(seq) - n)
LastWhere(v, Test(_)) == SelectLastInSeq(v, Test)
WithId(v, i, id) == IF i \in DOMAIN v THEN [v EXCEPT ![i].id = id] ELSE v

Acts == acts < MaxActs /\ acts' = acts + 1

\* Whether anything of session s is under way on the server.
Working(s) == \E t \in DOMAIN turns : turns[t] # None /\ turns[t].session = s

\* A request is made: what is being loaded may miss its effect.
Overtaken == [k \in DOMAIN loads |-> [loads[k] EXCEPT !.clean = FALSE]]

-----------------------------------------------------------------------------
(* Turns: sendMessage, sendCompareMessage, editMessage and regenerateMessage *)

\* truncate_after_index, counted from 1: what the server is to keep; first a faulty one that
\* keeps the message being edited.
KeepWithEdited(kind, i) == IF kind \in {"send", "compare"} THEN None ELSE i
Keep(kind, i) ==
    CASE kind \in {"send", "compare"} -> None
      [] kind = "edit" -> i - 1
      [] view[i].role = "assistant" -> i - 1
      [] OTHER -> i

\* What is shown as soon as the turn is asked for.
Expected(kind, i, temporary) ==
    LET as == IF temporary THEN "temporary" ELSE "stored"
        before == CASE kind = "regenerate" -> SubSeq(view, 1, Keep(kind, i))
                    [] kind = "edit" -> SubSeq(view, 1, i)
                    [] OTHER -> Append(view, Shown("user", as))
    IN  Append(before, Shown("assistant", as))

Ask(kind, i, temporary) ==
    \E t \in {k \in DOMAIN turns : turns[k] = None} :
        /\ \A k \in 1..(t - 1) : turns[k] # None
        /\ ~busy /\ ~streaming /\ Acts
        /\ view' = Expected(kind, i, temporary)
        /\ busy' = TRUE /\ loading' = TRUE /\ streaming' = TRUE
        /\ stream' = [turn |-> t, kind |-> kind, temporary |-> temporary, original |-> view]
        /\ inbox' = <<>>
        /\ turns' = [turns EXCEPT ![t] =
              [session |-> open, keep |-> Keep(kind, i), skip |-> kind = "regenerate",
               temporary |-> temporary, pc |-> "asked"]]
        /\ loads' = Overtaken
        /\ astray' = (astray \/ temporary)
        /\ UNCHANGED <<files, nextId, open, call>>

Send(temporary) == ~loading /\ Ask("send", 0, temporary)
Compare == ~loading /\ Ask("compare", 0, FALSE)
Edit(i) == view[i].role = "user" /\ view[i].id # None /\ Ask("edit", i, FALSE)
Regenerate(i) ==
    /\ view[i].id # None /\ view[i].role \in {"user", "assistant"}
    /\ view[i].role = "assistant" => i > 1 /\ view[i - 1].role = "user"
    /\ Ask("regenerate", i, FALSE)

\* The server's side of a turn; its events reach the page if that still reads the stream.
Ended == [session |-> None]
Step(t, pc) == turns' = [turns EXCEPT ![t] = IF pc = "ended" THEN Ended ELSE [@ EXCEPT !.pc = pc]]
Tell(t, events) ==
    inbox' = IF stream # None /\ stream.turn = t THEN inbox \o events ELSE inbox
Stores(s, kept, roles) ==
    /\ nextId + Len(roles) <= MaxMessages + 1
    /\ files' = [files EXCEPT ![s] =
                   kept \o [k \in DOMAIN roles |-> Message(nextId + k - 1, roles[k])]]
    /\ nextId' = nextId + Len(roles)

TurnBegins(t) ==
    LET turn == turns[t]
        file == files[turn.session]
        kept == IF turn.keep = None THEN file
                ELSE SubSeq(file, 1, IF turn.keep < Len(file) THEN turn.keep ELSE Len(file))
    IN  /\ Stores(turn.session, kept, IF turn.skip \/ turn.temporary THEN <<>> ELSE <<"user">>)
        /\ Tell(t, IF turn.skip THEN <<>> ELSE <<[kind |-> "user", id |-> nextId]>>)
        /\ Step(t, "answers")

\* The automatic compression ends in an event the stream reports as an error.
TurnCompresses(t) ==
    /\ ~turns[t].temporary
    /\ Stores(turns[t].session, files[turns[t].session], <<"summary">>)
    /\ Tell(t, <<[kind |-> "error", id |-> None]>>) /\ Step(t, "compressed")

TurnEnds(t) ==
    LET roles == IF turns[t].temporary THEN <<>> ELSE <<"assistant">>
    IN  /\ Stores(turns[t].session, files[turns[t].session], roles)
        /\ Tell(t, <<[kind |-> "assistant", id |-> nextId], [kind |-> "done", id |-> None]>>)
        /\ Step(t, "ended")

\* A model that fails may have said something that is kept.
TurnFails(t) ==
    /\ Tell(t, <<[kind |-> "error", id |-> None]>>) /\ Step(t, "ended")
    /\ \/ ~turns[t].temporary /\ Stores(turns[t].session, files[turns[t].session], <<"assistant">>)
       \/ UNCHANGED <<files, nextId>>

\* The request is refused and nothing happens.
TurnRefused(t) ==
    /\ Tell(t, <<[kind |-> "refused", id |-> None]>>) /\ Step(t, "ended")
    /\ UNCHANGED <<files, nextId>>

ServerTurn(t) ==
    /\ turns[t] \notin {None, Ended}
    /\ \/ turns[t].pc = "asked" /\ (TurnBegins(t) \/ TurnRefused(t))
       \/ turns[t].pc = "answers" /\ TurnCompresses(t)
       \/ turns[t].pc # "asked" /\ (TurnEnds(t) \/ TurnFails(t))
    /\ UNCHANGED <<acts, open, view, busy, loading, streaming, loads, stream, call, astray>>

-----------------------------------------------------------------------------
(* The events of the stream at the page *)

IsUser(m) == m.role = "user"
IsAnswer(m) == m.role = "assistant"
Unnamed(m) == m.role = "user" /\ m.id = None

\* onUserMessageId and onAssistantMessageId.
UserNamed(id) ==
    LET unnamed == LastWhere(view, Unnamed)
    IN  CASE stream.temporary \/ stream.kind = "regenerate" -> view
          [] stream.kind = "send" ->
                WithId(view, IF unnamed # 0 THEN unnamed ELSE LastWhere(view, IsUser), id)
          [] OTHER -> IF Len(view) >= 2 THEN WithId(view, Len(view) - 1, id) ELSE view
AnswerNamed(id) ==
    CASE stream.temporary -> view
      [] stream.kind \in {"send", "regenerate"} -> WithId(view, LastWhere(view, IsAnswer), id)
      [] OTHER -> WithId(view, Len(view), id)

\* onError and catch; first a faulty one that leaves the question.
RevertedAnswer == Without(view, 1)
Reverted == IF stream.kind \in {"send", "compare"} THEN Without(view, 2) ELSE stream.original

Over ==
    /\ stream' = None /\ inbox' = <<>>
    /\ busy' = FALSE /\ loading' = FALSE /\ streaming' = FALSE

Receive ==
    /\ stream # None /\ inbox # <<>>
    /\ LET event == Head(inbox)
       IN  CASE event.kind \in {"user", "assistant"} ->
                  /\ view' = IF event.kind = "user" THEN UserNamed(event.id) ELSE AnswerNamed(event.id)
                  /\ inbox' = Tail(inbox)
                  /\ UNCHANGED <<stream, busy, loading, streaming, astray>>
             [] event.kind = "done" -> Over /\ UNCHANGED <<view, astray>>
             [] OTHER ->
                  /\ Over /\ view' = Reverted
                  /\ astray' = (astray \/ event.kind = "error")
    /\ UNCHANGED <<serverVars, acts, open, loads, call>>

\* The connection is lost and cannot be resumed.
LoseConnection ==
    /\ stream # None /\ Over /\ view' = Reverted /\ astray' = TRUE
    /\ UNCHANGED <<serverVars, acts, open, loads, call>>

\* stopGeneration: the stream ends like one that is done.
Stop ==
    /\ stream # None /\ Over /\ astray' = TRUE
    /\ UNCHANGED <<serverVars, acts, open, view, loads, call>>

-----------------------------------------------------------------------------
(* Other requests *)

\* The page shows a deletion and the place of a summary at once.
Request(kind, id, shown) ==
    /\ ~busy /\ ~streaming /\ call = None /\ Acts
    /\ call' = [kind |-> kind, session |-> open, id |-> id, original |-> view, served |-> FALSE,
                touched |-> FALSE]
    /\ view' = shown /\ busy' = TRUE /\ loads' = Overtaken
    /\ UNCHANGED <<serverVars, open, loading, streaming, stream, inbox, astray>>

Requests ==
    \/ \E i \in DOMAIN view : LET Other(m) == m.id # view[i].id
                              IN  /\ view[i].id # None
                                  /\ Request("delete", view[i].id, SelectSeq(view, Other))
    \/ \E kind \in {"save", "separator", "clear"} : Request(kind, None, view)
    \/ Request("compress", None, Append(view, Shown("summary", "placeholder")))

Serve ==
    LET s == call.session
        Other(m) == m.id # call.id
    IN  /\ call # None /\ ~call.served
        /\ CASE call.kind = "delete" ->
                  files' = [files EXCEPT ![s] = SelectSeq(@, Other)] /\ UNCHANGED nextId
             [] call.kind = "clear" -> files' = [files EXCEPT ![s] = <<>>] /\ UNCHANGED nextId
             [] call.kind = "save" -> UNCHANGED <<files, nextId>>
             [] OTHER -> Stores(s, files[s], <<IF call.kind = "compress" THEN "summary" ELSE "separator">>)
        /\ call' = [call EXCEPT !.served = TRUE,
                                !.id = IF call.kind \in {"separator", "compress"} THEN nextId ELSE @]
        /\ UNCHANGED <<turns, acts, open, view, busy, loading, streaming, loads, stream, inbox,
                       astray>>

\* A chunk of the summary replaces the placeholder by a message of its own.
SummaryChunk ==
    /\ call # None /\ call.kind = "compress" /\ ~call.served /\ ~call.touched
    /\ call' = [call EXCEPT !.touched = TRUE]
    /\ view' = [i \in DOMAIN view |->
                  IF i = Len(view) /\ view[i].role = "summary" THEN [view[i] EXCEPT !.as = "stored"]
                  ELSE view[i]]
    /\ UNCHANGED <<serverVars, acts, open, busy, loading, streaming, loads, stream, inbox, astray>>

Return ==
    /\ call # None /\ call.served
    /\ view' = CASE call.kind = "separator" -> Append(view, Message(call.id, "separator"))
                 [] call.kind = "clear" -> <<>>
                 [] call.kind = "compress" /\ view # <<>> /\ Last(view).role = "summary" ->
                        Append(Front(view), Message(call.id, "summary"))
                 [] OTHER -> view
    /\ call' = None /\ busy' = FALSE
    /\ UNCHANGED <<serverVars, acts, open, loading, streaming, loads, stream, inbox, astray>>

\* The request fails, before or after the server did what it asks for.
Refused ==
    LET Mine(m) == m.as # "placeholder"
    IN  /\ call # None
        /\ view' = CASE call.kind \in {"delete", "save"} -> call.original
                     [] call.kind = "compress" -> SelectSeq(view, Mine)
                     [] OTHER -> view
        /\ astray' = (astray \/ call.served \/ call.touched)
        /\ call' = None /\ busy' = FALSE
        /\ UNCHANGED <<serverVars, acts, open, loading, streaming, loads, stream, inbox>>

\* addTemporaryAssistantMessage.
Note ==
    /\ ~loading /\ ~streaming /\ Acts /\ astray' = TRUE
    /\ view' = Append(view, Shown("assistant", "temporary"))
    /\ UNCHANGED <<serverVars, open, busy, loading, streaming, loads, stream, inbox, call>>

-----------------------------------------------------------------------------
(* Another session is opened: loadSession *)

\* What was shown stays until the session is there; the stream that is aborted resets
\* `loading' after loadSession has set it.
Switch(s) ==
    /\ s # open /\ Acts /\ open' = s
    /\ loads' = Append(Overtaken, [session |-> s, got |-> None, clean |-> FALSE])
    /\ busy' = FALSE /\ streaming' = FALSE /\ loading' = (stream = None)
    /\ stream' = None /\ inbox' = <<>> /\ astray' = TRUE
    /\ UNCHANGED <<serverVars, view, call>>

Read(k) ==
    /\ loads[k].got = None
    /\ loads' = [loads EXCEPT ![k].got = files[loads[k].session],
                              ![k].clean = /\ stream = None /\ call = None
                                            /\ ~Working(loads[k].session)]
    /\ UNCHANGED <<serverVars, acts, open, view, busy, loading, streaming, stream, inbox,
                   call, astray>>

\* Nothing tells a late answer from the one for the session that is open; first a faulty
\* page that adds to what it shows.
Added(got) == view \o got
Replaced(got) == got

Arrive(k) ==
    /\ loads[k].got # None
    /\ view' = Replaced(loads[k].got)
    /\ loading' = FALSE
    /\ loads' = RemoveAt(loads, k)
    /\ astray' = ~(loads[k].clean /\ loads[k].session = open /\ Len(loads) = 1)
    /\ UNCHANGED <<serverVars, acts, open, busy, streaming, stream, inbox, call>>

LoadFails(k) ==
    /\ view' = <<>> /\ loading' = FALSE /\ loads' = RemoveAt(loads, k) /\ astray' = TRUE
    /\ UNCHANGED <<serverVars, acts, open, busy, streaming, stream, inbox, call>>

-----------------------------------------------------------------------------
Next ==
    \/ \E temporary \in BOOLEAN : Send(temporary)
    \/ Compare
    \/ \E i \in DOMAIN view : Edit(i) \/ Regenerate(i)
    \/ \E t \in DOMAIN turns : ServerTurn(t)
    \/ Receive \/ LoseConnection \/ Stop
    \/ Requests \/ Serve \/ SummaryChunk \/ Return \/ Refused \/ Note
    \/ \E s \in Sessions : Switch(s)
    \/ \E k \in DOMAIN loads : Read(k) \/ Arrive(k) \/ LoadFails(k)

Spec == Init /\ [][Next]_vars

-----------------------------------------------------------------------------
(* Property *)

\* With nothing under way, the page shows the messages the session has, in their places, by
\* which the next edit or regeneration names them (useChat); after a failed, stopped or
\* temporary turn, a note of the page, a request that failed half-way, or a session that was
\* opened while something was under way, only once the session has been loaded again.
AtRest == stream = None /\ call = None /\ loads = <<>> /\ ~Working(open)
Names(messages) == [i \in DOMAIN messages |-> <<messages[i].id, messages[i].role>>]
Agree == (AtRest /\ ~astray) => Names(view) = Names(files[open])
=============================================================================
