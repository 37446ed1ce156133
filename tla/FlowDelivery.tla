---------------------------- MODULE FlowDelivery ----------------------------
(***************************************************************************)
(* Delivery of flow events to clients: the SSE endpoints of                *)
(* src/api/routers/chat.py and src/api/routers/runs.py over the stream     *)
(* runtime, the tasks that feed the streams, and the reconnecting client   *)
(* of frontend/src/services/api.ts.                                        *)
(*                                                                         *)
(* A generator body runs without interruption from one yield (or           *)
(* queue.get) to the next; each such stretch is one action.                *)
(***************************************************************************)
EXTENDS FlowStreamRuntime

CONSTANTS ChatStreams,   \* ids drawn by POST /chat/stream
          RunStreams,    \* ids of background runs
          MaxRetries,    \* resumeDelaysMs.length: reconnects a client tries
          MaxProduced,   \* bound: events produced under one stream id
          MaxSessions    \* bound: openings of a run stream id

ASSUME DeliveryAssumption ==
    /\ StreamIds = ChatStreams \cup RunStreams
    /\ ChatStreams \cap RunStreams = {}
    /\ MaxRetries \in Nat
    /\ MaxProduced \in Nat
    /\ MaxSessions \in Nat

VARIABLES producer,      \* the task feeding a stream
          sessions,      \* how often a run stream id was opened
          pc,            \* where a reader's generator stands
          source,        \* the stream a reader follows
          backlog,       \* replay_payloads still to be yielded
          got,           \* every event the reader's client has received
          since,         \* length of got when the current response began
          retries,       \* reconnects used (resumeAttempts)
          outcome        \* how the reader's last response ended

producerVars == <<producer, sessions>>
readerVars == <<pc, source, backlog, got, since, retries, outcome>>
vars == <<runtimeVars, producerVars, readerVars>>

None == "none"

ProducerStates == {"none", "ready", "running", "closing", "finished"}

(***************************************************************************)
(* "resume": a resume endpoint before its first yield; "replay": yielding  *)
(* the backlog; "replayed": replay_finished was yielded; "live": waiting   *)
(* on the queue; "closing": a terminal event was yielded; "off": none.     *)
(***************************************************************************)
ReaderStates ==
    {"off", "resume", "replay", "replayed", "live", "closing"}

(***************************************************************************)
(* "returned": the generator ended by itself; "dropped": the connection    *)
(* was lost; "refused": an HTTP error that makes the client give up.       *)
(***************************************************************************)
Outcomes == {"fresh", "streaming", "returned", "dropped", "refused"}

TransportKinds == {"resume_started", "replay_finished"}
Received == [n : Nat, seq : Nat, kind : Kinds \cup TransportKinds]

TypeOK ==
    /\ RuntimeTypeOK
    /\ producer \in [StreamIds -> ProducerStates]
    /\ sessions \in [StreamIds -> Nat]
    /\ pc \in [Readers -> ReaderStates]
    /\ source \in [Readers -> StreamIds \cup {None}]
    /\ backlog \in [Readers -> Seq(Payload)]
    /\ got \in [Readers -> Seq(Received)]
    /\ since \in [Readers -> Nat]
    /\ retries \in [Readers -> Nat]
    /\ outcome \in [Readers -> Outcomes]

Init ==
    /\ RuntimeInit
    /\ producer = [s \in StreamIds |-> "none"]
    /\ sessions = [s \in StreamIds |-> 0]
    /\ pc = [r \in Readers |-> "off"]
    /\ source = [r \in Readers |-> None]
    /\ backlog = [r \in Readers |-> <<>>]
    /\ got = [r \in Readers |-> <<>>]
    /\ since = [r \in Readers |-> 0]
    /\ retries = [r \in Readers |-> 0]
    /\ outcome = [r \in Readers |-> "fresh"]

-----------------------------------------------------------------------------
(* Producers *)

\* Room for one more event besides the one that ends the stream.
RoomToProduce(s) == produced[s] + 2 <= MaxProduced

\* create_workflow_run and resume_workflow_run open the stream of a run; the
\* task starts later.
OpenRunStream(s) ==
    /\ s \in RunStreams
    /\ producer[s] \in {"none", "finished"}
    /\ sessions[s] < MaxSessions
    /\ RoomToProduce(s)
    /\ CreateStream(s)
    /\ producer' = [producer EXCEPT ![s] = "ready"]
    /\ sessions' = [sessions EXCEPT ![s] = @ + 1]
    /\ UNCHANGED readerVars

\* A producer in state from appends one event and goes to state to.
Produce(s, from, kind, to) ==
    /\ producer[s] = from
    /\ AppendEvent(s, kind)
    /\ producer' = [producer EXCEPT ![s] = to]
    /\ UNCHANGED <<sessions, readerVars>>

EmitStarted(s) == Produce(s, "ready", "started", "running")

EmitData(s) == RoomToProduce(s) /\ Produce(s, "running", "data", "running")

\* A faulty EmitUnmapped: the mapper passes the unknown type through.
EmitUnknownKind(s) ==
    /\ s \in ChatStreams
    /\ ~done[s]
    /\ RoomToProduce(s)
    /\ Produce(s, "running", "auto_compressed", "running")

(***************************************************************************)
(* The chat flow yields "auto_compressed" at most once a turn; the mapper  *)
(* knows no such type and builds a stream_error, after which the producer  *)
(* loop goes on.                                                           *)
(***************************************************************************)
EmitUnmapped(s) ==
    /\ s \in ChatStreams
    /\ ~done[s]
    /\ RoomToProduce(s)
    /\ Produce(s, "running", "error", "running")

\* An exception or an error event: the last event of a chat producer, while
\* the task of a run still appends stream_ended.
EmitFailure(s) ==
    \/ s \in ChatStreams /\ Produce(s, "running", "error", "finished")
    \/ /\ s \in RunStreams
       /\ RoomToProduce(s)
       /\ Produce(s, "running", "error", "closing")

EmitEnded(s) == \E from \in {"running", "closing"} : Produce(s, from, "ended", "finished")

\* append_payload raises FlowStreamNotFoundError, and so does the append of
\* the except branch: the task dies.
LoseStream(s) ==
    /\ producer[s] \in {"ready", "running", "closing"}
    /\ s \notin Surviving
    /\ Lookup
    /\ producer' = [producer EXCEPT ![s] = "finished"]
    /\ UNCHANGED <<sessions, readerVars>>

-----------------------------------------------------------------------------
(* Requests *)

Refuse(r) ==
    /\ outcome' = [outcome EXCEPT ![r] = "refused"]
    /\ Lookup
    /\ UNCHANGED <<producerVars, pc, source, backlog, got, since>>

\* POST /chat/stream: 503 when overloaded, else create, subscribe, start.
OpenChat(r, s) ==
    /\ s \in ChatStreams
    /\ outcome[r] = "fresh"
    /\ sessions[s] = 0
    /\ \/ /\ AddStream(s, {r})
          /\ producer' = [producer EXCEPT ![s] = "ready"]
          /\ sessions' = [sessions EXCEPT ![s] = 1]
          /\ pc' = [pc EXCEPT ![r] = "live"]
          /\ source' = [source EXCEPT ![r] = s]
          /\ outcome' = [outcome EXCEPT ![r] = "streaming"]
          /\ UNCHANGED <<queue, produced, backlog, got, since, retries>>
       \/ /\ Overloaded(s)
          /\ Refuse(r)
          /\ UNCHANGED retries

\* The answer for a terminal run whose stream is gone: started, then ended.
Synthetic == << [n |-> 0, seq |-> 1, kind |-> "started"],
                [n |-> 0, seq |-> 2, kind |-> "ended"] >>

\* GET /runs/{id}/stream: the whole window, then the queue.
OpenRun(r, s) ==
    /\ s \in RunStreams
    /\ outcome[r] = "fresh"
    /\ sessions[s] > 0
    /\ \/ /\ Subscribe(s, r)
          /\ backlog' = [backlog EXCEPT ![r] = events[s]]
          /\ pc' = [pc EXCEPT ![r] = "replay"]
          /\ source' = [source EXCEPT ![r] = s]
          /\ outcome' = [outcome EXCEPT ![r] = "streaming"]
          /\ UNCHANGED <<producerVars, got, since, retries>>
       \/ /\ s \notin Surviving
          /\ producer[s] = "finished"
          /\ Lookup
          /\ got' = [got EXCEPT ![r] = Synthetic]
          /\ outcome' = [outcome EXCEPT ![r] = "returned"]
          /\ UNCHANGED <<producerVars, pc, source, backlog, since, retries>>
       \/ /\ s \notin Surviving
          /\ producer[s] # "finished"
          /\ Refuse(r)
          /\ UNCHANGED retries

\* The client saw a terminal event and stops reading.
Satisfied(r) == got[r] # <<>> /\ IsTerminal(got[r][Len(got[r])])

(***************************************************************************)
(* The client reconnects with the id of the last event it received, which  *)
(* may be a transport event: 404, 410, or a new response.                  *)
(***************************************************************************)
Resume(r) ==
    LET s == source[r]
        cursor == got[r][Len(got[r])].n
    IN  /\ outcome[r] \in {"returned", "dropped"}
        /\ got[r] # <<>> /\ ~Satisfied(r)
        /\ retries[r] < MaxRetries
        /\ retries' = [retries EXCEPT ![r] = @ + 1]
        /\ IF s \in Surviving /\ CursorIndex(s, cursor) # {}
           THEN /\ Subscribe(s, r)
                /\ backlog' = [backlog EXCEPT ![r] = Replay(s, cursor)]
                /\ pc' = [pc EXCEPT ![r] = "resume"]
                /\ since' = [since EXCEPT ![r] = Len(got[r])]
                /\ outcome' = [outcome EXCEPT ![r] = "streaming"]
                /\ UNCHANGED <<producerVars, source, got>>
           ELSE Refuse(r)

-----------------------------------------------------------------------------
(* The generators *)

Deliver(r, p) == got' = [got EXCEPT ![r] = Append(@, p)]

\* The generator ends: its finally clause unsubscribes.
Leave(r, why) ==
    /\ pc' = [pc EXCEPT ![r] = "off"]
    /\ backlog' = [backlog EXCEPT ![r] = <<>>]
    /\ outcome' = [outcome EXCEPT ![r] = why]
    /\ Unsubscribe(source[r], r)
    /\ UNCHANGED <<producerVars, source, since, retries>>

\* get_stream raised FlowStreamNotFoundError in the middle of a response.
StreamVanished(r) ==
    /\ source[r] \notin Surviving
    /\ pc' = [pc EXCEPT ![r] = "off"]
    /\ backlog' = [backlog EXCEPT ![r] = <<>>]
    /\ outcome' = [outcome EXCEPT ![r] = "dropped"]
    /\ open' = Surviving
    /\ queue' = [queue EXCEPT ![r] = <<>>]
    /\ UNCHANGED <<done, seq, events, subscribers, idle, produced>>
    /\ UNCHANGED <<producerVars, source, got, since, retries>>

\* A resume endpoint yields a transport event with the next sequence number.
Announce(r, kind, next) ==
    LET s == source[r]
    IN  \/ /\ TakeSeq(s)
           /\ Deliver(r, [n |-> 0, seq |-> seq[s] + 1, kind |-> kind])
           /\ pc' = [pc EXCEPT ![r] = next]
           /\ UNCHANGED <<producerVars, source, backlog, since, retries, outcome>>
        \/ StreamVanished(r)

BeginResume(r) == pc[r] = "resume" /\ Announce(r, "resume_started", "replay")

\* Faulty versions of After: one of the terminal kinds is overlooked.
AfterEndedOnly(p, next) == IF p.kind = "ended" THEN "closing" ELSE next
AfterErrorOnly(p, next) == IF p.kind = "error" THEN "closing" ELSE next

After(p, next) == IF IsTerminal(p) THEN "closing" ELSE next

YieldReplay(r) ==
    /\ pc[r] = "replay"
    /\ backlog[r] # <<>>
    /\ Deliver(r, Head(backlog[r]))
    /\ backlog' = [backlog EXCEPT ![r] = Tail(@)]
    /\ pc' = [pc EXCEPT ![r] = After(Head(backlog[r]), "replay")]
    /\ UNCHANGED <<runtimeVars, producerVars, source, since, retries, outcome>>

\* The backlog is out.  A first response to a run looks at done and returns
\* or goes live; a resume endpoint yields replay_finished.  (The code looks at
\* the state object it found before replaying: should the stream have been
\* collected and reopened in between, that object's done, TRUE, stands.)
FinishReplay(r) ==
    /\ pc[r] = "replay"
    /\ backlog[r] = <<>>
    /\ IF retries[r] > 0
       THEN Announce(r, "replay_finished", "replayed")
       ELSE \/ /\ done[source[r]]
               /\ Leave(r, "returned")
               /\ UNCHANGED got
            \/ /\ ~done[source[r]]
               /\ pc' = [pc EXCEPT ![r] = "live"]
               /\ UNCHANGED <<runtimeVars, producerVars, source, backlog,
                              got, since, retries, outcome>>

\* After replay_finished: only the chat endpoint looks at done.
AfterReplay(r) ==
    LET s == source[r]
    IN  /\ pc[r] = "replayed"
        /\ \/ /\ s \in ChatStreams
              /\ StreamVanished(r)
           \/ /\ s \in ChatStreams /\ s \in Surviving /\ done[s]
              /\ Leave(r, "returned")
              /\ UNCHANGED got
           \/ /\ s \in ChatStreams => s \in Surviving /\ ~done[s]
              /\ IF s \in ChatStreams THEN Lookup ELSE UNCHANGED runtimeVars
              /\ pc' = [pc EXCEPT ![r] = "live"]
              /\ UNCHANGED <<producerVars, source, backlog, got, since,
                             retries, outcome>>

YieldLive(r) ==
    /\ pc[r] = "live"
    /\ queue[r] # <<>>
    /\ Deliver(r, Head(queue[r]))
    /\ queue' = [queue EXCEPT ![r] = Tail(@)]
    /\ pc' = [pc EXCEPT ![r] = After(Head(queue[r]), "live")]
    /\ UNCHANGED <<open, done, seq, events, subscribers, idle, produced>>
    /\ UNCHANGED <<producerVars, source, backlog, since, retries, outcome>>

Close(r) ==
    /\ pc[r] = "closing"
    /\ Leave(r, "returned")
    /\ UNCHANGED got

(***************************************************************************)
(* The connection breaks and the server notices; what was yielded last may *)
(* never have reached the client.                                          *)
(***************************************************************************)
Disconnect(r) ==
    /\ pc[r] # "off"
    /\ \E k \in since[r]..Len(got[r]) : got' = [got EXCEPT ![r] = SubSeq(@, 1, k)]
    /\ Leave(r, "dropped")

-----------------------------------------------------------------------------
ProducerStep(s) ==
    \/ EmitStarted(s)
    \/ EmitData(s)
    \/ EmitUnmapped(s)
    \/ EmitFailure(s)
    \/ EmitEnded(s)
    \/ LoseStream(s)

GeneratorStep(r) ==
    \/ BeginResume(r)
    \/ YieldReplay(r)
    \/ FinishReplay(r)
    \/ AfterReplay(r)
    \/ YieldLive(r)
    \/ Close(r)

Next ==
    \/ \E s \in StreamIds : OpenRunStream(s) \/ ProducerStep(s)
    \/ \E r \in Readers, s \in StreamIds : OpenChat(r, s) \/ OpenRun(r, s)
    \/ \E r \in Readers : Resume(r) \/ GeneratorStep(r) \/ Disconnect(r)
    \/ Tick /\ UNCHANGED <<producerVars, readerVars>>

Spec == Init /\ [][Next]_vars

\* The event loop runs every generator that can run; requests, connection
\* losses, the models behind the producers and the clock are the environment.
FairSpec == Spec /\ \A r \in Readers : WF_vars(GeneratorStep(r))

-----------------------------------------------------------------------------
(* Properties *)

(***************************************************************************)
(* What a client receives of a stream, over its first response and every   *)
(* reconnection, is a run of consecutive events: nothing is skipped,       *)
(* repeated or swapped at the seam between replay and live queue or        *)
(* between two responses (resume_subscribe, event_generator).              *)
(***************************************************************************)
ContiguousDelivery ==
    \A r \in Readers : \A i, j \in 1..Len(got[r]) :
        (/\ i < j /\ got[r][i].n > 0 /\ got[r][j].n > 0
         /\ \A k \in (i+1)..(j-1) : got[r][k].n = 0)
        => got[r][j].n = got[r][i].n + 1

(***************************************************************************)
(* The events a subscribed reader has yet to receive, backlog then queue,  *)
(* are consecutive and end with the newest event of its stream, so the     *)
(* seam between the snapshot and the subscription holds no gap             *)
(* (resume_subscribe; stream_run snapshots and subscribes without await).  *)
(***************************************************************************)
Pending(r) == backlog[r] \o queue[r]

PendingReachesHead ==
    \A r \in Readers : \A s \in open :
        (r \in subscribers[s] /\ source[r] = s) =>
            \A i \in 1..Len(Pending(r)) :
                Pending(r)[i].n = produced[s] - Len(Pending(r)) + i

\* No reader waits on the queue of a stream that completed and delivered all
\* it will ever put there: the terminal event is still on its way.
TerminalPending ==
    \A r \in Readers :
        (/\ pc[r] = "live" /\ source[r] \in open /\ done[source[r]]
         /\ r \in subscribers[source[r]] /\ ~Satisfied(r))
        => \E i \in 1..Len(queue[r]) : IsTerminal(queue[r][i])

\* Expiry and eviction only take completed streams: an active one is never
\* removed under its producer and its readers (_gc, _evict_completed_streams).
ActiveStreamsStay == [][ActiveKept]_vars

\* A reader of a completed stream is released: its generator ends
\* (queue.get always finds the terminal event, or done is seen).
ReadersReleased ==
    \A r \in Readers : \A s \in StreamIds :
        (pc[r] # "off" /\ source[r] = s /\ s \in open /\ done[s]) ~> (pc[r] = "off")

(***************************************************************************)
(* A chat response that was resumed ends by itself only after its client   *)
(* has the terminal event: "server replays events after last_event_id,     *)
(* then continues live events" (docs/flow_event_protocol_v1.md:124).       *)
(***************************************************************************)
ResumeContinuesLive ==
    \A r \in Readers :
        (outcome[r] = "returned" /\ retries[r] > 0) => Satisfied(r)

\* stream_error is the last event of its stream: "stream_error terminates
\* stream early" (docs/flow_event_protocol_v1.md:99).
ErrorTerminatesStream ==
    \A s \in open : \A i \in 1..Len(events[s]) :
        events[s][i].kind = "error" => i = Len(events[s])

-----------------------------------------------------------------------------
(* A constraint for TLC: one stream per behaviour, a chat stream or a background run, both *)
(* over the same small runtime.  It leaves out the states in which both have been opened;  *)
(* opening a stream is a choice of the clients, so no fair step is cut off.                *)
OneStream == \E s \in StreamIds : \A t \in StreamIds \ {s} : sessions[t] = 0
=============================================================================
