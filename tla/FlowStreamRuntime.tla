------------------------- MODULE FlowStreamRuntime -------------------------
(***************************************************************************)
(* The process-local cache of event streams, FlowStreamRuntime of          *)
(* src/application/flow/flow_stream_runtime.py: one replay window, one     *)
(* sequence counter and one set of subscriber queues per stream id, with   *)
(* expiry and eviction of completed streams.                               *)
(*                                                                         *)
(* The module has no Next: its operators are the methods of the class,     *)
(* written as conjuncts that FlowDelivery and AsyncRuns put in their       *)
(* actions.  Every method runs without an await, hence in one step.        *)
(***************************************************************************)
EXTENDS Naturals, Sequences, FiniteSets

CONSTANTS StreamIds,     \* stream ids the process may use
          Readers,       \* HTTP clients; one subscription each at a time
          MaxEvents,     \* max_events_per_stream: length of a replay window
          MaxActive,     \* max_active_streams: capacity of the registry
          TTL            \* ttl_seconds, in clock ticks

ASSUME RuntimeAssumption ==
    /\ IsFiniteSet(StreamIds)
    /\ MaxEvents \in Nat \ {0}
    /\ MaxActive \in Nat \ {0}
    /\ TTL \in Nat \ {0}

VARIABLES open,          \* keys of _streams
          done,          \* FlowStreamState.done, per stream
          seq,           \* FlowStreamState.seq
          events,        \* FlowStreamState.events, the replay window
          subscribers,   \* keys of FlowStreamState.subscribers
          idle,          \* now - updated_at, in ticks, capped at TTL
          queue,         \* the asyncio.Queue each reader's generator holds
          produced       \* events ever appended under a stream id: the
                         \* source of fresh event ids (the code draws uuids)

runtimeVars == <<open, done, seq, events, subscribers, idle, queue, produced>>

Kinds == {"started", "data", "ended", "error"}
TerminalKinds == {"ended", "error"}

(***************************************************************************)
(* A payload is its event id n, its sequence number and its kind.  Ids     *)
(* start at 1 and are never reused, so id 0 marks an event that no window  *)
(* ever held.                                                              *)
(***************************************************************************)
Payload == [n : Nat, seq : Nat, kind : Kinds]
IsTerminal(p) == p.kind \in TerminalKinds

RuntimeTypeOK ==
    /\ open \subseteq StreamIds
    /\ done \in [StreamIds -> BOOLEAN]
    /\ seq \in [StreamIds -> Nat]
    /\ events \in [StreamIds -> Seq(Payload)]
    /\ subscribers \in [StreamIds -> SUBSET Readers]
    /\ idle \in [StreamIds -> 0..TTL]
    /\ queue \in [Readers -> Seq(Payload)]
    /\ produced \in [StreamIds -> Nat]

RuntimeInit ==
    /\ open = {}
    /\ done = [s \in StreamIds |-> FALSE]
    /\ seq = [s \in StreamIds |-> 0]
    /\ events = [s \in StreamIds |-> <<>>]
    /\ subscribers = [s \in StreamIds |-> {}]
    /\ idle = [s \in StreamIds |-> 0]
    /\ queue = [r \in Readers |-> <<>>]
    /\ produced = [s \in StreamIds |-> 0]

-----------------------------------------------------------------------------
(* Expiry and eviction *)

\* _gc: what is left of the registry after expired completed streams go.
Surviving == {s \in open : ~(done[s] /\ idle[s] >= TTL)}

\* A faulty OldestCompleted: forgets to ask for completed streams.
OldestOfAll(live) == {s \in live : \A t \in live : idle[t] <= idle[s]}

\* The completed streams that _evict_completed_streams pops first.
OldestCompleted(live) ==
    {s \in live : done[s] /\ \A t \in live : done[t] => idle[t] <= idle[s]}

\* A faulty MakeRoom: off by one at the limit.
MakeRoomLate(live) ==
    IF Cardinality(live) <= MaxActive
    THEN {live}
    ELSE {live \ {s} : s \in OldestCompleted(live)}

(***************************************************************************)
(* The registries create_stream may continue with when it must add an      *)
(* entry; none when every stream is active.  One eviction is enough since  *)
(* the registry never holds more than MaxActive streams (RegistryBounded). *)
(***************************************************************************)
MakeRoom(live) ==
    IF Cardinality(live) < MaxActive
    THEN {live}
    ELSE {live \ {s} : s \in OldestCompleted(live)}

-----------------------------------------------------------------------------
(* The methods *)

\* A faulty ReuseStream: a reset keeps the old window.
ReuseKeepsWindow(s) ==
    /\ s \in Surviving
    /\ open' = Surviving
    /\ idle' = [idle EXCEPT ![s] = 0]
    /\ done' = [done EXCEPT ![s] = FALSE]
    /\ seq' = [seq EXCEPT ![s] = IF done[s] THEN 0 ELSE @]
    /\ subscribers' = [subscribers EXCEPT ![s] = IF done[s] THEN {} ELSE @]
    /\ UNCHANGED events

\* A faulty ReuseStream: a reset stream still counts as completed.
ReuseStaysDone(s) ==
    /\ s \in Surviving
    /\ open' = Surviving
    /\ idle' = [idle EXCEPT ![s] = 0]
    /\ seq' = [seq EXCEPT ![s] = IF done[s] THEN 0 ELSE @]
    /\ events' = [events EXCEPT ![s] = IF done[s] THEN <<>> ELSE @]
    /\ subscribers' = [subscribers EXCEPT ![s] = IF done[s] THEN {} ELSE @]
    /\ UNCHANGED done

\* create_stream for an id the registry still holds: a completed stream is
\* reset and forgets its subscribers, an active one is only touched.
ReuseStream(s) ==
    /\ s \in Surviving
    /\ open' = Surviving
    /\ idle' = [idle EXCEPT ![s] = 0]
    /\ done' = [done EXCEPT ![s] = FALSE]
    /\ seq' = [seq EXCEPT ![s] = IF done[s] THEN 0 ELSE @]
    /\ events' = [events EXCEPT ![s] = IF done[s] THEN <<>> ELSE @]
    /\ subscribers' = [subscribers EXCEPT ![s] = IF done[s] THEN {} ELSE @]

\* create_stream for an id the registry does not hold, followed in the same
\* step by the subscription of readers.
AddStream(s, readers) ==
    /\ s \notin Surviving
    /\ \E kept \in MakeRoom(Surviving) : open' = kept \cup {s}
    /\ idle' = [idle EXCEPT ![s] = 0]
    /\ done' = [done EXCEPT ![s] = FALSE]
    /\ seq' = [seq EXCEPT ![s] = 0]
    /\ events' = [events EXCEPT ![s] = <<>>]
    /\ subscribers' = [subscribers EXCEPT ![s] = readers]

CreateStream(s) ==
    /\ ReuseStream(s) \/ AddStream(s, {})
    /\ UNCHANGED <<queue, produced>>

\* create_stream raises RuntimeError: no completed stream is left to evict.
Overloaded(s) ==
    /\ s \notin Surviving
    /\ MakeRoom(Surviving) = {}

\* A faulty PushWindow: a full window refuses the new event.
PushRefused(window, p) ==
    IF Len(window) < MaxEvents THEN Append(window, p) ELSE window

\* deque(maxlen): appending to a full window drops its oldest event.
PushWindow(window, p) ==
    IF Len(window) < MaxEvents THEN Append(window, p) ELSE Append(Tail(window), p)

\* Faulty versions of Receives: the terminal event is not fanned out, or the
\* subscribers of every stream get the event.
ReceivesUnlessTerminal(r, s, p) == r \in subscribers[s] /\ ~IsTerminal(p)
ReceivesFromAny(r, s, p) == \E t \in open : r \in subscribers[t]

\* The fan-out of append_payload puts p, appended to s, in r's queue.
Receives(r, s, p) == r \in subscribers[s]

(***************************************************************************)
(* next_seq, event construction and append_payload, which every producer   *)
(* runs back to back without an await.                                     *)
(***************************************************************************)
AppendEvent(s, kind) ==
    LET p == [n |-> produced[s] + 1, seq |-> seq[s] + 1, kind |-> kind]
    IN  /\ s \in Surviving
        /\ open' = Surviving
        /\ produced' = [produced EXCEPT ![s] = p.n]
        /\ seq' = [seq EXCEPT ![s] = p.seq]
        /\ events' = [events EXCEPT ![s] = PushWindow(@, p)]
        /\ done' = [done EXCEPT ![s] = @ \/ IsTerminal(p)]
        /\ idle' = [idle EXCEPT ![s] = 0]
        /\ queue' = [r \in Readers |-> IF Receives(r, s, p)
                                       THEN Append(queue[r], p)
                                       ELSE queue[r]]
        /\ UNCHANGED subscribers

\* get_stream: a failed lookup still collects.
Lookup ==
    /\ open' = Surviving
    /\ UNCHANGED <<done, seq, events, subscribers, idle, queue, produced>>

\* next_seq on behalf of a transport event that is not stored.
TakeSeq(s) ==
    /\ s \in Surviving
    /\ open' = Surviving
    /\ seq' = [seq EXCEPT ![s] = @ + 1]
    /\ UNCHANGED <<done, events, subscribers, idle, queue, produced>>

\* subscribe: a new, empty queue registered for the reader.
Subscribe(s, r) ==
    /\ s \in Surviving
    /\ open' = Surviving
    /\ subscribers' = [subscribers EXCEPT ![s] = @ \cup {r}]
    /\ queue' = [queue EXCEPT ![r] = <<>>]
    /\ idle' = [idle EXCEPT ![s] = 0]
    /\ UNCHANGED <<done, seq, events, produced>>

\* A faulty CursorIndex: takes the cursor for a sequence number.
CursorBySeq(s, cursor) == {i \in 1..Len(events[s]) : events[s][i].seq = cursor}

\* resume_subscribe: the events after the cursor, when the window holds it.
CursorIndex(s, cursor) == {i \in 1..Len(events[s]) : events[s][i].n = cursor}

\* A faulty Replay: repeats the event at the cursor.
ReplayFromCursor(s, cursor) ==
    LET i == CHOOSE j \in CursorIndex(s, cursor) : TRUE
    IN  SubSeq(events[s], i, Len(events[s]))

Replay(s, cursor) ==
    LET i == CHOOSE j \in CursorIndex(s, cursor) : TRUE
    IN  SubSeq(events[s], i + 1, Len(events[s]))

\* unsubscribe: touches the stream before collecting, so it never expires
\* the stream it is called for.  The generator drops its queue as it exits.
Unsubscribe(s, r) ==
    /\ IF s \in open
       THEN /\ subscribers' = [subscribers EXCEPT ![s] = @ \ {r}]
            /\ idle' = [idle EXCEPT ![s] = 0]
            /\ open' = Surviving \cup {s}
       ELSE UNCHANGED <<subscribers, idle, open>>
    /\ queue' = [queue EXCEPT ![r] = <<>>]
    /\ UNCHANGED <<done, seq, events, produced>>

\* Time passes.
Tick ==
    /\ \E s \in open : idle[s] < TTL
    /\ idle' = [s \in StreamIds |-> IF s \in open /\ idle[s] < TTL
                                    THEN idle[s] + 1 ELSE idle[s]]
    /\ UNCHANGED <<open, done, seq, events, subscribers, queue, produced>>

-----------------------------------------------------------------------------
(* What the cache promises to every component that uses it *)

\* max_active_streams bounds the registry (create_stream).
RegistryBounded == Cardinality(open) <= MaxActive

(***************************************************************************)
(* The replay window holds the newest events of its stream, consecutive    *)
(* and with strictly increasing seq, although resume endpoints draw from   *)
(* the same counter; the counter is never behind the window.               *)
(***************************************************************************)
WindowIsTail ==
    \A s \in open :
        /\ Len(events[s]) <= MaxEvents
        /\ \A i \in 1..Len(events[s]) :
              /\ events[s][i].n = produced[s] - Len(events[s]) + i
              /\ events[s][i].seq <= seq[s]
              /\ i > 1 => events[s][i-1].seq < events[s][i].seq

\* A step takes no active stream away.
ActiveKept == \A s \in open : ~done[s] => s \in open'

=============================================================================
