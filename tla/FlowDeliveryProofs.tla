------------------------- MODULE FlowDeliveryProofs -------------------------
(***************************************************************************)
(* Theorems about FlowDelivery, for any number of clients and streams and  *)
(* any limits.                                                             *)
(***************************************************************************)
EXTENDS FlowDelivery, FlowStreamRuntimeProofs

(* Every action is one call on the runtime *)

LEMMA LeaveCall ==
    ASSUME TypeOK, NEW r \in Readers, NEW why, Leave(r, why)
    PROVE  ReaderCall(r)
<1>1. CASE source[r] \in open
  BY <1>1 DEF Leave, ReaderCall, TypeOK, RuntimeTypeOK
<1>2. CASE source[r] \notin open
  BY <1>2 DEF Leave, Unsubscribe, ReaderCall, DropQueue
<1> QED
  BY <1>1, <1>2

LEMMA VanishedCall ==
    ASSUME NEW r \in Readers, StreamVanished(r)
    PROVE  ReaderCall(r)
BY DEF StreamVanished, ReaderCall, DropQueue

LEMMA AnnounceCall ==
    ASSUME TypeOK, NEW r \in Readers, NEW kind, NEW next, Announce(r, kind, next)
    PROVE  RuntimeStep
<1>1. CASE TakeSeq(source[r])
  <2>1. source[r] \in StreamIds
    BY <1>1, SurvivingSubset DEF TakeSeq, TypeOK, RuntimeTypeOK
  <2> QED
    BY <1>1, <2>1 DEF RuntimeStep, StreamCall
<1> QED
  BY <1>1, VanishedCall DEF Announce, RuntimeStep

LEMMA NextIsRuntimeStep ==
    ASSUME TypeOK, [Next]_vars
    PROVE  RuntimeStep
<1>1. ASSUME NEW s \in StreamIds, OpenRunStream(s) \/ ProducerStep(s)
      PROVE  RuntimeStep
  <2>1. CASE OpenRunStream(s)
    BY <2>1 DEF OpenRunStream, RuntimeStep, StreamCall
  <2>2. CASE LoseStream(s)
    BY <2>2 DEF LoseStream, RuntimeStep
  <2>3. ASSUME NEW from, NEW kind \in Kinds, NEW to, Produce(s, from, kind, to)
        PROVE  RuntimeStep
    BY <2>3 DEF Produce, RuntimeStep, StreamCall
  <2> QED
    BY <1>1, <2>1, <2>2, <2>3
       DEF ProducerStep, EmitStarted, EmitData, EmitUnmapped, EmitFailure, EmitEnded, Kinds
<1>2. ASSUME NEW r \in Readers, NEW s \in StreamIds, OpenChat(r, s)
      PROVE  RuntimeStep
  <2>1. CASE Overloaded(s) /\ Refuse(r)
    BY <2>1 DEF Refuse, RuntimeStep
  <2>2. CASE AddStream(s, {r}) /\ UNCHANGED <<queue, produced>>
    BY <2>2 DEF RuntimeStep, StreamCall
  <2> QED
    BY <1>2, <2>1, <2>2 DEF OpenChat
<1>3. ASSUME NEW r \in Readers, NEW s \in StreamIds, OpenRun(r, s)
      PROVE  RuntimeStep
  BY <1>3 DEF OpenRun, Refuse, RuntimeStep, ReaderCall
<1>4. ASSUME NEW r \in Readers, Resume(r)
      PROVE  RuntimeStep
  <2>1. CASE source[r] \in Surviving
    <3>1. source[r] \in StreamIds
      BY <2>1, SurvivingSubset DEF TypeOK, RuntimeTypeOK
    <3> QED
      BY <1>4, <3>1 DEF Resume, Refuse, RuntimeStep, ReaderCall
  <2>2. CASE source[r] \notin Surviving
    BY <1>4, <2>2 DEF Resume, Refuse, RuntimeStep
  <2> QED
    BY <2>1, <2>2
<1>5. ASSUME NEW r \in Readers, GeneratorStep(r)
      PROVE  RuntimeStep
  <2>1. CASE BeginResume(r)
    BY <2>1, AnnounceCall DEF BeginResume
  <2>2. CASE YieldReplay(r)
    BY <2>2 DEF YieldReplay, RuntimeStep
  <2>3. CASE FinishReplay(r)
    BY <2>3, AnnounceCall, LeaveCall DEF FinishReplay, RuntimeStep
  <2>4. CASE AfterReplay(r)
    BY <2>4, VanishedCall, LeaveCall DEF AfterReplay, RuntimeStep
  <2>5. CASE YieldLive(r)
    BY <2>5 DEF YieldLive, RuntimeStep, ReaderCall, TakeFromQueue
  <2>6. CASE Close(r)
    BY <2>6, LeaveCall DEF Close, RuntimeStep
  <2> QED
    BY <1>5, <2>1, <2>2, <2>3, <2>4, <2>5, <2>6 DEF GeneratorStep
<1>6. ASSUME NEW r \in Readers, Disconnect(r)
      PROVE  RuntimeStep
  BY <1>6, LeaveCall DEF Disconnect, RuntimeStep
<1>7. CASE Tick \/ UNCHANGED vars
  BY <1>7 DEF RuntimeStep, vars
<1> QED
  BY <1>1, <1>2, <1>3, <1>4, <1>5, <1>6, <1>7 DEF Next

-----------------------------------------------------------------------------
(* The types *)

\* The part of TypeOK that the runtime does not own.
ReaderTypeOK ==
    /\ producer \in [StreamIds -> ProducerStates]
    /\ sessions \in [StreamIds -> Nat]
    /\ pc \in [Readers -> ReaderStates]
    /\ source \in [Readers -> StreamIds \cup {None}]
    /\ backlog \in [Readers -> Seq(Payload)]
    /\ got \in [Readers -> Seq(Received)]
    /\ since \in [Readers -> Nat]
    /\ retries \in [Readers -> Nat]
    /\ outcome \in [Readers -> Outcomes]

LEMMA TypeParts == TypeOK <=> RuntimeTypeOK /\ ReaderTypeOK
BY DEF TypeOK, ReaderTypeOK

\* What a client may receive: stored payloads and transport events.
LEMMA ReceivedTypes ==
    /\ Payload \subseteq Received
    /\ \A s \in StreamIds, kind \in TransportKinds :
          RuntimeTypeOK => [n |-> 0, seq |-> seq[s] + 1, kind |-> kind] \in Received
    /\ Synthetic \in Seq(Received)
<1>1. Payload \subseteq Received
  BY DEF Payload, Received
<1>2. ASSUME NEW s \in StreamIds, NEW kind \in TransportKinds, RuntimeTypeOK
      PROVE  [n |-> 0, seq |-> seq[s] + 1, kind |-> kind] \in Received
  BY <1>2 DEF RuntimeTypeOK, Received
<1>3. /\ [n |-> 0, seq |-> 1, kind |-> "started"] \in Received
      /\ [n |-> 0, seq |-> 2, kind |-> "ended"] \in Received
  BY DEF Received, Kinds
<1>4. Synthetic \in Seq(Received)
  BY <1>3 DEF Synthetic
<1> QED
  BY <1>1, <1>2, <1>4

LEMMA DeliverType ==
    ASSUME TypeOK, NEW r \in Readers, NEW p \in Received, Deliver(r, p)
    PROVE  got' \in [Readers -> Seq(Received)]
<1>1. Append(got[r], p) \in Seq(Received)
  BY AppendProperties DEF TypeOK
<1> QED
  BY <1>1 DEF Deliver, TypeOK

LEMMA LeaveType ==
    ASSUME TypeOK, NEW r \in Readers, NEW why \in Outcomes, Leave(r, why),
           got' \in [Readers -> Seq(Received)]
    PROVE  ReaderTypeOK'
BY EmptySeq DEF Leave, TypeOK, ReaderTypeOK, ReaderStates, producerVars

LEMMA VanishedType ==
    ASSUME TypeOK, NEW r \in Readers, StreamVanished(r)
    PROVE  ReaderTypeOK'
BY EmptySeq DEF StreamVanished, TypeOK, ReaderTypeOK, ReaderStates, Outcomes, producerVars

LEMMA AnnounceType ==
    ASSUME TypeOK, NEW r \in Readers, NEW kind \in TransportKinds, NEW next \in ReaderStates,
           Announce(r, kind, next)
    PROVE  ReaderTypeOK'
<1> DEFINE p == [n |-> 0, seq |-> seq[source[r]] + 1, kind |-> kind]
<1>1. CASE /\ TakeSeq(source[r])
           /\ Deliver(r, p)
           /\ pc' = [pc EXCEPT ![r] = next]
           /\ UNCHANGED <<producerVars, source, backlog, since, retries, outcome>>
  <2>1. source[r] \in StreamIds
    BY <1>1, SurvivingSubset DEF TakeSeq, TypeOK, RuntimeTypeOK
  <2>2. p \in Received
    BY <2>1, ReceivedTypes DEF TypeOK
  <2>3. got' \in [Readers -> Seq(Received)]
    BY <1>1, <2>2, DeliverType
  <2> QED
    BY <1>1, <2>3 DEF TypeOK, ReaderTypeOK, producerVars
<1> QED
  BY <1>1, VanishedType DEF Announce

LEMMA RefuseType ==
    ASSUME TypeOK, NEW r \in Readers, Refuse(r), retries' \in [Readers -> Nat]
    PROVE  ReaderTypeOK'
BY DEF Refuse, TypeOK, ReaderTypeOK, Outcomes, producerVars

LEMMA ProducerType ==
    ASSUME TypeOK, NEW s \in StreamIds, OpenRunStream(s) \/ ProducerStep(s)
    PROVE  ReaderTypeOK'
<1>1. CASE OpenRunStream(s)
  BY <1>1 DEF OpenRunStream, TypeOK, ReaderTypeOK, ProducerStates, readerVars
<1>2. CASE LoseStream(s)
  BY <1>2 DEF LoseStream, TypeOK, ReaderTypeOK, ProducerStates, readerVars
<1>3. ASSUME NEW from, NEW kind, NEW to \in ProducerStates, Produce(s, from, kind, to)
      PROVE  ReaderTypeOK'
  BY <1>3 DEF Produce, TypeOK, ReaderTypeOK, readerVars
<1> QED
  BY <1>1, <1>2, <1>3
     DEF ProducerStep, EmitStarted, EmitData, EmitUnmapped, EmitFailure, EmitEnded, ProducerStates

LEMMA OpenChatType ==
    ASSUME TypeOK, NEW r \in Readers, NEW s \in StreamIds, OpenChat(r, s)
    PROVE  ReaderTypeOK'
<1>1. CASE Refuse(r) /\ UNCHANGED retries
  BY <1>1, RefuseType DEF TypeOK
<1>2. CASE /\ producer' = [producer EXCEPT ![s] = "ready"]
           /\ sessions' = [sessions EXCEPT ![s] = 1]
           /\ pc' = [pc EXCEPT ![r] = "live"]
           /\ source' = [source EXCEPT ![r] = s]
           /\ outcome' = [outcome EXCEPT ![r] = "streaming"]
           /\ UNCHANGED <<queue, produced, backlog, got, since, retries>>
  BY <1>2 DEF TypeOK, ReaderTypeOK, ReaderStates, ProducerStates, Outcomes
<1> QED
  BY <1>1, <1>2 DEF OpenChat

LEMMA OpenRunType ==
    ASSUME TypeOK, NEW r \in Readers, NEW s \in StreamIds, OpenRun(r, s)
    PROVE  ReaderTypeOK'
<1>1. CASE Refuse(r) /\ UNCHANGED retries
  BY <1>1, RefuseType DEF TypeOK
<1>2. CASE /\ backlog' = [backlog EXCEPT ![r] = events[s]]
           /\ pc' = [pc EXCEPT ![r] = "replay"]
           /\ source' = [source EXCEPT ![r] = s]
           /\ outcome' = [outcome EXCEPT ![r] = "streaming"]
           /\ UNCHANGED <<producerVars, got, since, retries>>
  <2>1. events[s] \in Seq(Payload)
    BY DEF TypeOK, RuntimeTypeOK
  <2> QED
    BY <1>2, <2>1 DEF TypeOK, ReaderTypeOK, ReaderStates, Outcomes, producerVars
<1>3. CASE /\ got' = [got EXCEPT ![r] = Synthetic]
           /\ outcome' = [outcome EXCEPT ![r] = "returned"]
           /\ UNCHANGED <<producerVars, pc, source, backlog, since, retries>>
  BY <1>3, ReceivedTypes DEF TypeOK, ReaderTypeOK, Outcomes, producerVars
<1> QED
  BY <1>1, <1>2, <1>3 DEF OpenRun

\* What resume_subscribe replays is part of the window.
LEMMA ReplayType ==
    ASSUME RuntimeTypeOK, NEW s \in StreamIds, NEW cursor, CursorIndex(s, cursor) # {}
    PROVE  Replay(s, cursor) \in Seq(Payload)
<1> DEFINE i == CHOOSE j \in CursorIndex(s, cursor) : TRUE
<1>1. i \in 1..Len(events[s])
  BY DEF CursorIndex
<1>2. events[s] \in Seq(Payload) /\ Len(events[s]) \in Nat
  BY LenProperties DEF RuntimeTypeOK
<1> HIDE DEF i
<1>3. \A j \in (i + 1)..Len(events[s]) : events[s][j] \in Payload
  <2> SUFFICES ASSUME NEW j \in (i + 1)..Len(events[s])
               PROVE  events[s][j] \in Payload
    OBVIOUS
  <2>1. j \in 1..Len(events[s])
    BY <1>1, <1>2
  <2> QED
    BY <1>2, <2>1, ElementOfSeq
<1>4. SubSeq(events[s], i + 1, Len(events[s])) \in Seq(Payload)
  BY <1>1, <1>2, <1>3, SubSeqProperties
<1> QED
  BY <1>4 DEF Replay, i

LEMMA ResumeType ==
    ASSUME TypeOK, NEW r \in Readers, Resume(r)
    PROVE  ReaderTypeOK'
<1> DEFINE s == source[r]
           cursor == got[r][Len(got[r])].n
<1>1. retries' \in [Readers -> Nat]
  BY DEF Resume, TypeOK
<1>2. CASE s \in Surviving /\ CursorIndex(s, cursor) # {}
  <2>1. s \in StreamIds
    BY <1>2, SurvivingSubset DEF TypeOK, RuntimeTypeOK
  <2>2. Replay(s, cursor) \in Seq(Payload) /\ Len(got[r]) \in Nat
    BY <1>2, <2>1, ReplayType, LenProperties DEF TypeOK
  <2>3. /\ backlog' = [backlog EXCEPT ![r] = Replay(s, cursor)]
        /\ pc' = [pc EXCEPT ![r] = "resume"]
        /\ since' = [since EXCEPT ![r] = Len(got[r])]
        /\ outcome' = [outcome EXCEPT ![r] = "streaming"]
        /\ UNCHANGED <<producerVars, source, got>>
    BY <1>2 DEF Resume
  <2> HIDE DEF s, cursor
  <2> QED
    BY <1>1, <2>2, <2>3 DEF TypeOK, ReaderTypeOK, ReaderStates, Outcomes, producerVars
<1>3. CASE ~(s \in Surviving /\ CursorIndex(s, cursor) # {})
  <2>1. Refuse(r)
    BY <1>3 DEF Resume
  <2> QED
    BY <1>1, <2>1, RefuseType
<1> QED
  BY <1>2, <1>3

LEMMA GeneratorType ==
    ASSUME TypeOK, NEW r \in Readers, GeneratorStep(r)
    PROVE  ReaderTypeOK'
<1>1. CASE BeginResume(r)
  BY <1>1, AnnounceType DEF BeginResume, TransportKinds, ReaderStates
<1>2. CASE YieldReplay(r)
  <2>1. Head(backlog[r]) \in Payload /\ Tail(backlog[r]) \in Seq(Payload)
    BY <1>2, HeadTailProperties DEF YieldReplay, TypeOK
  <2>2. got' \in [Readers -> Seq(Received)]
    BY <1>2, <2>1, ReceivedTypes, DeliverType DEF YieldReplay
  <2> QED
    BY <1>2, <2>1, <2>2 DEF YieldReplay, After, TypeOK, ReaderTypeOK, ReaderStates, producerVars
<1>3. CASE FinishReplay(r)
  <2>1. CASE retries[r] > 0
    BY <1>3, <2>1, AnnounceType DEF FinishReplay, TransportKinds, ReaderStates
  <2>2. CASE Leave(r, "returned") /\ UNCHANGED got
    BY <2>2, LeaveType DEF TypeOK, Outcomes
  <2>3. CASE /\ pc' = [pc EXCEPT ![r] = "live"]
             /\ UNCHANGED <<producerVars, source, backlog, got, since, retries, outcome>>
    BY <2>3 DEF TypeOK, ReaderTypeOK, ReaderStates, producerVars
  <2> QED
    BY <1>3, <2>1, <2>2, <2>3 DEF FinishReplay
<1>4. CASE AfterReplay(r)
  <2>1. CASE Leave(r, "returned") /\ UNCHANGED got
    BY <2>1, LeaveType DEF TypeOK, Outcomes
  <2>2. CASE /\ pc' = [pc EXCEPT ![r] = "live"]
             /\ UNCHANGED <<producerVars, source, backlog, got, since, retries, outcome>>
    BY <2>2 DEF TypeOK, ReaderTypeOK, ReaderStates, producerVars
  <2> QED
    BY <1>4, <2>1, <2>2, VanishedType DEF AfterReplay
<1>5. CASE YieldLive(r)
  <2>1. Head(queue[r]) \in Payload
    BY <1>5, HeadTailProperties DEF YieldLive, TypeOK, RuntimeTypeOK
  <2>2. got' \in [Readers -> Seq(Received)]
    BY <1>5, <2>1, ReceivedTypes, DeliverType DEF YieldLive
  <2> QED
    BY <1>5, <2>2 DEF YieldLive, After, TypeOK, ReaderTypeOK, ReaderStates, producerVars
<1>6. CASE Close(r)
  BY <1>6, LeaveType DEF Close, TypeOK, Outcomes
<1> QED
  BY <1>1, <1>2, <1>3, <1>4, <1>5, <1>6 DEF GeneratorStep

LEMMA DisconnectType ==
    ASSUME TypeOK, NEW r \in Readers, Disconnect(r)
    PROVE  ReaderTypeOK'
<1>1. got[r] \in Seq(Received) /\ Len(got[r]) \in Nat /\ since[r] \in Nat
  BY LenProperties DEF TypeOK
<1>2. PICK k \in since[r]..Len(got[r]) : got' = [got EXCEPT ![r] = SubSeq(got[r], 1, k)]
  BY DEF Disconnect
<1>3. \A i \in 1..k : got[r][i] \in Received
  <2> SUFFICES ASSUME NEW i \in 1..k
               PROVE  got[r][i] \in Received
    OBVIOUS
  <2>1. i \in 1..Len(got[r])
    BY <1>1, <1>2
  <2> QED
    BY <1>1, <2>1, ElementOfSeq
<1>4. SubSeq(got[r], 1, k) \in Seq(Received)
  BY <1>1, <1>3, SubSeqProperties
<1>5. got' \in [Readers -> Seq(Received)]
  BY <1>2, <1>4 DEF TypeOK
<1> QED
  BY <1>5, LeaveType DEF Disconnect, Outcomes

LEMMA InitType == Init => TypeOK
BY RuntimeInitType, EmptySeq DEF Init, TypeOK, ProducerStates, ReaderStates, Outcomes

LEMMA TypeStep ==
    ASSUME TypeOK, [Next]_vars
    PROVE  TypeOK'
<1>1. RuntimeTypeOK'
  BY NextIsRuntimeStep, RuntimeTypeStep DEF TypeOK
<1>2. ASSUME (Tick /\ UNCHANGED <<producerVars, readerVars>>) \/ UNCHANGED vars
      PROVE  ReaderTypeOK'
  BY <1>2 DEF vars, producerVars, readerVars, TypeOK, ReaderTypeOK
<1>3. ReaderTypeOK'
  BY <1>2, ProducerType, OpenChatType, OpenRunType, ResumeType, GeneratorType, DisconnectType
     DEF Next
<1> QED
  BY <1>1, <1>3 DEF TypeOK, ReaderTypeOK

-----------------------------------------------------------------------------
(* The theorems *)

\* Every state of every run has the declared types: no payload, backlog or
\* sequence number outside its range, whatever the limits.
THEOREM TypeCorrect == Spec => []TypeOK
<1>1. Init => TypeOK
  BY InitType
<1>2. TypeOK /\ [Next]_vars => TypeOK'
  BY TypeStep
<1> QED
  BY <1>1, <1>2, PTL DEF Spec

\* create_stream keeps the registry within max_active_streams, for every
\* capacity: one eviction always makes enough room.
THEOREM RegistryBound == Spec => []RegistryBounded
<1>1. Init => RegistryBounded
  BY FS_EmptySet, RuntimeAssumption DEF Init, RuntimeInit, RegistryBounded
<1>2. TypeOK /\ RegistryBounded /\ [Next]_vars => RegistryBounded'
  BY NextIsRuntimeStep, RegistryBoundedStep DEF TypeOK
<1> QED
  BY <1>1, <1>2, TypeCorrect, PTL DEF Spec

\* The replay window always holds the newest events of its stream, in order
\* and without a hole, whatever resumes take from the sequence counter.
THEOREM WindowKeepsTail == Spec => []WindowIsTail
<1>1. Init => WindowIsTail
  BY DEF Init, RuntimeInit, WindowIsTail
<1>2. TypeOK /\ WindowIsTail /\ [Next]_vars => WindowIsTail'
  BY NextIsRuntimeStep, WindowIsTailStep DEF TypeOK
<1> QED
  BY <1>1, <1>2, TypeCorrect, PTL DEF Spec

\* Expiry and eviction never take a stream that has not completed.
THEOREM ActiveStay == Spec => ActiveStreamsStay
<1>1. TypeOK /\ [Next]_vars => [ActiveKept]_vars
  BY NextIsRuntimeStep, ActiveKeptStep
<1> QED
  BY <1>1, TypeCorrect, PTL DEF Spec, ActiveStreamsStay

-----------------------------------------------------------------------------

(***************************************************************************)
(* Delivery is contiguous: what a client has received, followed by what    *)
(* its generator holds for it, is a run of consecutive events that ends    *)
(* with the newest event of the stream, over any number of reconnections,  *)
(* any window and any interleaving with producers, expiry and eviction.    *)
(***************************************************************************)

(***************************************************************************)
(* g is what a client received, p what is pending for it.                  *)
(***************************************************************************)

\* The last stored event of g is at i: only transport events follow.
LastReal(g, i) ==
    /\ i \in 1..Len(g)
    /\ g[i].n > 0
    /\ \A k \in (i+1)..Len(g) : g[k].n = 0

NoGap(g) ==
    \A i, j \in 1..Len(g) :
        (/\ i < j /\ g[i].n > 0 /\ g[j].n > 0
         /\ \A k \in (i+1)..(j-1) : g[k].n = 0)
        => g[j].n = g[i].n + 1

\* p is a run of stored events that continues g.
Continues(g, p) ==
    /\ \A i \in 1..Len(p) : p[i].n > 0 /\ p[i].n = p[1].n + i - 1
    /\ Len(p) > 0 => \A i \in 1..Len(g) : LastReal(g, i) => p[1].n = g[i].n + 1

\* p ends with event h, and g is short of h by p.
UpTo(g, p, h) ==
    /\ \A i \in 1..Len(p) : p[i].n = h - Len(p) + i
    /\ \A i \in 1..Len(g) : LastReal(g, i) => g[i].n = h - Len(p)

InLine(g, p) == NoGap(g) /\ Continues(g, p)

LEMMA ReceivedAt ==
    ASSUME NEW g \in Seq(Received)
    PROVE  Len(g) \in Nat /\ \A i \in 1..Len(g) : g[i].n \in Nat
<1>1. \A i \in 1..Len(g) : g[i] \in Received
  BY ElementOfSeq
<1> QED
  BY <1>1, LenProperties DEF Received

LEMMA PendingAt ==
    ASSUME NEW p \in Seq(Payload)
    PROVE  Len(p) \in Nat /\ \A i \in 1..Len(p) : p[i].n \in Nat
BY PayloadAt, LenProperties

\* Nothing pending continues anything.
LEMMA EmptyContinues ==
    ASSUME NEW g, NoGap(g)
    PROVE  InLine(g, <<>>)
BY DEF InLine, Continues

\* The fan-out: the next event joins what is pending.
LEMMA PushLine ==
    ASSUME NEW g \in Seq(Received), NEW p \in Seq(Payload), NEW p2 \in Seq(Payload),
           NEW h \in Nat, InLine(g, p), UpTo(g, p, h),
           Len(p2) = Len(p) + 1,
           \A i \in 1..Len(p) : p2[i] = p[i],
           p2[Len(p2)].n = h + 1
    PROVE  InLine(g, p2) /\ UpTo(g, p2, h + 1)
<1>1. Len(p) \in Nat /\ Len(g) \in Nat /\ \A i \in 1..Len(g) : g[i].n \in Nat
  BY ReceivedAt, PendingAt
<1>2. \A i \in 1..Len(p2) : p2[i].n = (h + 1) - Len(p2) + i
  <2> SUFFICES ASSUME NEW i \in 1..Len(p2)
               PROVE  p2[i].n = (h + 1) - Len(p2) + i
    OBVIOUS
  <2>1. CASE i = Len(p2)
    BY <1>1, <2>1
  <2>2. CASE i # Len(p2)
    <3>1. i \in 1..Len(p) /\ p2[i] = p[i]
      BY <1>1, <2>2
    <3>2. p[i].n = h - Len(p) + i
      BY <3>1 DEF UpTo
    <3> QED
      BY <1>1, <3>1, <3>2
  <2> QED
    BY <2>1, <2>2
<1>3. \A i \in 1..Len(p2) : p2[i].n > 0 /\ p2[i].n = p2[1].n + i - 1
  <2> SUFFICES ASSUME NEW i \in 1..Len(p2)
               PROVE  p2[i].n > 0 /\ p2[i].n = p2[1].n + i - 1
    OBVIOUS
  <2>1. p2[i].n = p2[1].n + i - 1
    <3>1. i \in Nat /\ 1 \in 1..Len(p2) /\ Len(p2) \in Nat
      BY <1>1
    <3>2. p2[1].n = (h + 1) - Len(p2) + 1 /\ p2[i].n = (h + 1) - Len(p2) + i
      BY <1>2, <3>1
    <3> QED
      BY <3>1, <3>2
  <2>2. CASE i = Len(p2)
    BY <2>1, <2>2
  <2>3. CASE i # Len(p2)
    <3>1. i \in 1..Len(p) /\ p2[i] = p[i]
      BY <1>1, <2>3
    <3> QED
      BY <2>1, <3>1 DEF InLine, Continues
  <2> QED
    BY <2>1, <2>2, <2>3
<1>4. \A i \in 1..Len(g) : LastReal(g, i) => g[i].n = (h + 1) - Len(p2)
  BY <1>1 DEF UpTo
<1>5. \A i \in 1..Len(g) : LastReal(g, i) => p2[1].n = g[i].n + 1
  BY <1>1, <1>2, <1>4
<1> QED
  BY <1>2, <1>3, <1>4, <1>5 DEF InLine, Continues, UpTo

\* A yield: the first pending event is received.
LEMMA TakeLine ==
    ASSUME NEW g \in Seq(Received), NEW p \in Seq(Payload), NEW p2 \in Seq(Payload),
           NEW h \in Nat, InLine(g, p),
           Len(p) = Len(p2) + 1,
           \A i \in 1..Len(p2) : p2[i] = p[i+1]
    PROVE  /\ InLine(Append(g, p[1]), p2)
           /\ UpTo(g, p, h) => UpTo(Append(g, p[1]), p2, h)
<1> DEFINE g2 == Append(g, p[1])
<1>1. /\ Len(p) \in Nat /\ Len(p2) \in Nat /\ Len(g) \in Nat
      /\ \A i \in 1..Len(g) : g[i].n \in Nat
      /\ \A i \in 1..Len(p) : p[i].n \in Nat
  BY ReceivedAt, PendingAt
<1>2. p[1] \in Received
  BY <1>1, ElementOfSeq, ReceivedTypes
<1>3. /\ Len(g2) = Len(g) + 1
      /\ \A i \in 1..Len(g) : g2[i] = g[i]
      /\ g2[Len(g) + 1] = p[1]
  BY <1>2, AppendProperties
<1>4. p[1].n > 0
  BY <1>1 DEF InLine, Continues
<1> HIDE DEF g2
<1>5. \A i \in 1..Len(g2) : LastReal(g2, i) => i = Len(g2)
  BY <1>1, <1>3, <1>4 DEF LastReal
<1>6. NoGap(g2)
  <2> SUFFICES ASSUME NEW i \in 1..Len(g2), NEW j \in 1..Len(g2),
                      i < j, g2[i].n > 0, g2[j].n > 0,
                      \A k \in (i+1)..(j-1) : g2[k].n = 0
               PROVE  g2[j].n = g2[i].n + 1
    BY DEF NoGap
  <2>1. i \in 1..Len(g) /\ g2[i] = g[i]
    BY <1>1, <1>3
  <2>2. \A k \in (i+1)..(j-1) : k \in 1..Len(g) /\ g[k].n = 0
    BY <1>1, <1>3, <2>1
  <2>3. CASE j = Len(g) + 1
    <3>1. LastReal(g, i)
      BY <1>1, <2>1, <2>2, <2>3 DEF LastReal
    <3> QED
      BY <1>1, <1>3, <2>1, <2>3, <3>1 DEF InLine, Continues
  <2>4. CASE j # Len(g) + 1
    <3>1. j \in 1..Len(g) /\ g2[j] = g[j]
      BY <1>1, <1>3, <2>4
    <3> QED
      BY <2>1, <2>2, <3>1 DEF InLine, NoGap
  <2> QED
    BY <2>3, <2>4
<1>7. Continues(g2, p2)
  <2>1. \A i \in 1..Len(p2) : p2[i].n > 0 /\ p2[i].n = p2[1].n + i - 1
    <3> SUFFICES ASSUME NEW i \in 1..Len(p2)
                 PROVE  p2[i].n > 0 /\ p2[i].n = p2[1].n + i - 1
      OBVIOUS
    <3>1. p2[i] = p[i+1] /\ p2[1] = p[2] /\ i + 1 \in 1..Len(p) /\ 2 \in 1..Len(p)
      BY <1>1
    <3>2. p[i+1].n > 0 /\ p[i+1].n = p[1].n + (i + 1) - 1 /\ p[2].n = p[1].n + 2 - 1
      BY <3>1 DEF InLine, Continues
    <3> QED
      BY <1>1, <3>1, <3>2
  <2>2. Len(p2) > 0 => p2[1].n = p[1].n + 1
    <3> SUFFICES ASSUME Len(p2) > 0
                 PROVE  p2[1].n = p[1].n + 1
      OBVIOUS
    <3>1. p2[1] = p[2] /\ 2 \in 1..Len(p)
      BY <1>1
    <3>2. p[2].n = p[1].n + 2 - 1
      BY <3>1 DEF InLine, Continues
    <3> QED
      BY <1>1, <3>1, <3>2
  <2> QED
    BY <1>1, <1>3, <1>5, <2>1, <2>2 DEF Continues
<1>8. ASSUME UpTo(g, p, h)
      PROVE  UpTo(g2, p2, h)
  <2>1. \A i \in 1..Len(p2) : p2[i].n = h - Len(p2) + i
    <3> SUFFICES ASSUME NEW i \in 1..Len(p2)
                 PROVE  p2[i].n = h - Len(p2) + i
      OBVIOUS
    <3>1. p2[i] = p[i+1] /\ i + 1 \in 1..Len(p)
      BY <1>1
    <3>2. p[i+1].n = h - Len(p) + (i + 1)
      BY <1>8, <3>1 DEF UpTo
    <3> QED
      BY <1>1, <3>1, <3>2
  <2>2. p[1].n = h - Len(p2)
    BY <1>1, <1>8 DEF UpTo
  <2> QED
    BY <1>1, <1>3, <1>5, <2>1, <2>2 DEF UpTo
<1> QED
  BY <1>6, <1>7, <1>8 DEF InLine, g2

\* Arithmetic: an index of an extended sequence that is not the new one is an old one.
LEMMA BelowEnd ==
    ASSUME NEW n \in Nat, NEW i \in 1..(n + 1), i # n + 1
    PROVE  i \in 1..n
  OBVIOUS

\* A transport event is received: it counts for nothing.
LEMMA NoteLine ==
    ASSUME NEW g \in Seq(Received), NEW p \in Seq(Payload), NEW h \in Nat,
           NEW t \in Received, t.n = 0, InLine(g, p)
    PROVE  /\ InLine(Append(g, t), p)
           /\ UpTo(g, p, h) => UpTo(Append(g, t), p, h)
<1> DEFINE g2 == Append(g, t)
<1>1. Len(g) \in Nat /\ \A i \in 1..Len(g) : g[i].n \in Nat
  BY ReceivedAt
<1>2. /\ Len(g2) = Len(g) + 1
      /\ \A i \in 1..Len(g) : g2[i] = g[i]
      /\ g2[Len(g) + 1] = t
  BY AppendProperties
<1> HIDE DEF g2
<1>3. \A i \in 1..Len(g2) : LastReal(g2, i) => LastReal(g, i) /\ g2[i] = g[i]
  BY <1>1, <1>2 DEF LastReal
<1>4. NoGap(g2)
  <2> SUFFICES ASSUME NEW i \in 1..Len(g2), NEW j \in 1..Len(g2),
                      i < j, g2[i].n > 0, g2[j].n > 0,
                      \A k \in (i+1)..(j-1) : g2[k].n = 0
               PROVE  g2[j].n = g2[i].n + 1
    BY DEF NoGap
  <2>1. i # Len(g) + 1 /\ j # Len(g) + 1
    BY <1>2
  <2>2. i \in 1..Len(g) /\ j \in 1..Len(g)
    BY <1>1, <1>2, <2>1, BelowEnd
  <2>3. g2[i] = g[i] /\ g2[j] = g[j]
    BY <1>2, <2>2
  <2>4. \A k \in (i+1)..(j-1) : g[k].n = 0
    <3> SUFFICES ASSUME NEW k \in (i+1)..(j-1)
                 PROVE  g[k].n = 0
      OBVIOUS
    <3>1. k \in 1..Len(g)
      BY <1>1, <2>2
    <3> QED
      BY <1>2, <3>1
  <2> QED
    BY <2>2, <2>3, <2>4 DEF InLine, NoGap
<1> QED
  BY <1>3, <1>4 DEF InLine, Continues, UpTo, LastReal, g2

\* What is lost with a connection is a suffix of what was received.
LEMMA CutLine ==
    ASSUME NEW g \in Seq(Received), NEW k \in 0..Len(g), NoGap(g)
    PROVE  NoGap(SubSeq(g, 1, k))
<1> DEFINE c == SubSeq(g, 1, k)
<1>1. Len(g) \in Nat /\ \A i \in 1..Len(g) : g[i] \in Received
  BY LenProperties, ElementOfSeq
<1>2. k \in Nat /\ k <= Len(g) /\ \A i \in 1..k : g[i] \in Received
  BY <1>1
<1>3. Len(c) = k /\ \A i \in 1..k : c[i] = g[i]
  BY <1>2, SubSeqProperties
<1> HIDE DEF c
<1>4. NoGap(c)
  BY <1>1, <1>2, <1>3 DEF NoGap
<1> QED
  BY <1>4 DEF c

\* new is old with x behind it.
Pushed(old, new, x) ==
    /\ new \in Seq(Payload)
    /\ Len(new) = Len(old) + 1
    /\ \A i \in 1..Len(old) : new[i] = old[i]
    /\ new[Len(new)] = x

\* Joining an event to the queue joins it to backlog and queue.
LEMMA ConcatAppend ==
    ASSUME NEW b \in Seq(Payload), NEW q \in Seq(Payload), NEW x \in Payload
    PROVE  LET old == b \o q
               new == b \o Append(q, x)
           IN  Pushed(old, new, x)
<1> DEFINE a == Append(q, x)
           old == b \o q
           new == b \o a
<1>1. /\ a \in Seq(Payload)
      /\ Len(a) = Len(q) + 1
      /\ \A i \in 1..Len(q) : a[i] = q[i]
      /\ a[Len(q) + 1] = x
  BY AppendProperties
<1>2. Len(b) \in Nat /\ Len(q) \in Nat
  BY LenProperties
<1> HIDE DEF a
<1>3. /\ Len(old) = Len(b) + Len(q)
      /\ \A i \in 1..(Len(b) + Len(q)) :
            old[i] = IF i <= Len(b) THEN b[i] ELSE q[i - Len(b)]
  BY ConcatProperties
<1>4. /\ new \in Seq(Payload)
      /\ Len(new) = Len(b) + Len(a)
      /\ \A i \in 1..(Len(b) + Len(a)) :
            new[i] = IF i <= Len(b) THEN b[i] ELSE a[i - Len(b)]
  BY <1>1, ConcatProperties
<1> HIDE DEF old, new
<1>5. Len(new) = Len(old) + 1
  BY <1>1, <1>2, <1>3, <1>4
<1>6. new[Len(new)] = x
  <2>1. Len(new) \in 1..(Len(b) + Len(a)) /\ ~(Len(new) <= Len(b))
    BY <1>1, <1>2, <1>4
  <2>2. new[Len(new)] = a[Len(new) - Len(b)]
    BY <1>4, <2>1
  <2>3. Len(new) - Len(b) = Len(q) + 1
    BY <1>1, <1>2, <1>4
  <2> QED
    BY <1>1, <2>2, <2>3
<1>7. ASSUME NEW i \in 1..Len(old)
      PROVE  new[i] = old[i]
  <2>1. i \in 1..(Len(b) + Len(q)) /\ i \in 1..(Len(b) + Len(a))
    BY <1>1, <1>2, <1>3
  <2>2. CASE i <= Len(b)
    BY <1>3, <1>4, <2>1, <2>2
  <2>3. CASE ~(i <= Len(b))
    <3>1. new[i] = a[i - Len(b)] /\ old[i] = q[i - Len(b)]
      BY <1>3, <1>4, <2>1, <2>3
    <3>2. i - Len(b) \in 1..Len(q)
      BY <1>2, <2>1, <2>3
    <3> QED
      BY <1>1, <3>1, <3>2
  <2> QED
    BY <2>2, <2>3
<1> QED
  BY <1>4, <1>5, <1>6, <1>7 DEF a, old, new, Pushed

\* new is old without its first event.
Taken(old, new) ==
    /\ new \in Seq(Payload)
    /\ Len(old) = Len(new) + 1
    /\ \A i \in 1..Len(new) : new[i] = old[i+1]

\* Taking the head of the backlog takes the head of backlog and queue.
LEMMA ConcatTail ==
    ASSUME NEW b \in Seq(Payload), NEW q \in Seq(Payload), b # <<>>
    PROVE  LET old == b \o q
               new == Tail(b) \o q
           IN  Taken(old, new) /\ Head(b) = old[1]
<1> DEFINE t == Tail(b)
           old == b \o q
           new == t \o q
<1>1. /\ t \in Seq(Payload)
      /\ Len(t) = Len(b) - 1
      /\ \A i \in 1..Len(t) : t[i] = b[i+1]
      /\ Head(b) = b[1]
  BY HeadTailProperties
<1>2. Len(b) \in Nat \ {0} /\ Len(q) \in Nat
  BY LenProperties, EmptySeq
<1> HIDE DEF t
<1>3. /\ Len(old) = Len(b) + Len(q)
      /\ \A i \in 1..(Len(b) + Len(q)) :
            old[i] = IF i <= Len(b) THEN b[i] ELSE q[i - Len(b)]
  BY ConcatProperties
<1>4. /\ new \in Seq(Payload)
      /\ Len(new) = Len(t) + Len(q)
      /\ \A i \in 1..(Len(t) + Len(q)) :
            new[i] = IF i <= Len(t) THEN t[i] ELSE q[i - Len(t)]
  BY <1>1, ConcatProperties
<1> HIDE DEF old, new
<1>5. Len(old) = Len(new) + 1
  BY <1>1, <1>2, <1>3, <1>4
<1>6. Head(b) = old[1]
  <2>1. 1 \in 1..(Len(b) + Len(q)) /\ 1 <= Len(b)
    BY <1>2
  <2> QED
    BY <1>1, <1>3, <2>1
<1>7. ASSUME NEW i \in 1..Len(new)
      PROVE  new[i] = old[i+1]
  <2>1. i \in 1..(Len(t) + Len(q)) /\ i + 1 \in 1..(Len(b) + Len(q))
    BY <1>1, <1>2, <1>4
  <2>2. CASE i <= Len(t)
    <3>1. new[i] = t[i] /\ i \in 1..Len(t)
      BY <1>4, <2>1, <2>2
    <3>2. old[i+1] = b[i+1]
      BY <1>1, <1>2, <1>3, <2>1, <2>2
    <3> QED
      BY <1>1, <3>1, <3>2
  <2>3. CASE ~(i <= Len(t))
    <3>1. new[i] = q[i - Len(t)]
      BY <1>4, <2>1, <2>3
    <3>2. old[i+1] = q[(i+1) - Len(b)]
      BY <1>1, <1>2, <1>3, <2>1, <2>3
    <3>3. (i+1) - Len(b) = i - Len(t)
      BY <1>1, <1>2, <2>1
    <3> QED
      BY <3>1, <3>2, <3>3
  <2> QED
    BY <2>2, <2>3
<1> QED
  BY <1>4, <1>5, <1>6, <1>7 DEF t, old, new, Taken

\* Arithmetic: counting from d, and from its successor one step back.
LEMMA OneBack ==
    ASSUME NEW d \in Nat, NEW j \in Nat, j > 0
    PROVE  d + j > 0 /\ d + j = (d + 1) + j - 1
  OBVIOUS

(***************************************************************************)
(* A subscription starts: w is the window, h its newest event, and p what  *)
(* follows the i-th event of w.  The client has nothing yet, or the i-th   *)
(* event is the last it received.                                          *)
(***************************************************************************)
LEMMA StartLine ==
    ASSUME NEW g \in Seq(Received), NEW w \in Seq(Payload), NEW p \in Seq(Payload),
           NEW h \in Nat, Len(w) <= h, NoGap(g),
           \A j \in 1..Len(w) : w[j].n = h - Len(w) + j,
           NEW i \in 0..Len(w),
           Len(p) = Len(w) - i, \A j \in 1..Len(p) : p[j] = w[i + j],
           \/ Len(g) = 0 /\ i = 0
           \/ Len(g) > 0 /\ i > 0 /\ g[Len(g)].n = w[i].n
    PROVE  InLine(g, p) /\ UpTo(g, p, h)
<1>1. Len(g) \in Nat /\ Len(w) \in Nat /\ Len(p) \in Nat
  BY LenProperties
<1>2. \A j \in 1..Len(p) : p[j].n = h - Len(p) + j
  <2> SUFFICES ASSUME NEW j \in 1..Len(p)
               PROVE  p[j].n = h - Len(p) + j
    OBVIOUS
  <2>1. i + j \in 1..Len(w) /\ p[j] = w[i + j]
    BY <1>1
  <2>2. w[i + j].n = h - Len(w) + (i + j)
    BY <2>1
  <2> QED
    BY <1>1, <2>1, <2>2
<1>3. Len(p) <= h
  BY <1>1
<1>4. \A j \in 1..Len(g) : LastReal(g, j) => g[j].n = h - Len(p)
  <2> SUFFICES ASSUME NEW j \in 1..Len(g), LastReal(g, j)
               PROVE  g[j].n = h - Len(p)
    OBVIOUS
  <2>1. i \in 1..Len(w) /\ g[Len(g)].n = w[i].n /\ w[i].n = h - Len(w) + i
    BY <1>1
  <2>2. w[i].n > 0
    BY <1>1, <2>1
  <2>3. j = Len(g)
    BY <1>1, <2>1, <2>2 DEF LastReal
  <2> QED
    BY <1>1, <2>1, <2>3
<1>5. \A j \in 1..Len(p) : p[j].n > 0 /\ p[j].n = p[1].n + j - 1
  <2> SUFFICES ASSUME NEW j \in 1..Len(p)
               PROVE  p[j].n > 0 /\ p[j].n = p[1].n + j - 1
    OBVIOUS
  <2>1. p[j].n = h - Len(p) + j /\ p[1].n = h - Len(p) + 1
    BY <1>1, <1>2
  <2>2. j \in Nat /\ j > 0
    BY <1>1
  <2>3. h - Len(p) \in Nat
    BY <1>1, <1>3
  <2> DEFINE d == h - Len(p)
  <2>4. d \in Nat /\ p[j].n = d + j /\ p[1].n = d + 1
    BY <2>1, <2>3
  <2> HIDE DEF d
  <2>5. d + j > 0 /\ d + j = (d + 1) + j - 1
    <3>1. d \in Nat
      BY <2>4
    <3> QED
      BY <2>2, <3>1, OneBack
  <2> QED
    BY <2>4, <2>5
<1>6. Len(p) > 0 => \A j \in 1..Len(g) : LastReal(g, j) => p[1].n = g[j].n + 1
  <2>1. Len(p) > 0 => p[1].n = h - Len(p) + 1
    BY <1>1, <1>2
  <2> QED
    BY <1>1, <1>4, <2>1
<1>7. Continues(g, p)
  BY <1>5, <1>6 DEF Continues
<1>8. UpTo(g, p, h)
  BY <1>2, <1>4 DEF UpTo
<1> QED
  BY <1>7, <1>8 DEF InLine

-----------------------------------------------------------------------------
(* The inductive invariant *)

(***************************************************************************)
(* A subscription is to the reader's source; a client that has not begun   *)
(* holds nothing; a generator that reads its queue has no backlog; what is *)
(* pending continues what was received and, while subscribed, reaches the  *)
(* newest event.                                                           *)
(***************************************************************************)
ReaderInv(r) ==
    /\ \A s \in StreamIds : r \in subscribers[s] => source[r] = s
    /\ outcome[r] = "fresh" =>
          /\ pc[r] = "off" /\ backlog[r] = <<>> /\ queue[r] = <<>> /\ got[r] = <<>>
          /\ \A s \in StreamIds : r \notin subscribers[s]
    /\ pc[r] \in {"replayed", "live"} => backlog[r] = <<>>
    /\ InLine(got[r], backlog[r] \o queue[r])
    /\ \A s \in open : r \in subscribers[s] =>
          UpTo(got[r], backlog[r] \o queue[r], produced[s])

\* Ids count from 1, so no stored event has the id of a transport event.
Numbered == \A s \in open : Len(events[s]) <= produced[s]

DeliveryInv ==
    /\ TypeOK
    /\ WindowIsTail
    /\ Numbered
    /\ \A r \in Readers : ReaderInv(r)

LEMMA PendingType ==
    ASSUME TypeOK, NEW r \in Readers
    PROVE  /\ backlog[r] \in Seq(Payload) /\ queue[r] \in Seq(Payload)
           /\ backlog[r] \o queue[r] \in Seq(Payload)
           /\ got[r] \in Seq(Received)
BY ConcatProperties DEF TypeOK, RuntimeTypeOK

\* A step that changes nothing of a reader and at most ends its subscription.
LEMMA Keep ==
    ASSUME NEW r \in Readers, ReaderInv(r), TypeOK',
           UNCHANGED <<source[r], backlog[r], queue[r], got[r]>>,
           outcome'[r] = "fresh" => outcome[r] = "fresh" /\ pc'[r] = pc[r],
           pc'[r] \in {"replayed", "live"} => backlog[r] = <<>>,
           \A s \in StreamIds : r \in subscribers'[s] =>
              /\ r \in subscribers[s]
              /\ s \in open' => s \in open /\ produced'[s] = produced[s]
    PROVE  ReaderInv(r)'
<1>1. open' \subseteq StreamIds
  BY DEF TypeOK, RuntimeTypeOK
<1>2. \A s \in StreamIds : r \in subscribers'[s] => source'[r] = s
  BY DEF ReaderInv
<1>3. outcome'[r] = "fresh" =>
          /\ pc'[r] = "off" /\ backlog'[r] = <<>> /\ queue'[r] = <<>> /\ got'[r] = <<>>
          /\ \A s \in StreamIds : r \notin subscribers'[s]
  BY DEF ReaderInv
<1>4. InLine(got'[r], backlog'[r] \o queue'[r])
  BY DEF ReaderInv
<1>5. \A s \in open' : r \in subscribers'[s] =>
          UpTo(got'[r], backlog'[r] \o queue'[r], produced'[s])
  BY <1>1 DEF ReaderInv
<1> QED
  BY <1>2, <1>3, <1>4, <1>5 DEF ReaderInv

\* A step after which the reader is off and holds nothing.
LEMMA Drop ==
    ASSUME NEW r \in Readers, ReaderInv(r),
           NoGap(got'[r]), backlog'[r] = <<>>, queue'[r] = <<>>,
           pc'[r] = "off", outcome'[r] # "fresh", source'[r] = source[r],
           \A s \in StreamIds : r \in subscribers'[s] => r \in subscribers[s],
           TypeOK', \A s \in open' : r \notin subscribers'[s]
    PROVE  ReaderInv(r)'
<1>1. backlog'[r] \o queue'[r] = <<>>
  <2>1. <<>> \in Seq(Payload)
    BY EmptySeq
  <2>2. <<>> \o <<>> = <<>>
    BY <2>1, ConcatEmptySeq
  <2> QED
    BY <2>2
<1>2. InLine(got'[r], backlog'[r] \o queue'[r])
  BY <1>1, EmptyContinues
<1> QED
  BY <1>2 DEF ReaderInv

-----------------------------------------------------------------------------
(* Steps of producers and of time *)

LEMMA AppendStep ==
    ASSUME DeliveryInv, TypeOK', NEW s \in StreamIds, NEW kind \in Kinds,
           AppendEvent(s, kind), UNCHANGED readerVars, NEW r \in Readers
    PROVE  ReaderInv(r)'
<1> DEFINE p == [n |-> produced[s] + 1, seq |-> seq[s] + 1, kind |-> kind]
           old == backlog[r] \o queue[r]
           new == backlog'[r] \o queue'[r]
<1>0. ReaderInv(r) /\ TypeOK /\ s \in open /\ open' \subseteq open
  BY SurvivingSubset DEF DeliveryInv, AppendEvent
<1>1. UNCHANGED <<source[r], backlog[r], got[r], outcome[r], pc[r], subscribers>>
  BY DEF AppendEvent, readerVars
<1>2. produced' = [produced EXCEPT ![s] = produced[s] + 1] /\ produced \in [StreamIds -> Nat]
  BY <1>0 DEF AppendEvent, TypeOK, RuntimeTypeOK
<1>3. queue'[r] = IF r \in subscribers[s] THEN Append(queue[r], p) ELSE queue[r]
  BY DEF AppendEvent, Receives
<1>4. CASE r \notin subscribers[s]
  <2>1. \A t \in StreamIds : r \in subscribers[t] => produced'[t] = produced[t]
    BY <1>2, <1>4
  <2> QED
    BY <1>0, <1>1, <1>3, <1>4, <2>1, Keep DEF ReaderInv
<1>5. CASE r \in subscribers[s]
  <2>1. p \in Payload /\ p.n = produced[s] + 1 /\ produced[s] \in Nat
    BY <1>0, EventType DEF TypeOK, RuntimeTypeOK
  <2> HIDE DEF p
  <2>2. /\ backlog[r] \in Seq(Payload) /\ queue[r] \in Seq(Payload)
        /\ old \in Seq(Payload) /\ got[r] \in Seq(Received)
    BY <1>0, PendingType
  <2>3. old = backlog[r] \o queue[r] /\ new = backlog[r] \o Append(queue[r], p)
    BY <1>1, <1>3, <1>5
  <2> HIDE DEF old, new
  <2>4. Pushed(old, new, p)
    BY <2>1, <2>2, <2>3, ConcatAppend
  <2>5. InLine(got[r], old) /\ UpTo(got[r], old, produced[s])
    BY <1>0, <1>5 DEF ReaderInv, old
  <2>6. InLine(got[r], new) /\ UpTo(got[r], new, produced[s] + 1)
    BY <2>1, <2>2, <2>4, <2>5, PushLine DEF Pushed
  <2>7. \A t \in open' : r \in subscribers'[t] => t = s
    BY <1>0, <1>1, <1>5 DEF ReaderInv, TypeOK, RuntimeTypeOK
  <2>8. outcome[r] # "fresh"
    BY <1>0, <1>5 DEF ReaderInv
  <2> QED
    BY <1>0, <1>1, <1>2, <2>6, <2>7, <2>8 DEF ReaderInv, new
<1> QED
  BY <1>4, <1>5

LEMMA OpenStreamStep ==
    ASSUME DeliveryInv, TypeOK', NEW s \in StreamIds, NEW r \in Readers, ReaderInv(r),
           NEW readers \in SUBSET Readers, r \notin readers,
           ReuseStream(s) \/ AddStream(s, readers), UNCHANGED produced,
           UNCHANGED <<source[r], backlog[r], queue[r], got[r], outcome[r], pc[r]>>
    PROVE  ReaderInv(r)'
<1>1. subscribers \in [StreamIds -> SUBSET Readers] /\ open \subseteq StreamIds
  BY DEF DeliveryInv, TypeOK, RuntimeTypeOK
<1>2. ASSUME NEW t \in StreamIds, r \in subscribers'[t]
      PROVE  /\ r \in subscribers[t]
             /\ t \in open' => t \in open /\ produced'[t] = produced[t]
  <2>1. CASE ReuseStream(s)
    BY <1>1, <1>2, <2>1, SurvivingSubset DEF ReuseStream
  <2>2. CASE AddStream(s, readers)
    BY <1>1, <1>2, <2>2, SurvivingSubset DEF AddStream, MakeRoom, OldestCompleted
  <2> QED
    BY <2>1, <2>2
<1>3. pc'[r] \in {"replayed", "live"} => backlog[r] = <<>>
  BY DEF ReaderInv
<1> QED
  BY <1>2, <1>3, Keep

\* Steps in which the registry only shrinks.
LEMMA QuietStep ==
    ASSUME DeliveryInv, TypeOK', NEW r \in Readers,
           open' \subseteq open, UNCHANGED <<subscribers, produced, queue, readerVars>>
    PROVE  ReaderInv(r)'
<1>1. ReaderInv(r)
  BY DEF DeliveryInv
<1>2. UNCHANGED <<source[r], backlog[r], queue[r], got[r], outcome[r], pc[r]>>
  BY DEF readerVars
<1>3. pc'[r] \in {"replayed", "live"} => backlog[r] = <<>>
  BY <1>1, <1>2 DEF ReaderInv
<1> QED
  BY <1>1, <1>2, <1>3, Keep

LEMMA ProducerReaders ==
    ASSUME DeliveryInv, TypeOK', NEW s \in StreamIds, OpenRunStream(s) \/ ProducerStep(s),
           NEW r \in Readers
    PROVE  ReaderInv(r)'
<1>1. CASE OpenRunStream(s)
  <2>1. UNCHANGED <<source[r], backlog[r], queue[r], got[r], outcome[r], pc[r], produced>>
    BY <1>1 DEF OpenRunStream, CreateStream, readerVars
  <2>2. ReuseStream(s) \/ AddStream(s, {})
    BY <1>1 DEF OpenRunStream, CreateStream
  <2>3. ReaderInv(r)
    BY DEF DeliveryInv
  <2> QED
    BY <2>1, <2>2, <2>3, OpenStreamStep
<1>2. CASE LoseStream(s)
  BY <1>2, SurvivingSubset, QuietStep DEF LoseStream, Lookup
<1>3. ASSUME NEW from, NEW kind \in Kinds, NEW to, Produce(s, from, kind, to)
      PROVE  ReaderInv(r)'
  BY <1>3, AppendStep DEF Produce
<1> QED
  BY <1>1, <1>2, <1>3
     DEF ProducerStep, EmitStarted, EmitData, EmitUnmapped, EmitFailure, EmitEnded, Kinds

-----------------------------------------------------------------------------
(* Steps of a reader, as they bear on the other readers *)

LEMMA OthersKeep ==
    ASSUME DeliveryInv, TypeOK', NEW r \in Readers, NEW q \in Readers, q # r,
           open' \subseteq open, UNCHANGED produced,
           queue'[q] = queue[q],
           \A s \in StreamIds : q \in subscribers'[s] => q \in subscribers[s],
           UNCHANGED <<source[q], backlog[q], got[q], outcome[q], pc[q]>>
    PROVE  ReaderInv(q)'
<1>1. ReaderInv(q)
  BY DEF DeliveryInv
<1>2. pc'[q] \in {"replayed", "live"} => backlog[q] = <<>>
  BY <1>1 DEF ReaderInv
<1> QED
  BY <1>1, <1>2, Keep

\* The method calls of r leave the queues and subscriptions of others alone.
LEMMA CallKeepsOthers ==
    ASSUME TypeOK, NEW r \in Readers, NEW q \in Readers, q # r, NEW s,
           \/ Subscribe(s, r) \/ Unsubscribe(s, r) \/ TakeSeq(s) \/ Lookup
           \/ StreamVanished(r) \/ UNCHANGED runtimeVars
           \/ (/\ queue' = [queue EXCEPT ![r] = Tail(@)]
               /\ UNCHANGED <<open, done, seq, events, subscribers, idle, produced>>)
    PROVE  /\ open' \subseteq open /\ UNCHANGED produced
           /\ queue'[q] = queue[q]
           /\ \A t \in StreamIds : q \in subscribers'[t] <=> q \in subscribers[t]
<1>1. /\ queue \in [Readers -> Seq(Payload)]
      /\ subscribers \in [StreamIds -> SUBSET Readers]
  BY DEF TypeOK, RuntimeTypeOK
<1>2. CASE Subscribe(s, r)
  BY <1>1, <1>2, SurvivingSubset DEF Subscribe
<1>3. CASE Unsubscribe(s, r)
  BY <1>1, <1>3, SurvivingSubset DEF Unsubscribe
<1>4. CASE TakeSeq(s) \/ Lookup \/ UNCHANGED runtimeVars
  BY <1>4, SurvivingSubset DEF TakeSeq, Lookup, runtimeVars
<1>5. CASE StreamVanished(r)
  BY <1>1, <1>5, SurvivingSubset DEF StreamVanished
<1> QED
  BY <1>1, <1>2, <1>3, <1>4, <1>5

\* Every action of r changes the reader's variables at r only.
LEMMA ReaderStepLocal ==
    ASSUME DeliveryInv, NEW r \in Readers, NEW q \in Readers, q # r,
           \/ \E s \in StreamIds : OpenRun(r, s)
           \/ Resume(r) \/ GeneratorStep(r) \/ Disconnect(r)
    PROVE  /\ open' \subseteq open /\ UNCHANGED produced
           /\ UNCHANGED <<source[q], backlog[q], got[q], outcome[q], pc[q], queue[q]>>
           /\ \A t \in StreamIds : q \in subscribers'[t] <=> q \in subscribers[t]
<1>0. TypeOK
  BY DEF DeliveryInv
<1>1. \E s : \/ Subscribe(s, r) \/ Unsubscribe(s, r) \/ TakeSeq(s) \/ Lookup
             \/ StreamVanished(r) \/ UNCHANGED runtimeVars
             \/ (/\ queue' = [queue EXCEPT ![r] = Tail(@)]
                 /\ UNCHANGED <<open, done, seq, events, subscribers, idle, produced>>)
  BY DEF OpenRun, Refuse, Resume, GeneratorStep, BeginResume, Announce, YieldReplay,
         FinishReplay, AfterReplay, YieldLive, Close, Disconnect, Leave
<1>2. /\ source' = source \/ \E x : source' = [source EXCEPT ![r] = x]
      /\ backlog' = backlog \/ \E x : backlog' = [backlog EXCEPT ![r] = x]
      /\ got' = got \/ \E x : got' = [got EXCEPT ![r] = x]
      /\ outcome' = outcome \/ \E x : outcome' = [outcome EXCEPT ![r] = x]
      /\ pc' = pc \/ \E x : pc' = [pc EXCEPT ![r] = x]
  BY DEF OpenRun, Refuse, Resume, GeneratorStep, BeginResume, Announce, StreamVanished,
         YieldReplay, FinishReplay, AfterReplay, YieldLive, Close, Disconnect, Leave, Deliver
<1>3. UNCHANGED <<source[q], backlog[q], got[q], outcome[q], pc[q]>>
  BY <1>0, <1>2 DEF TypeOK
<1> QED
  BY <1>0, <1>1, <1>3, CallKeepsOthers

LEMMA ReaderStepOthers ==
    ASSUME DeliveryInv, TypeOK', NEW r \in Readers, NEW q \in Readers, q # r,
           \/ \E s \in StreamIds : OpenRun(r, s)
           \/ Resume(r) \/ GeneratorStep(r) \/ Disconnect(r)
    PROVE  ReaderInv(q)'
BY ReaderStepLocal, OthersKeep

-----------------------------------------------------------------------------
(* Steps of a reader, as they bear on itself *)

\* A response ends: nothing is pending and the subscription is gone.
LEMMA LeaveSelf ==
    ASSUME DeliveryInv, TypeOK', NEW r \in Readers, NEW why, why # "fresh", Leave(r, why),
           NoGap(got'[r])
    PROVE  ReaderInv(r)'
<1>1. TypeOK /\ ReaderInv(r)
  BY DEF DeliveryInv
<1>2. /\ backlog'[r] = <<>> /\ queue'[r] = <<>> /\ pc'[r] = "off"
      /\ outcome'[r] = why /\ source' = source
  BY <1>1 DEF Leave, Unsubscribe, TypeOK, RuntimeTypeOK
<1>3. \A s \in StreamIds : r \in subscribers'[s] => r \in subscribers[s]
  <2>1. subscribers \in [StreamIds -> SUBSET Readers]
    BY <1>1 DEF TypeOK, RuntimeTypeOK
  <2>2. \/ subscribers' = subscribers
        \/ subscribers' = [subscribers EXCEPT ![source[r]] = subscribers[source[r]] \ {r}]
    BY DEF Leave, Unsubscribe
  <2> QED
    BY <2>1, <2>2
<1>4. ASSUME NEW s \in open', r \in subscribers'[s]
      PROVE  FALSE
  <2>1. s \in StreamIds
    BY DEF TypeOK, RuntimeTypeOK
  <2>2. source[r] = s
    BY <1>1, <1>3, <1>4, <2>1 DEF ReaderInv
  <2> QED
    BY <1>1, <1>4, <2>1, <2>2, SurvivingSubset DEF Leave, Unsubscribe, TypeOK, RuntimeTypeOK
<1> QED
  BY <1>1, <1>2, <1>3, <1>4, Drop

LEMMA VanishedSelf ==
    ASSUME DeliveryInv, TypeOK', NEW r \in Readers, StreamVanished(r)
    PROVE  ReaderInv(r)'
<1>1. TypeOK /\ ReaderInv(r)
  BY DEF DeliveryInv
<1>2. /\ backlog'[r] = <<>> /\ queue'[r] = <<>> /\ pc'[r] = "off"
      /\ outcome'[r] # "fresh" /\ UNCHANGED <<source, subscribers, got>>
      /\ open' = Surviving /\ source[r] \notin Surviving
  BY <1>1 DEF StreamVanished, TypeOK, RuntimeTypeOK
<1>3. NoGap(got'[r])
  BY <1>1, <1>2 DEF ReaderInv, InLine
<1>4. \A s \in open' : r \notin subscribers'[s]
  BY <1>1, <1>2, SurvivingSubset DEF ReaderInv, TypeOK, RuntimeTypeOK
<1> QED
  BY <1>1, <1>2, <1>3, <1>4, Drop

\* A step that hands the client one event, pending or of the transport.
LEMMA ReceiveSelf ==
    ASSUME DeliveryInv, TypeOK', NEW r \in Readers, outcome'[r] # "fresh",
           open' \subseteq open, UNCHANGED <<source[r], subscribers, produced>>,
           pc'[r] \in {"replayed", "live"} => backlog'[r] = <<>>,
           InLine(got'[r], backlog'[r] \o queue'[r]),
           \A h \in Nat : UpTo(got[r], backlog[r] \o queue[r], h)
                            => UpTo(got'[r], backlog'[r] \o queue'[r], h)
    PROVE  ReaderInv(r)'
<1>1. TypeOK /\ ReaderInv(r)
  BY DEF DeliveryInv
<1>2. \A s \in open' : s \in open /\ produced[s] \in Nat
  BY <1>1 DEF TypeOK, RuntimeTypeOK
<1> QED
  BY <1>1, <1>2 DEF ReaderInv

LEMMA OpenRunSelf ==
    ASSUME DeliveryInv, TypeOK', NEW r \in Readers, NEW s \in StreamIds, OpenRun(r, s)
    PROVE  ReaderInv(r)'
<1>1. TypeOK /\ ReaderInv(r) /\ WindowIsTail /\ Numbered
  BY DEF DeliveryInv
<1>2. /\ backlog[r] = <<>> /\ queue[r] = <<>> /\ got[r] = <<>>
      /\ \A t \in StreamIds : r \notin subscribers[t]
  BY <1>1 DEF OpenRun, ReaderInv
<1>3. CASE Refuse(r) /\ UNCHANGED retries
  <2>1. /\ UNCHANGED <<source[r], backlog[r], got[r], pc[r], subscribers, produced, queue>>
        /\ open' \subseteq open /\ outcome'[r] # "fresh"
    BY <1>1, <1>3, SurvivingSubset DEF Refuse, Lookup, TypeOK
  <2> QED
    BY <1>1, <1>2, <2>1, Keep
<1>4. CASE /\ Lookup
           /\ got' = [got EXCEPT ![r] = Synthetic]
           /\ outcome' = [outcome EXCEPT ![r] = "returned"]
           /\ UNCHANGED <<producerVars, pc, source, backlog, since, retries>>
  <2>1. got'[r] = Synthetic /\ outcome'[r] = "returned"
    BY <1>1, <1>4 DEF TypeOK
  <2>2. \A i \in 1..Len(Synthetic) : Synthetic[i].n = 0
    BY DEF Synthetic
  <2>3. \A h : NoGap(Synthetic) /\ InLine(Synthetic, <<>>)
    BY <2>2 DEF NoGap, InLine, Continues
  <2>4. backlog'[r] \o queue'[r] = <<>>
    BY <1>2, <1>4, EmptySeq, ConcatEmptySeq DEF Lookup
  <2>5. UNCHANGED <<subscribers, source, pc, backlog>>
    BY <1>4 DEF Lookup
  <2>6. \A t \in open' : t \in StreamIds
    BY DEF TypeOK, RuntimeTypeOK
  <2> QED
    BY <1>1, <1>2, <2>1, <2>3, <2>4, <2>5, <2>6 DEF ReaderInv
<1>5. CASE /\ Subscribe(s, r)
           /\ backlog' = [backlog EXCEPT ![r] = events[s]]
           /\ pc' = [pc EXCEPT ![r] = "replay"]
           /\ source' = [source EXCEPT ![r] = s]
           /\ outcome' = [outcome EXCEPT ![r] = "streaming"]
           /\ UNCHANGED <<producerVars, got, since, retries>>
  <2>1. s \in open /\ events[s] \in Seq(Payload) /\ produced[s] \in Nat
    BY <1>1, <1>5, SurvivingSubset DEF Subscribe, TypeOK, RuntimeTypeOK
  <2>2. /\ backlog'[r] = events[s] /\ queue'[r] = <<>> /\ pc'[r] = "replay"
        /\ source'[r] = s /\ outcome'[r] = "streaming" /\ UNCHANGED <<got, produced>>
    BY <1>1, <1>5 DEF Subscribe, TypeOK, RuntimeTypeOK
  <2>3. backlog'[r] \o queue'[r] = events[s]
    BY <2>1, <2>2, ConcatEmptySeq
  <2>4. InLine(got[r], events[s]) /\ UpTo(got[r], events[s], produced[s])
    <3>1. /\ Len(events[s]) \in Nat /\ Len(events[s]) <= produced[s]
          /\ \A j \in 1..Len(events[s]) : events[s][j].n = produced[s] - Len(events[s]) + j
      BY <1>1, <2>1, LenProperties DEF Numbered, WindowIsTail
    <3>2. got[r] \in Seq(Received) /\ Len(got[r]) = 0 /\ NoGap(got[r])
      BY <1>1, <1>2, EmptySeq DEF TypeOK, ReaderInv, InLine
    <3>3. 0 \in 0..Len(events[s]) /\ Len(events[s]) = Len(events[s]) - 0
      BY <3>1
    <3>4. \A j \in 1..Len(events[s]) : events[s][j] = events[s][0 + j]
      BY <3>1
    <3> QED
      BY <2>1, <3>1, <3>2, <3>3, <3>4, StartLine
  <2>5. \A t \in StreamIds : r \in subscribers'[t] => t = s
    BY <1>1, <1>2, <1>5 DEF Subscribe, TypeOK, RuntimeTypeOK
  <2>6. \A t \in open' : t \in StreamIds
    BY DEF TypeOK, RuntimeTypeOK
  <2> QED
    BY <2>2, <2>3, <2>4, <2>5, <2>6 DEF ReaderInv
<1> QED
  BY <1>3, <1>4, <1>5 DEF OpenRun

\* A new chat stream: nothing is received, pending or in the window.
LEMMA OpenChatReaders ==
    ASSUME DeliveryInv, TypeOK', NEW r \in Readers, NEW s \in StreamIds, OpenChat(r, s),
           NEW q \in Readers
    PROVE  ReaderInv(q)'
<1>1. TypeOK /\ ReaderInv(r) /\ ReaderInv(q)
  BY DEF DeliveryInv
<1>2. /\ backlog[r] = <<>> /\ queue[r] = <<>> /\ got[r] = <<>>
      /\ \A t \in StreamIds : r \notin subscribers[t]
  BY <1>1 DEF OpenChat, ReaderInv
<1>3. CASE Refuse(r)
  <2>1. /\ UNCHANGED <<source[q], backlog[q], got[q], pc[q], subscribers, produced, queue>>
        /\ open' \subseteq open
        /\ outcome'[q] = "fresh" => outcome[q] = "fresh"
    BY <1>1, <1>3, SurvivingSubset DEF Refuse, Lookup, TypeOK
  <2>2. pc'[q] \in {"replayed", "live"} => backlog[q] = <<>>
    BY <1>1, <2>1 DEF ReaderInv
  <2> QED
    BY <1>1, <2>1, <2>2, Keep
<1>4. CASE /\ AddStream(s, {r})
           /\ pc' = [pc EXCEPT ![r] = "live"]
           /\ source' = [source EXCEPT ![r] = s]
           /\ outcome' = [outcome EXCEPT ![r] = "streaming"]
           /\ UNCHANGED <<queue, produced, backlog, got, since, retries>>
  <2>1. CASE q # r
    <3>1. UNCHANGED <<source[q], backlog[q], queue[q], got[q], outcome[q], pc[q]>>
      BY <1>1, <1>4, <2>1 DEF TypeOK
    <3>2. {r} \in SUBSET Readers /\ q \notin {r} /\ UNCHANGED produced
      BY <1>4, <2>1
    <3> QED
      BY <1>1, <1>4, <3>1, <3>2, OpenStreamStep
  <2>2. CASE q = r
    <3>1. /\ pc'[r] = "live" /\ source'[r] = s /\ outcome'[r] = "streaming"
          /\ UNCHANGED <<backlog, queue, got>>
      BY <1>1, <1>4 DEF TypeOK
    <3>2. backlog'[r] \o queue'[r] = <<>> /\ Len(<<>>) = 0
      BY <1>2, <3>1, EmptySeq, ConcatEmptySeq
    <3>3. InLine(<<>>, <<>>) /\ \A h : UpTo(<<>>, <<>>, h)
      BY DEF InLine, NoGap, Continues, UpTo
    <3>4. \A t \in StreamIds : r \in subscribers'[t] => t = s
      BY <1>1, <1>2, <1>4 DEF AddStream, TypeOK, RuntimeTypeOK
    <3>5. \A t \in open' : t \in StreamIds
      BY DEF TypeOK, RuntimeTypeOK
    <3> QED
      BY <1>2, <2>2, <3>1, <3>2, <3>3, <3>4, <3>5 DEF ReaderInv
  <2> QED
    BY <2>1, <2>2
<1> QED
  BY <1>3, <1>4 DEF OpenChat

\* resume_subscribe found the cursor: what it replays follows the last event
\* that the client received.
LEMMA ResumeSelf ==
    ASSUME DeliveryInv, TypeOK', NEW r \in Readers, Resume(r)
    PROVE  ReaderInv(r)'
<1> DEFINE s == source[r]
           cursor == got[r][Len(got[r])].n
           w == events[s]
           i == CHOOSE j \in CursorIndex(s, cursor) : TRUE
           p == Replay(s, cursor)
<1>1. TypeOK /\ ReaderInv(r) /\ WindowIsTail /\ Numbered
  BY DEF DeliveryInv
<1>2. CASE ~(s \in Surviving /\ CursorIndex(s, cursor) # {})
  <2>1. Refuse(r)
    BY <1>2 DEF Resume
  <2>2. /\ UNCHANGED <<source[r], backlog[r], got[r], pc[r], subscribers, produced, queue>>
        /\ open' \subseteq open /\ outcome'[r] # "fresh"
    BY <1>1, <2>1, SurvivingSubset DEF Refuse, Lookup, TypeOK
  <2>3. pc'[r] \in {"replayed", "live"} => backlog[r] = <<>>
    BY <1>1, <2>2 DEF ReaderInv
  <2> QED
    BY <1>1, <2>2, <2>3, Keep
<1>3. CASE s \in Surviving /\ CursorIndex(s, cursor) # {}
  <2>1. s \in open /\ s \in StreamIds /\ w \in Seq(Payload) /\ produced[s] \in Nat
    BY <1>1, <1>3, SurvivingSubset DEF TypeOK, RuntimeTypeOK
  <2>2. /\ Len(w) \in Nat /\ Len(w) <= produced[s]
        /\ \A j \in 1..Len(w) : w[j].n = produced[s] - Len(w) + j
    BY <1>1, <2>1, LenProperties DEF Numbered, WindowIsTail
  <2>3. i \in 1..Len(w) /\ w[i].n = cursor
    BY <1>3 DEF CursorIndex
  <2>4. p = SubSeq(w, i + 1, Len(w))
    BY DEF Replay
  <2>5. p \in Seq(Payload)
    BY <1>1, <1>3, <2>1, ReplayType DEF TypeOK
  <2>6. /\ Subscribe(s, r)
        /\ backlog' = [backlog EXCEPT ![r] = p]
        /\ pc' = [pc EXCEPT ![r] = "resume"]
        /\ outcome' = [outcome EXCEPT ![r] = "streaming"]
        /\ UNCHANGED <<source, got>>
        /\ got[r] # <<>>
    BY <1>3 DEF Resume
  <2> HIDE DEF i, p
  <2>7. Len(p) = Len(w) - i /\ \A j \in 1..Len(p) : p[j] = w[i + j]
    <3>1. \A j \in (i + 1)..Len(w) : j \in 1..Len(w)
      BY <2>2, <2>3
    <3>2. \A j \in (i + 1)..Len(w) : w[j] \in Payload
      BY <2>1, <3>1, ElementOfSeq
    <3>3. /\ Len(p) = IF i + 1 <= Len(w) THEN Len(w) - (i + 1) + 1 ELSE 0
          /\ \A j \in 1..(Len(w) - (i + 1) + 1) : p[j] = w[(i + 1) + j - 1]
      BY <2>2, <2>3, <2>4, <3>2, SubSeqProperties
    <3>4. Len(p) = Len(w) - i
      BY <2>2, <2>3, <3>3
    <3>5. \A j \in 1..Len(p) : (i + 1) + j - 1 = i + j
      BY <2>2, <2>3
    <3> QED
      BY <2>2, <2>3, <3>3, <3>4, <3>5
  <2>8. got[r] \in Seq(Received) /\ Len(got[r]) > 0 /\ NoGap(got[r])
    BY <1>1, <2>6, EmptySeq DEF TypeOK, ReaderInv, InLine
  <2>9. InLine(got[r], p) /\ UpTo(got[r], p, produced[s])
    <3>1. i \in 0..Len(w) /\ i > 0 /\ got[r][Len(got[r])].n = w[i].n
      BY <2>2, <2>3
    <3> QED
      BY <2>1, <2>2, <2>5, <2>7, <2>8, <3>1, StartLine
  <2>10. /\ backlog'[r] = p /\ queue'[r] = <<>> /\ pc'[r] = "resume"
         /\ outcome'[r] = "streaming" /\ UNCHANGED <<produced, source, got>>
    BY <1>1, <2>6 DEF Subscribe, TypeOK, RuntimeTypeOK
  <2>11. backlog'[r] \o queue'[r] = p
    BY <2>5, <2>10, ConcatEmptySeq
  <2>12. \A t \in StreamIds : r \in subscribers'[t] => t = s
    BY <1>1, <2>6 DEF Subscribe, ReaderInv, TypeOK, RuntimeTypeOK
  <2>13. \A t \in open' : t \in StreamIds
    BY DEF TypeOK, RuntimeTypeOK
  <2> HIDE DEF s
  <2> QED
    BY <2>9, <2>10, <2>11, <2>12, <2>13 DEF ReaderInv, s
<1> QED
  BY <1>2, <1>3

LEMMA AnnounceSelf ==
    ASSUME DeliveryInv, TypeOK', NEW r \in Readers, outcome[r] # "fresh",
           NEW kind \in TransportKinds, NEW next, next = "replayed" => backlog[r] = <<>>,
           next \in {"replay", "replayed"}, Announce(r, kind, next)
    PROVE  ReaderInv(r)'
<1> DEFINE s == source[r]
           t == [n |-> 0, seq |-> seq[s] + 1, kind |-> kind]
<1>1. TypeOK /\ ReaderInv(r)
  BY DEF DeliveryInv
<1>2. CASE /\ TakeSeq(s)
           /\ Deliver(r, t)
           /\ pc' = [pc EXCEPT ![r] = next]
           /\ UNCHANGED <<producerVars, source, backlog, since, retries, outcome>>
  <2>1. s \in StreamIds
    BY <1>1, <1>2, SurvivingSubset DEF TakeSeq, TypeOK, RuntimeTypeOK
  <2>2. t \in Received /\ t.n = 0
    BY <1>1, <2>1, ReceivedTypes DEF TypeOK
  <2> HIDE DEF t
  <2>3. /\ got'[r] = Append(got[r], t) /\ pc'[r] = next
        /\ open' \subseteq open /\ UNCHANGED <<source, backlog, queue, outcome, subscribers, produced>>
    BY <1>1, <1>2, SurvivingSubset DEF Deliver, TakeSeq, TypeOK
  <2>4. InLine(got[r], backlog[r] \o queue[r])
    BY <1>1 DEF ReaderInv
  <2>5. /\ InLine(Append(got[r], t), backlog[r] \o queue[r])
        /\ \A h \in Nat : UpTo(got[r], backlog[r] \o queue[r], h)
                            => UpTo(Append(got[r], t), backlog[r] \o queue[r], h)
    BY <1>1, <2>2, <2>4, PendingType, NoteLine
  <2> QED
    BY <2>3, <2>5, ReceiveSelf
<1> QED
  BY <1>2, VanishedSelf DEF Announce

LEMMA YieldReplaySelf ==
    ASSUME DeliveryInv, TypeOK', NEW r \in Readers, YieldReplay(r)
    PROVE  ReaderInv(r)'
<1> DEFINE old == backlog[r] \o queue[r]
           new == Tail(backlog[r]) \o queue[r]
<1>1. TypeOK /\ ReaderInv(r)
  BY DEF DeliveryInv
<1>2. /\ backlog[r] \in Seq(Payload) /\ queue[r] \in Seq(Payload) /\ backlog[r] # <<>>
      /\ old \in Seq(Payload) /\ got[r] \in Seq(Received)
  BY <1>1, PendingType DEF YieldReplay
<1>3. Taken(old, new) /\ Head(backlog[r]) = old[1]
  BY <1>2, ConcatTail
<1>4. /\ got'[r] = Append(got[r], Head(backlog[r])) /\ backlog'[r] = Tail(backlog[r])
      /\ UNCHANGED <<open, source, queue, outcome, subscribers, produced>>
      /\ pc'[r] \in {"closing", "replay"}
  BY <1>1 DEF YieldReplay, Deliver, After, runtimeVars, TypeOK
<1>5. outcome[r] # "fresh"
  BY <1>1, <1>2 DEF ReaderInv
<1>6. InLine(got[r], old)
  BY <1>1 DEF ReaderInv
<1>7. backlog'[r] \o queue'[r] = new
  BY <1>4
<1> HIDE DEF old, new
<1>8. /\ InLine(got'[r], new)
      /\ \A h \in Nat : UpTo(got[r], old, h) => UpTo(got'[r], new, h)
  BY <1>2, <1>3, <1>4, <1>6, TakeLine DEF Taken
<1> QED
  BY <1>4, <1>5, <1>7, <1>8, ReceiveSelf DEF old

LEMMA YieldLiveSelf ==
    ASSUME DeliveryInv, TypeOK', NEW r \in Readers, YieldLive(r)
    PROVE  ReaderInv(r)'
<1> DEFINE old == queue[r]
           new == Tail(queue[r])
<1>1. TypeOK /\ ReaderInv(r)
  BY DEF DeliveryInv
<1>2. old \in Seq(Payload) /\ queue[r] # <<>> /\ got[r] \in Seq(Received)
  BY <1>1, PendingType DEF YieldLive
<1>3. Taken(old, new) /\ Head(queue[r]) = old[1]
  <2>1. /\ new \in Seq(Payload) /\ Len(new) = Len(old) - 1
        /\ \A i \in 1..Len(new) : new[i] = old[i+1]
        /\ Head(old) = old[1]
    BY <1>2, HeadTailProperties
  <2>2. Len(old) \in Nat
    BY <1>2, LenProperties
  <2> QED
    BY <2>1, <2>2 DEF Taken
<1>4. /\ got'[r] = Append(got[r], Head(queue[r])) /\ queue'[r] = Tail(queue[r])
      /\ UNCHANGED <<open, source, backlog, outcome, subscribers, produced>>
      /\ backlog[r] = <<>>
  BY <1>1 DEF YieldLive, Deliver, ReaderInv, TypeOK, RuntimeTypeOK
<1>5. outcome[r] # "fresh"
  BY <1>1, <1>2 DEF ReaderInv
<1>6. backlog[r] \o queue[r] = old /\ backlog'[r] \o queue'[r] = new
  BY <1>2, <1>3, <1>4, ConcatEmptySeq DEF Taken
<1>7. InLine(got[r], old)
  BY <1>1, <1>6 DEF ReaderInv
<1> HIDE DEF old, new
<1>8. /\ InLine(got'[r], new)
      /\ \A h \in Nat : UpTo(got[r], old, h) => UpTo(got'[r], new, h)
  BY <1>2, <1>3, <1>4, <1>7, TakeLine DEF Taken
<1> QED
  BY <1>4, <1>5, <1>6, <1>8, ReceiveSelf

\* A generator that runs has begun.
LEMMA NotFresh ==
    ASSUME DeliveryInv, NEW r \in Readers, pc[r] # "off"
    PROVE  outcome[r] # "fresh"
BY DEF DeliveryInv, ReaderInv

LEMMA GoLiveSelf ==
    ASSUME DeliveryInv, TypeOK', NEW r \in Readers, pc[r] # "off", backlog[r] = <<>>,
           Lookup \/ UNCHANGED runtimeVars, pc' = [pc EXCEPT ![r] = "live"],
           UNCHANGED <<source, backlog, got, outcome>>
    PROVE  ReaderInv(r)'
<1>1. ReaderInv(r) /\ outcome[r] # "fresh"
  BY NotFresh DEF DeliveryInv
<1>2. open' \subseteq open /\ UNCHANGED <<subscribers, produced, queue>>
  BY SurvivingSubset DEF Lookup, runtimeVars
<1> QED
  BY <1>1, <1>2, Keep

LEMMA GeneratorSelf ==
    ASSUME DeliveryInv, TypeOK', NEW r \in Readers, GeneratorStep(r)
    PROVE  ReaderInv(r)'
<1>1. TypeOK /\ ReaderInv(r) /\ NoGap(got[r])
  BY DEF DeliveryInv, ReaderInv, InLine
<1>2. CASE BeginResume(r)
  <2>1. outcome[r] # "fresh" /\ "resume_started" \in TransportKinds
    BY <1>2, NotFresh DEF BeginResume, TransportKinds
  <2> QED
    BY <1>2, <2>1, AnnounceSelf DEF BeginResume
<1>3. CASE FinishReplay(r)
  <2>1. outcome[r] # "fresh" /\ "replay_finished" \in TransportKinds /\ backlog[r] = <<>>
        /\ pc[r] # "off"
    BY <1>3, NotFresh DEF FinishReplay, TransportKinds
  <2>2. CASE Announce(r, "replay_finished", "replayed")
    BY <2>1, <2>2, AnnounceSelf
  <2>3. CASE Leave(r, "returned") /\ UNCHANGED got
    BY <1>1, <2>3, LeaveSelf
  <2>4. CASE /\ pc' = [pc EXCEPT ![r] = "live"]
             /\ UNCHANGED <<runtimeVars, producerVars, source, backlog,
                            got, since, retries, outcome>>
    BY <2>1, <2>4, GoLiveSelf
  <2> QED
    BY <1>3, <2>2, <2>3, <2>4 DEF FinishReplay
<1>4. CASE AfterReplay(r)
  <2>1. backlog[r] = <<>> /\ pc[r] # "off"
    BY <1>1, <1>4 DEF AfterReplay, ReaderInv
  <2>2. CASE Leave(r, "returned") /\ UNCHANGED got
    BY <1>1, <2>2, LeaveSelf
  <2>3. CASE /\ Lookup \/ UNCHANGED runtimeVars
             /\ pc' = [pc EXCEPT ![r] = "live"]
             /\ UNCHANGED <<producerVars, source, backlog, got, since, retries, outcome>>
    BY <2>1, <2>3, GoLiveSelf
  <2> QED
    BY <1>4, <2>2, <2>3, VanishedSelf DEF AfterReplay
<1>5. CASE Close(r)
  BY <1>1, <1>5, LeaveSelf DEF Close
<1> QED
  BY <1>2, <1>3, <1>4, <1>5, YieldReplaySelf, YieldLiveSelf DEF GeneratorStep

LEMMA DisconnectSelf ==
    ASSUME DeliveryInv, TypeOK', NEW r \in Readers, Disconnect(r)
    PROVE  ReaderInv(r)'
<1>1. /\ got \in [Readers -> Seq(Received)] /\ NoGap(got[r])
      /\ Len(got[r]) \in Nat /\ since[r] \in Nat
  BY LenProperties DEF DeliveryInv, ReaderInv, InLine, TypeOK
<1>2. PICK k \in since[r]..Len(got[r]) : got' = [got EXCEPT ![r] = SubSeq(got[r], 1, k)]
  BY DEF Disconnect
<1>3. k \in 0..Len(got[r]) /\ got'[r] = SubSeq(got[r], 1, k)
  BY <1>1, <1>2
<1>4. NoGap(got'[r])
  BY <1>1, <1>3, CutLine
<1> QED
  BY <1>4, LeaveSelf DEF Disconnect

-----------------------------------------------------------------------------
(* The theorems *)

LEMMA NumberedStep ==
    ASSUME TypeOK, Numbered, RuntimeStep, TypeOK'
    PROVE  Numbered'
<1>0. /\ RuntimeTypeOK /\ open \subseteq StreamIds /\ open' \subseteq StreamIds
      /\ \A s \in StreamIds : produced[s] \in Nat /\ events[s] \in Seq(Payload)
  BY DEF TypeOK, RuntimeTypeOK
<1>1. CASE open' \subseteq open /\ UNCHANGED <<events, produced>>
  BY <1>1 DEF Numbered
<1>2. ASSUME NEW s \in StreamIds, NEW kind \in Kinds, AppendEvent(s, kind)
      PROVE  Numbered'
  <2> DEFINE p == [n |-> produced[s] + 1, seq |-> seq[s] + 1, kind |-> kind]
  <2>1. p \in Payload
    BY <1>0, EventType
  <2>2. /\ s \in open /\ open' \subseteq open
        /\ events' = [events EXCEPT ![s] = PushWindow(events[s], p)]
        /\ produced' = [produced EXCEPT ![s] = produced[s] + 1]
    BY <1>2, SurvivingSubset DEF AppendEvent
  <2> HIDE DEF p
  <2>3. Len(PushWindow(events[s], p)) <= produced[s] + 1
    <3>1. Len(events[s]) <= produced[s] /\ Len(events[s]) \in Nat /\ produced[s] \in Nat
      BY <1>0, <2>2, LenProperties DEF Numbered
    <3>2. /\ Len(PushWindow(events[s], p)) \in Nat
          /\ Len(events[s]) + 1 - Len(PushWindow(events[s], p)) \in {0, 1}
      BY <1>0, <2>1, PushProperties
    <3> QED
      BY <3>1, <3>2
  <2> QED
    BY <1>0, <2>2, <2>3 DEF Numbered, RuntimeTypeOK
<1>3. ASSUME NEW s \in StreamIds, NEW readers \in SUBSET Readers, UNCHANGED produced,
             ReuseStream(s) \/ AddStream(s, readers)
      PROVE  Numbered'
  <2> SUFFICES ASSUME NEW t \in open'
               PROVE  Len(events'[t]) <= produced[t]
    BY <1>3 DEF Numbered
  <2>1. \/ events'[t] = <<>>
        \/ t \in open /\ events'[t] = events[t]
    BY <1>0, <1>3, SurvivingSubset
       DEF ReuseStream, AddStream, MakeRoom, OldestCompleted, RuntimeTypeOK
  <2>2. Len(<<>>) = 0 /\ produced[t] \in Nat
    BY <1>0, EmptySeq
  <2> QED
    BY <2>1, <2>2 DEF Numbered
<1>4. ASSUME NEW r \in Readers, ReaderCall(r)
      PROVE  open' \subseteq open /\ UNCHANGED <<events, produced>>
  BY <1>4, SurvivingSubset DEF ReaderCall, TakeFromQueue, DropQueue, Subscribe, Unsubscribe
<1>5. ASSUME NEW s \in StreamIds, StreamCall(s)
      PROVE  Numbered'
  <2>1. CASE TakeSeq(s)
    BY <1>1, <2>1, SurvivingSubset DEF TakeSeq
  <2> QED
    BY <1>2, <1>3, <1>5, <2>1 DEF StreamCall, CreateStream
<1>6. ASSUME Lookup \/ Tick \/ UNCHANGED runtimeVars
      PROVE  open' \subseteq open /\ UNCHANGED <<events, produced>>
  BY <1>6, SurvivingSubset DEF Lookup, Tick, runtimeVars
<1> QED
  BY <1>1, <1>4, <1>5, <1>6 DEF RuntimeStep

LEMMA DeliveryInvInit == Init => DeliveryInv
<1> SUFFICES ASSUME Init
             PROVE  DeliveryInv
  OBVIOUS
<1>1. TypeOK /\ WindowIsTail /\ Numbered
  BY InitType DEF Init, RuntimeInit, WindowIsTail, Numbered
<1>2. ASSUME NEW r \in Readers
      PROVE  ReaderInv(r)
  <2>1. /\ pc[r] = "off" /\ backlog[r] = <<>> /\ queue[r] = <<>> /\ got[r] = <<>>
        /\ open = {} /\ \A s \in StreamIds : r \notin subscribers[s]
    BY DEF Init, RuntimeInit
  <2>2. backlog[r] \o queue[r] = <<>>
    BY <1>1, <2>1, ConcatEmptySeq DEF TypeOK, RuntimeTypeOK
  <2>3. NoGap(got[r])
    BY <2>1, EmptySeq DEF NoGap
  <2> QED
    BY <2>1, <2>2, <2>3, EmptyContinues DEF ReaderInv
<1> QED
  BY <1>1, <1>2 DEF DeliveryInv

LEMMA DeliveryInvStep ==
    ASSUME DeliveryInv, [Next]_vars
    PROVE  DeliveryInv'
<1>1. TypeOK /\ WindowIsTail /\ Numbered /\ RuntimeStep
  BY NextIsRuntimeStep DEF DeliveryInv
<1>2. TypeOK' /\ WindowIsTail' /\ Numbered'
  BY <1>1, TypeStep, WindowIsTailStep, NumberedStep DEF TypeOK
<1>3. ASSUME NEW r \in Readers
      PROVE  ReaderInv(r)'
  <2>1. ASSUME NEW q \in Readers,
               (\E s \in StreamIds : OpenRun(q, s)) \/ Resume(q) \/ GeneratorStep(q) \/ Disconnect(q)
        PROVE  ReaderInv(r)'
    <3>1. CASE q = r
      BY <1>2, <2>1, <3>1, OpenRunSelf, ResumeSelf, GeneratorSelf, DisconnectSelf
    <3>2. CASE q # r
      BY <1>2, <2>1, <3>2, ReaderStepOthers
    <3> QED
      BY <3>1, <3>2
  <2>2. CASE Tick /\ UNCHANGED <<producerVars, readerVars>>
    BY <1>2, <2>2, QuietStep DEF Tick
  <2>3. CASE UNCHANGED vars
    BY <1>2, <2>3, QuietStep DEF vars, runtimeVars
  <2> QED
    BY <1>2, <2>1, <2>2, <2>3, ProducerReaders, OpenChatReaders DEF Next
<1> QED
  BY <1>2, <1>3 DEF DeliveryInv

LEMMA DeliveryInvariant == Spec => []DeliveryInv
<1> QED
  BY DeliveryInvInit, DeliveryInvStep, PTL DEF Spec

\* No event is skipped, repeated or swapped on its way to a client, whatever
\* the window, the number of reconnections and the moment of each.
THEOREM Contiguous == Spec => []ContiguousDelivery
<1>1. DeliveryInv => ContiguousDelivery
  BY DEF DeliveryInv, ReaderInv, InLine, NoGap, ContiguousDelivery
<1> QED
  BY <1>1, DeliveryInvariant, PTL

\* What a subscribed reader has yet to receive ends with the newest event of
\* its stream: snapshot and subscription leave no hole between them.
THEOREM PendingIsCurrent == Spec => []PendingReachesHead
<1>1. DeliveryInv => PendingReachesHead
  BY DEF DeliveryInv, ReaderInv, UpTo, PendingReachesHead, Pending, TypeOK, RuntimeTypeOK
<1> QED
  BY <1>1, DeliveryInvariant, PTL

-----------------------------------------------------------------------------
(* Completion reaches every reader *)

(***************************************************************************)
(* A completed stream has a terminal event, number t, that nobody has      *)
(* passed: what a client received before it is older, and a subscribed     *)
(* generator that still reads has it pending.  The number may have left    *)
(* the window, so the clients keep it, not the stream.                     *)
(***************************************************************************)

\* The states of a generator that has more to read.
Reading == {"resume", "replay", "replayed", "live"}

\* Whoever received g reads on only from before event t.
Stops(g, t) == \A k \in 1..Len(g) : ~IsTerminal(g[k]) => g[k].n < t

\* Event t, if it is in p, ends the stream.
EndsAt(p, t) == \A i \in 1..Len(p) : p[i].n = t => IsTerminal(p[i])

AtMost(p, h) == \A i \in 1..Len(p) : p[i].n <= h

\* What a reader of the completed stream s holds, of this completion or of
\* an earlier opening that was reset under it.
Owed(r, s, t) ==
    /\ Stops(got[r], t)
    /\ r \in subscribers[s] =>
          /\ EndsAt(Pending(r), t)
          /\ pc[r] \in Reading => produced[s] - Len(Pending(r)) < t
    /\ r \notin subscribers[s] => AtMost(Pending(r), t - 1)

\* A run appends nothing after its last terminal event: a late first response,
\* which replays the whole window, finds one there.
CompletedAt(s, t) ==
    /\ EndsAt(events[s], t)
    /\ s \in RunStreams => t = produced[s] /\ events[s] # <<>>
    /\ \A r \in Readers : source[r] = s => Owed(r, s, t)

Completed(s) ==
    s \in open /\ done[s] => \E t \in 1..produced[s] : CompletedAt(s, t)

\* The task of a run has nothing but stream_ended to append after an error.
RunEnds(s) ==
    s \in RunStreams /\ s \in open /\ done[s] => producer[s] \in {"closing", "finished"}

\* Nobody holds an event of its stream that was not produced yet.
Known(r) ==
    source[r] \in StreamIds =>
        AtMost(got[r], produced[source[r]]) /\ AtMost(Pending(r), produced[source[r]])

CompletionInv ==
    /\ DeliveryInv
    /\ \A s \in StreamIds : Completed(s) /\ RunEnds(s)
    /\ \A r \in Readers : Known(r)

(* What a step can do to a reader *)

\* The subscriptions of r to completed streams stay as they are.
SameSubscriptions(r) ==
    \A s \in open' : done'[s] => (r \in subscribers'[s] <=> r \in subscribers[s])

Kept(r) ==
    /\ UNCHANGED <<source[r], got[r], Pending(r)>>
    /\ pc'[r] \in Reading => pc[r] \in Reading
    /\ SameSubscriptions(r)

\* The response is over, and a suffix of what was yielded may be lost.
Ended(r) ==
    /\ source'[r] = source[r]
    /\ got'[r] = got[r] \/ \E k \in 0..Len(got[r]) : got'[r] = SubSeq(got[r], 1, k)
    /\ Pending(r)' = <<>>
    /\ pc'[r] = "off"

\* The client received events of no stream: it was answered without one.
Answered(r) ==
    /\ source'[r] = source[r] \/ got'[r] = <<>>
    /\ \A i \in 1..Len(got'[r]) : got'[r][i].n = 0
    /\ Pending(r)' = <<>>
    /\ pc'[r] \notin Reading \/ \A s \in open' : r \in subscribers'[s] => ~done'[s]

Noted(r) ==
    /\ UNCHANGED <<source[r], Pending(r)>>
    /\ \E x \in Received : x.n = 0 /\ got'[r] = Append(got[r], x)
    /\ pc[r] \in Reading
    /\ SameSubscriptions(r)

Took(r) ==
    /\ source'[r] = source[r]
    /\ Taken(Pending(r), Pending(r)')
    /\ got'[r] = Append(got[r], Pending(r)[1])
    /\ pc[r] \in Reading
    /\ pc'[r] \in Reading => ~IsTerminal(Pending(r)[1])
    /\ SameSubscriptions(r)

\* A subscription starts with what follows the i-th event of the window.
Started(r) ==
    LET s == source'[r]
    IN  \E i \in 0..Len(events[s]) :
          /\ s \in open /\ events[s] \in Seq(Payload)
          /\ UNCHANGED got[r]
          /\ \/ i = 0 /\ got[r] = <<>> /\ s \in RunStreams
             \/ /\ i > 0 /\ got[r] # <<>> /\ ~Satisfied(r)
                /\ source[r] = s /\ got[r][Len(got[r])].n = events[s][i].n
          /\ Pending(r)' \in Seq(Payload)
          /\ Len(Pending(r)') = Len(events[s]) - i
          /\ \A j \in 1..Len(Pending(r)') : Pending(r)'[j] = events[s][i + j]
          /\ r \in subscribers'[s]

\* A producer appended an event to the stream r is subscribed to.
Fanned(r) ==
    \E s \in StreamIds, kind \in Kinds :
        AppendEvent(s, kind) /\ UNCHANGED readerVars /\ r \in subscribers[s]

Moved(r) ==
    \/ Kept(r) \/ Ended(r) \/ Answered(r) \/ Noted(r) \/ Took(r) \/ Started(r) \/ Fanned(r)

LEMMA PendingSame ==
    ASSUME NEW r \in Readers, UNCHANGED <<backlog[r], queue[r]>>
    PROVE  UNCHANGED Pending(r)
BY DEF Pending

LEMMA NothingPending ==
    ASSUME TypeOK', NEW r \in Readers, backlog'[r] = <<>>, queue'[r] = <<>>
    PROVE  Pending(r)' = <<>>
<1>1. <<>> \in Seq(Payload)
  BY EmptySeq
<1>2. <<>> \o <<>> = <<>>
  BY <1>1, ConcatEmptySeq
<1> QED
  BY <1>2 DEF Pending

\* A step that leaves r and its subscriptions alone.
LEMMA KeptAlone ==
    ASSUME NEW r \in Readers, TypeOK',
           UNCHANGED <<source[r], got[r], backlog[r], queue[r]>>,
           pc'[r] \in Reading => pc[r] \in Reading,
           \A s \in StreamIds : s \in open' /\ done'[s] =>
              (r \in subscribers'[s] <=> r \in subscribers[s])
    PROVE  Kept(r)
BY PendingSame DEF Kept, SameSubscriptions, TypeOK, RuntimeTypeOK

\* Opening a stream only touches the subscriptions of streams that are not done.
LEMMA OpenStreamKeeps ==
    ASSUME TypeOK, TypeOK', NEW s \in StreamIds, NEW r \in Readers,
           NEW readers \in SUBSET Readers,
           ReuseStream(s) \/ AddStream(s, readers),
           UNCHANGED <<source[r], got[r], backlog[r], queue[r], pc[r]>>
    PROVE  Kept(r)
<1>1. ~done'[s] /\ \A t \in StreamIds : t # s => subscribers'[t] = subscribers[t]
  BY DEF ReuseStream, AddStream, TypeOK, RuntimeTypeOK
<1> QED
  BY <1>1, KeptAlone

LEMMA AppendMoves ==
    ASSUME DeliveryInv, TypeOK', NEW s \in StreamIds, NEW kind \in Kinds,
           AppendEvent(s, kind), UNCHANGED readerVars, NEW r \in Readers
    PROVE  Moved(r)
<1>1. CASE r \in subscribers[s]
  BY <1>1 DEF Fanned, Moved
<1>2. CASE r \notin subscribers[s]
  <2>1. UNCHANGED <<source[r], got[r], backlog[r], queue[r], pc[r], subscribers>>
    BY <1>2 DEF AppendEvent, Receives, readerVars
  <2> QED
    BY <2>1, KeptAlone DEF Moved
<1> QED
  BY <1>1, <1>2

LEMMA ProducerMoves ==
    ASSUME DeliveryInv, TypeOK', NEW s \in StreamIds, OpenRunStream(s) \/ ProducerStep(s),
           NEW r \in Readers
    PROVE  Moved(r)
<1>1. CASE OpenRunStream(s)
  <2>1. UNCHANGED <<source[r], backlog[r], queue[r], got[r], pc[r]>>
    BY <1>1 DEF OpenRunStream, CreateStream, readerVars
  <2>2. ReuseStream(s) \/ AddStream(s, {})
    BY <1>1 DEF OpenRunStream, CreateStream
  <2> QED
    BY <2>1, <2>2, OpenStreamKeeps DEF Moved, DeliveryInv
<1>2. CASE LoseStream(s)
  <2>1. UNCHANGED <<source[r], backlog[r], queue[r], got[r], pc[r], subscribers>>
    BY <1>2 DEF LoseStream, Lookup, readerVars
  <2> QED
    BY <2>1, KeptAlone DEF Moved
<1>3. ASSUME NEW from, NEW kind \in Kinds, NEW to, Produce(s, from, kind, to)
      PROVE  Moved(r)
  BY <1>3, AppendMoves DEF Produce
<1> QED
  BY <1>1, <1>2, <1>3
     DEF ProducerStep, EmitStarted, EmitData, EmitUnmapped, EmitFailure, EmitEnded, Kinds

LEMMA RefuseMoves ==
    ASSUME TypeOK', NEW r \in Readers, NEW q \in Readers, Refuse(q)
    PROVE  Moved(r)
<1>1. UNCHANGED <<source[r], backlog[r], queue[r], got[r], pc[r], subscribers>>
  BY DEF Refuse, Lookup
<1> QED
  BY <1>1, KeptAlone DEF Moved

LEMMA OpenChatMoves ==
    ASSUME DeliveryInv, TypeOK', NEW q \in Readers, NEW s \in StreamIds, OpenChat(q, s),
           NEW r \in Readers
    PROVE  Moved(r)
<1>1. TypeOK /\ ReaderInv(q)
  BY DEF DeliveryInv
<1>2. CASE /\ AddStream(s, {q})
           /\ pc' = [pc EXCEPT ![q] = "live"]
           /\ source' = [source EXCEPT ![q] = s]
           /\ UNCHANGED <<queue, produced, backlog, got, since, retries>>
  <2>1. CASE r # q
    <3>1. UNCHANGED <<source[r], backlog[r], queue[r], got[r], pc[r]>>
      BY <1>1, <1>2, <2>1 DEF TypeOK
    <3>2. {q} \in SUBSET Readers /\ AddStream(s, {q})
      BY <1>2
    <3> QED
      BY <1>1, <3>1, <3>2, OpenStreamKeeps DEF Moved
  <2>2. CASE r = q
    <3>1. /\ backlog[r] = <<>> /\ queue[r] = <<>> /\ got[r] = <<>>
          /\ \A t \in StreamIds : r \notin subscribers[t]
      BY <1>1, <2>2 DEF OpenChat, ReaderInv
    <3>2. backlog'[r] = <<>> /\ queue'[r] = <<>> /\ got'[r] = <<>>
      BY <1>2, <3>1
    <3>3. \A t \in open' : r \in subscribers'[t] => ~done'[t]
      BY <1>1, <1>2, <3>1 DEF AddStream, TypeOK, RuntimeTypeOK
    <3>4. \A i \in 1..Len(got'[r]) : FALSE
      BY <3>2, EmptySeq
    <3> QED
      BY <3>2, <3>3, <3>4, NothingPending DEF Answered, Moved
  <2> QED
    BY <2>1, <2>2
<1> QED
  BY <1>2, RefuseMoves DEF OpenChat

\* The streams whose subscriptions a step of r leaves alone for another reader.
LEMMA OtherMoves ==
    ASSUME DeliveryInv, TypeOK', NEW q \in Readers, NEW r \in Readers, r # q,
           \/ \E s \in StreamIds : OpenRun(q, s)
           \/ Resume(q) \/ GeneratorStep(q) \/ Disconnect(q)
    PROVE  Moved(r)
<1>1. /\ UNCHANGED <<source[r], backlog[r], got[r], outcome[r], pc[r], queue[r]>>
      /\ \A t \in StreamIds : r \in subscribers'[t] <=> r \in subscribers[t]
  BY ReaderStepLocal
<1> QED
  BY <1>1, KeptAlone DEF Moved

LEMMA OpenRunMoves ==
    ASSUME DeliveryInv, TypeOK', NEW r \in Readers, NEW s \in StreamIds, OpenRun(r, s)
    PROVE  Moved(r)
<1>1. TypeOK /\ ReaderInv(r)
  BY DEF DeliveryInv
<1>2. /\ backlog[r] = <<>> /\ queue[r] = <<>> /\ got[r] = <<>> /\ pc[r] = "off"
  BY <1>1 DEF OpenRun, ReaderInv
<1>3. CASE /\ Lookup
           /\ got' = [got EXCEPT ![r] = Synthetic]
           /\ UNCHANGED <<producerVars, pc, source, backlog, since, retries>>
  <2>1. got'[r] = Synthetic /\ UNCHANGED <<source[r], pc[r]>>
    BY <1>1, <1>3 DEF TypeOK
  <2>2. \A i \in 1..Len(Synthetic) : Synthetic[i].n = 0
    BY DEF Synthetic
  <2>3. backlog'[r] = <<>> /\ queue'[r] = <<>>
    BY <1>2, <1>3 DEF Lookup
  <2> QED
    BY <1>2, <2>1, <2>2, <2>3, NothingPending DEF Answered, Moved, Reading
<1>4. CASE /\ Subscribe(s, r)
           /\ s \in RunStreams
           /\ backlog' = [backlog EXCEPT ![r] = events[s]]
           /\ source' = [source EXCEPT ![r] = s]
           /\ UNCHANGED <<producerVars, got, since, retries>>
  <2>1. s \in open /\ events[s] \in Seq(Payload) /\ Len(events[s]) \in Nat
    BY <1>1, <1>4, SurvivingSubset, LenProperties DEF Subscribe, TypeOK, RuntimeTypeOK
  <2>2. /\ backlog'[r] = events[s] /\ queue'[r] = <<>>
        /\ source'[r] = s /\ UNCHANGED got /\ r \in subscribers'[s]
    BY <1>1, <1>4 DEF Subscribe, TypeOK, RuntimeTypeOK
  <2>3. Pending(r)' = events[s]
    BY <2>1, <2>2, ConcatEmptySeq DEF Pending
  <2>4. /\ 0 \in 0..Len(events[s]) /\ Len(events[s]) = Len(events[s]) - 0
        /\ \A j \in 1..Len(events[s]) : events[s][j] = events[s][0 + j]
    BY <2>1
  <2> QED
    BY <1>2, <1>4, <2>1, <2>2, <2>3, <2>4 DEF Started, Moved
<1> QED
  BY <1>3, <1>4, RefuseMoves DEF OpenRun

LEMMA ResumeMoves ==
    ASSUME DeliveryInv, TypeOK', NEW r \in Readers, Resume(r)
    PROVE  Moved(r)
<1> DEFINE s == source[r]
           cursor == got[r][Len(got[r])].n
           w == events[s]
           i == CHOOSE j \in CursorIndex(s, cursor) : TRUE
           p == Replay(s, cursor)
<1>1. TypeOK /\ ReaderInv(r)
  BY DEF DeliveryInv
<1>2. CASE ~(s \in Surviving /\ CursorIndex(s, cursor) # {})
  BY <1>2, RefuseMoves DEF Resume
<1>3. CASE s \in Surviving /\ CursorIndex(s, cursor) # {}
  <2>1. s \in open /\ s \in StreamIds /\ w \in Seq(Payload) /\ Len(w) \in Nat
    BY <1>1, <1>3, SurvivingSubset, LenProperties DEF TypeOK, RuntimeTypeOK
  <2>2. i \in 1..Len(w) /\ w[i].n = cursor
    BY <1>3 DEF CursorIndex
  <2>3. p = SubSeq(w, i + 1, Len(w))
    BY DEF Replay
  <2>4. p \in Seq(Payload)
    BY <1>1, <1>3, <2>1, ReplayType DEF TypeOK
  <2>5. /\ Subscribe(s, r)
        /\ backlog' = [backlog EXCEPT ![r] = p]
        /\ UNCHANGED <<source, got>>
        /\ got[r] # <<>> /\ ~Satisfied(r)
    BY <1>3 DEF Resume
  <2> HIDE DEF i, p
  <2>6. Len(p) = Len(w) - i /\ \A j \in 1..Len(p) : p[j] = w[i + j]
    <3>1. \A j \in (i + 1)..Len(w) : j \in 1..Len(w)
      BY <2>1, <2>2
    <3>2. \A j \in (i + 1)..Len(w) : w[j] \in Payload
      BY <2>1, <3>1, ElementOfSeq
    <3>3. /\ Len(p) = IF i + 1 <= Len(w) THEN Len(w) - (i + 1) + 1 ELSE 0
          /\ \A j \in 1..(Len(w) - (i + 1) + 1) : p[j] = w[(i + 1) + j - 1]
      BY <2>1, <2>2, <2>3, <3>2, SubSeqProperties
    <3>4. Len(p) = Len(w) - i
      BY <2>1, <2>2, <3>3
    <3>5. \A j \in 1..Len(p) : (i + 1) + j - 1 = i + j
      BY <2>1, <2>2
    <3> QED
      BY <2>1, <2>2, <3>3, <3>4, <3>5
  <2>7. /\ backlog'[r] = p /\ queue'[r] = <<>> /\ r \in subscribers'[s]
        /\ UNCHANGED <<source, got>>
    BY <1>1, <2>1, <2>5 DEF Subscribe, TypeOK, RuntimeTypeOK
  <2>8. Pending(r)' = p
    BY <2>4, <2>7, ConcatEmptySeq DEF Pending
  <2>9. i \in 0..Len(w) /\ i > 0
    BY <2>1, <2>2
  <2>10. source'[r] = s
    BY <2>7
  <2> HIDE DEF s
  <2>11. \E k \in 0..Len(events[s]) :
          /\ k > 0 /\ got[r][Len(got[r])].n = events[s][k].n
          /\ Len(Pending(r)') = Len(events[s]) - k
          /\ \A j \in 1..Len(Pending(r)') : Pending(r)'[j] = events[s][k + j]
    BY <2>2, <2>6, <2>8, <2>9
  <2> QED
    BY <2>1, <2>4, <2>5, <2>7, <2>8, <2>10, <2>11 DEF Started, Moved, s
<1> QED
  BY <1>2, <1>3

LEMMA LeaveMoves ==
    ASSUME DeliveryInv, TypeOK', NEW r \in Readers, NEW why, Leave(r, why),
           got'[r] = got[r] \/ \E k \in 0..Len(got[r]) : got'[r] = SubSeq(got[r], 1, k)
    PROVE  Moved(r)
<1>1. /\ backlog'[r] = <<>> /\ queue'[r] = <<>> /\ pc'[r] = "off" /\ source' = source
  BY DEF Leave, Unsubscribe, DeliveryInv, TypeOK, RuntimeTypeOK
<1> QED
  BY <1>1, NothingPending DEF Ended, Moved

LEMMA VanishedMoves ==
    ASSUME DeliveryInv, TypeOK', NEW r \in Readers, StreamVanished(r)
    PROVE  Moved(r)
<1>1. /\ backlog'[r] = <<>> /\ queue'[r] = <<>> /\ pc'[r] = "off"
      /\ UNCHANGED <<source, got>>
  BY DEF StreamVanished, DeliveryInv, TypeOK, RuntimeTypeOK
<1> QED
  BY <1>1, NothingPending DEF Ended, Moved

LEMMA AnnounceMoves ==
    ASSUME DeliveryInv, TypeOK', NEW r \in Readers, NEW kind \in TransportKinds, NEW next,
           pc[r] \in Reading, Announce(r, kind, next)
    PROVE  Moved(r)
<1> DEFINE s == source[r]
           x == [n |-> 0, seq |-> seq[s] + 1, kind |-> kind]
<1>1. TypeOK
  BY DEF DeliveryInv
<1>2. CASE /\ TakeSeq(s)
           /\ Deliver(r, x)
           /\ UNCHANGED <<producerVars, source, backlog, since, retries, outcome>>
  <2>1. s \in StreamIds
    BY <1>1, <1>2, SurvivingSubset DEF TakeSeq, TypeOK, RuntimeTypeOK
  <2>2. x \in Received /\ x.n = 0
    BY <1>1, <2>1, ReceivedTypes DEF TypeOK
  <2> HIDE DEF x
  <2>3. /\ got'[r] = Append(got[r], x)
        /\ UNCHANGED <<source, backlog[r], queue[r], subscribers>>
    BY <1>1, <1>2 DEF Deliver, TakeSeq, TypeOK
  <2> QED
    BY <2>2, <2>3, PendingSame DEF Noted, SameSubscriptions, Moved
<1> QED
  BY <1>2, VanishedMoves DEF Announce

LEMMA YieldMoves ==
    ASSUME DeliveryInv, TypeOK', NEW r \in Readers, YieldReplay(r) \/ YieldLive(r)
    PROVE  Moved(r)
<1>1. TypeOK /\ ReaderInv(r)
  BY DEF DeliveryInv
<1>2. /\ backlog[r] \in Seq(Payload) /\ queue[r] \in Seq(Payload) /\ got[r] \in Seq(Received)
  BY <1>1, PendingType
<1>3. CASE YieldReplay(r)
  <2>1. /\ got'[r] = Append(got[r], Head(backlog[r])) /\ backlog'[r] = Tail(backlog[r])
        /\ UNCHANGED <<source, queue, subscribers>> /\ backlog[r] # <<>>
        /\ pc[r] \in Reading
        /\ pc'[r] \in Reading => ~IsTerminal(Head(backlog[r]))
    BY <1>1, <1>3 DEF YieldReplay, Deliver, After, runtimeVars, TypeOK, Reading
  <2>2. Taken(Pending(r), Pending(r)') /\ Head(backlog[r]) = Pending(r)[1]
    BY <1>2, <2>1, ConcatTail DEF Pending
  <2> QED
    BY <2>1, <2>2 DEF Took, SameSubscriptions, Moved
<1>4. CASE YieldLive(r)
  <2>1. /\ got'[r] = Append(got[r], Head(queue[r])) /\ queue'[r] = Tail(queue[r])
        /\ UNCHANGED <<source, backlog, subscribers>> /\ queue[r] # <<>>
        /\ backlog[r] = <<>>
        /\ pc[r] \in Reading
        /\ pc'[r] \in Reading => ~IsTerminal(Head(queue[r]))
    BY <1>1, <1>4
       DEF YieldLive, Deliver, After, TypeOK, RuntimeTypeOK, Reading, ReaderInv
  <2>2. /\ Tail(queue[r]) \in Seq(Payload) /\ Len(Tail(queue[r])) = Len(queue[r]) - 1
        /\ \A i \in 1..Len(Tail(queue[r])) : Tail(queue[r])[i] = queue[r][i+1]
        /\ Head(queue[r]) = queue[r][1] /\ Len(queue[r]) \in Nat
    BY <1>2, <2>1, HeadTailProperties, LenProperties
  <2>3. Pending(r) = queue[r] /\ Pending(r)' = Tail(queue[r])
    BY <1>2, <2>1, <2>2, ConcatEmptySeq DEF Pending
  <2>4. Taken(Pending(r), Pending(r)') /\ Head(queue[r]) = Pending(r)[1]
    BY <2>2, <2>3 DEF Taken
  <2> QED
    BY <2>1, <2>4 DEF Took, SameSubscriptions, Moved
<1> QED
  BY <1>3, <1>4

LEMMA GoLiveMoves ==
    ASSUME TypeOK', NEW r \in Readers, pc[r] \in Reading, Lookup \/ UNCHANGED runtimeVars,
           UNCHANGED <<source, backlog, got>>
    PROVE  Moved(r)
<1>1. UNCHANGED <<source[r], got[r], backlog[r], queue[r], subscribers>>
  BY DEF Lookup, runtimeVars
<1> QED
  BY <1>1, KeptAlone DEF Moved

LEMMA GeneratorMoves ==
    ASSUME DeliveryInv, TypeOK', NEW r \in Readers, GeneratorStep(r)
    PROVE  Moved(r)
<1>1. CASE BeginResume(r)
  BY <1>1, AnnounceMoves DEF BeginResume, TransportKinds, Reading
<1>2. CASE FinishReplay(r)
  <2>1. pc[r] \in Reading /\ "replay_finished" \in TransportKinds
    BY <1>2 DEF FinishReplay, Reading, TransportKinds
  <2>2. CASE Leave(r, "returned") /\ UNCHANGED got
    BY <2>2, LeaveMoves
  <2>3. CASE UNCHANGED <<runtimeVars, source, backlog, got>>
    BY <2>1, <2>3, GoLiveMoves
  <2> QED
    BY <1>2, <2>1, <2>2, <2>3, AnnounceMoves DEF FinishReplay
<1>3. CASE AfterReplay(r)
  <2>1. pc[r] \in Reading
    BY <1>3 DEF AfterReplay, Reading
  <2>2. CASE Leave(r, "returned") /\ UNCHANGED got
    BY <2>2, LeaveMoves
  <2>3. CASE (Lookup \/ UNCHANGED runtimeVars) /\ UNCHANGED <<source, backlog, got>>
    BY <2>1, <2>3, GoLiveMoves
  <2> QED
    BY <1>3, <2>2, <2>3, VanishedMoves DEF AfterReplay
<1>4. CASE Close(r)
  BY <1>4, LeaveMoves DEF Close
<1> QED
  BY <1>1, <1>2, <1>3, <1>4, YieldMoves DEF GeneratorStep

LEMMA DisconnectMoves ==
    ASSUME DeliveryInv, TypeOK', NEW r \in Readers, Disconnect(r)
    PROVE  Moved(r)
<1>1. got \in [Readers -> Seq(Received)] /\ Len(got[r]) \in Nat /\ since[r] \in Nat
  BY LenProperties DEF DeliveryInv, TypeOK
<1>2. PICK k \in since[r]..Len(got[r]) : got' = [got EXCEPT ![r] = SubSeq(got[r], 1, k)]
  BY DEF Disconnect
<1>3. k \in 0..Len(got[r]) /\ got'[r] = SubSeq(got[r], 1, k)
  BY <1>1, <1>2
<1> QED
  BY <1>3, LeaveMoves DEF Disconnect

\* Whatever happens, a reader keeps what it has, or one thing happens to it.
LEMMA EveryReaderMoves ==
    ASSUME DeliveryInv, TypeOK', [Next]_vars, NEW r \in Readers
    PROVE  Moved(r)
<1>1. ASSUME NEW q \in Readers,
             (\E s \in StreamIds : OpenRun(q, s)) \/ Resume(q) \/ GeneratorStep(q) \/ Disconnect(q)
      PROVE  Moved(r)
  <2>1. CASE q = r
    BY <1>1, <2>1, OpenRunMoves, ResumeMoves, GeneratorMoves, DisconnectMoves
  <2>2. CASE q # r
    BY <1>1, <2>2, OtherMoves
  <2> QED
    BY <2>1, <2>2
<1>2. CASE (Tick /\ UNCHANGED <<producerVars, readerVars>>) \/ UNCHANGED vars
  <2>1. UNCHANGED <<source[r], got[r], backlog[r], queue[r], pc[r], subscribers>>
    BY <1>2 DEF Tick, vars, runtimeVars, readerVars
  <2> QED
    BY <2>1, KeptAlone DEF Moved
<1> QED
  BY <1>1, <1>2, ProducerMoves, OpenChatMoves DEF Next

-----------------------------------------------------------------------------
(* What the moves keep *)

LEMMA GrownAt ==
    ASSUME NEW g \in Seq(Received), NEW x \in Received,
           NEW i \in 1..Len(Append(g, x))
    PROVE  \/ i \in 1..Len(g) /\ Append(g, x)[i] = g[i]
           \/ Append(g, x)[i] = x
<1>1. /\ Len(Append(g, x)) = Len(g) + 1 /\ Len(g) \in Nat
      /\ \A j \in 1..Len(g) : Append(g, x)[j] = g[j]
      /\ Append(g, x)[Len(g) + 1] = x
  BY AppendProperties, LenProperties
<1>2. CASE i = Len(g) + 1
  BY <1>1, <1>2
<1>3. CASE i # Len(g) + 1
  <2>1. i \in 1..Len(g)
    BY <1>1, <1>3, BelowEnd
  <2> QED
    BY <1>1, <2>1
<1> QED
  BY <1>2, <1>3

LEMMA CutAt ==
    ASSUME NEW g \in Seq(Received), NEW k \in 0..Len(g),
           NEW i \in 1..Len(SubSeq(g, 1, k))
    PROVE  i \in 1..Len(g) /\ SubSeq(g, 1, k)[i] = g[i]
<1>1. Len(g) \in Nat /\ \A j \in 1..Len(g) : g[j] \in Received
  BY LenProperties, ElementOfSeq
<1>2. k \in Nat /\ k <= Len(g) /\ \A j \in 1..k : g[j] \in Received
  BY <1>1
<1>3. Len(SubSeq(g, 1, k)) = k /\ \A j \in 1..k : SubSeq(g, 1, k)[j] = g[j]
  BY <1>2, SubSeqProperties
<1>4. i \in 1..k
  BY <1>3
<1>5. i \in 1..Len(g)
  BY <1>1, <1>2, <1>4
<1> QED
  BY <1>3, <1>4, <1>5

LEMMA PushedAt ==
    ASSUME NEW old \in Seq(Payload), NEW new, NEW x, Pushed(old, new, x),
           NEW i \in 1..Len(new)
    PROVE  (i \in 1..Len(old) /\ new[i] = old[i]) \/ new[i] = x
<1>1. Len(old) \in Nat /\ Len(new) = Len(old) + 1
  BY LenProperties DEF Pushed
<1>2. CASE i = Len(new)
  BY <1>2 DEF Pushed
<1>3. CASE i # Len(new)
  <2>1. i \in 1..Len(old)
    BY <1>1, <1>3, BelowEnd
  <2> QED
    BY <2>1 DEF Pushed
<1> QED
  BY <1>2, <1>3

LEMMA TakenAt ==
    ASSUME NEW old \in Seq(Payload), NEW new, Taken(old, new)
    PROVE  /\ Len(old) \in Nat /\ Len(new) \in Nat /\ 1 \in 1..Len(old)
           /\ \A i \in 1..Len(new) : i + 1 \in 1..Len(old) /\ new[i] = old[i+1]
<1>1. Len(old) \in Nat /\ Len(new) \in Nat /\ Len(old) = Len(new) + 1
  BY LenProperties DEF Taken
<1> QED
  BY <1>1 DEF Taken

\* Nothing pending is nothing owed.
LEMMA NothingOwed ==
    ASSUME NEW t, NEW h
    PROVE  EndsAt(<<>>, t) /\ AtMost(<<>>, h)
BY EmptySeq DEF EndsAt, AtMost

(* Streams *)

\* What the producers of runs append, and when.
InOrder(s, from, kind, to) ==
    s \in RunStreams =>
        IF kind \in TerminalKinds THEN to \in {"closing", "finished"}
                                  ELSE from \in {"ready", "running"}

\* No stream gets an event, and only streams that stay as they are are completed.
Quiet ==
    /\ UNCHANGED produced
    /\ \A s \in open' : done'[s] =>
          /\ s \in open /\ done[s] /\ UNCHANGED events[s]
          /\ producer'[s] \in {producer[s], "finished"}

LEMMA CallIsQuiet ==
    ASSUME TypeOK, NEW s, NEW r \in Readers, UNCHANGED producer,
           \/ Subscribe(s, r) \/ Unsubscribe(s, r) \/ TakeSeq(s) \/ Lookup \/ Tick
           \/ StreamVanished(r) \/ UNCHANGED runtimeVars
           \/ UNCHANGED <<open, done, events, produced>>
    PROVE  Quiet
<1>1. open' \subseteq open /\ UNCHANGED <<done, events, produced>>
  BY SurvivingSubset
     DEF Subscribe, Unsubscribe, TakeSeq, Lookup, Tick, StreamVanished, runtimeVars
<1> QED
  BY <1>1 DEF Quiet

LEMMA OpeningIsQuiet ==
    ASSUME TypeOK, TypeOK', NEW s \in StreamIds, NEW readers,
           ReuseStream(s) \/ AddStream(s, readers), UNCHANGED produced,
           producer' = [producer EXCEPT ![s] = "ready"]
    PROVE  Quiet
<1>1. ASSUME NEW t \in open', done'[t]
      PROVE  /\ t \in open /\ done[t] /\ UNCHANGED events[t]
             /\ producer'[t] = producer[t]
  <2>1. t \in StreamIds /\ t # s
    BY <1>1 DEF ReuseStream, AddStream, TypeOK, RuntimeTypeOK
  <2>2. done'[t] = done[t] /\ UNCHANGED events[t] /\ producer'[t] = producer[t]
    BY <2>1 DEF ReuseStream, AddStream, TypeOK, RuntimeTypeOK
  <2>3. t \in open
    BY <1>1, <2>1, SurvivingSubset DEF ReuseStream, AddStream, MakeRoom, OldestCompleted
  <2> QED
    BY <1>1, <2>2, <2>3
<1> QED
  BY <1>1 DEF Quiet

\* A step is an append of a producer, in order, or quiet.
LEMMA ProducesOrQuiet ==
    ASSUME TypeOK, TypeOK', [Next]_vars
    PROVE  \/ \E s \in StreamIds, kind \in Kinds, from, to \in ProducerStates :
                 Produce(s, from, kind, to) /\ InOrder(s, from, kind, to)
           \/ Quiet
<1>0. /\ ChatStreams \cap RunStreams = {}
      /\ Kinds = {"started", "data", "ended", "error"} /\ TerminalKinds = {"ended", "error"}
  BY DeliveryAssumption DEF Kinds, TerminalKinds
<1>1. ASSUME NEW s \in StreamIds, OpenRunStream(s)
      PROVE  Quiet
  <2>1. /\ ReuseStream(s) \/ AddStream(s, {})
        /\ UNCHANGED produced /\ producer' = [producer EXCEPT ![s] = "ready"]
    BY <1>1 DEF OpenRunStream, CreateStream
  <2> QED
    BY <2>1, OpeningIsQuiet
<1>2. ASSUME NEW s \in StreamIds, LoseStream(s)
      PROVE  Quiet
  <2>1. open' \subseteq open /\ UNCHANGED <<done, events, produced>>
    BY <1>2, SurvivingSubset DEF LoseStream, Lookup
  <2>2. \A t \in StreamIds : producer'[t] \in {producer[t], "finished"}
    BY <1>2 DEF LoseStream, TypeOK
  <2> QED
    BY <2>1, <2>2 DEF Quiet, TypeOK, RuntimeTypeOK
<1>3. ASSUME NEW s \in StreamIds, ProducerStep(s), ~LoseStream(s)
      PROVE  \E kind \in Kinds, from, to \in ProducerStates :
                 Produce(s, from, kind, to) /\ InOrder(s, from, kind, to)
  <2>1. CASE EmitStarted(s)
    BY <1>0, <2>1 DEF EmitStarted, InOrder, ProducerStates
  <2>2. CASE EmitData(s)
    BY <1>0, <2>2 DEF EmitData, InOrder, ProducerStates
  <2>3. CASE EmitUnmapped(s)
    BY <1>0, <2>3 DEF EmitUnmapped, InOrder, ProducerStates
  <2>4. CASE EmitFailure(s)
    BY <1>0, <2>4 DEF EmitFailure, InOrder, ProducerStates
  <2>5. CASE EmitEnded(s)
    BY <1>0, <2>5 DEF EmitEnded, InOrder, ProducerStates
  <2> QED
    BY <1>3, <2>1, <2>2, <2>3, <2>4, <2>5 DEF ProducerStep
<1>4. ASSUME NEW r \in Readers, NEW s \in StreamIds, OpenChat(r, s)
      PROVE  Quiet
  <2>1. CASE Refuse(r)
    BY <2>1, CallIsQuiet DEF Refuse, producerVars
  <2>2. CASE /\ AddStream(s, {r})
             /\ producer' = [producer EXCEPT ![s] = "ready"]
             /\ UNCHANGED produced
    BY <2>2, OpeningIsQuiet
  <2> QED
    BY <1>4, <2>1, <2>2 DEF OpenChat
<1>5. ASSUME NEW r \in Readers,
             (\E s \in StreamIds : OpenRun(r, s)) \/ Resume(r) \/ GeneratorStep(r) \/ Disconnect(r)
      PROVE  Quiet
  <2>1. UNCHANGED producer
    BY <1>5 DEF OpenRun, Refuse, Resume, GeneratorStep, BeginResume, Announce, StreamVanished,
         YieldReplay, FinishReplay, AfterReplay, YieldLive, Close, Disconnect, Leave, producerVars
  <2>2. \E s : \/ Subscribe(s, r) \/ Unsubscribe(s, r) \/ TakeSeq(s) \/ Lookup
               \/ StreamVanished(r) \/ UNCHANGED runtimeVars
               \/ UNCHANGED <<open, done, events, produced>>
    BY <1>5 DEF OpenRun, Refuse, Resume, GeneratorStep, BeginResume, Announce, YieldReplay,
         FinishReplay, AfterReplay, YieldLive, Close, Disconnect, Leave
  <2> QED
    BY <2>1, <2>2, CallIsQuiet
<1>6. CASE (Tick /\ UNCHANGED <<producerVars, readerVars>>) \/ UNCHANGED vars
  <2>1. open' = open /\ UNCHANGED <<done, events, produced, producer>>
    BY <1>6 DEF Tick, vars, runtimeVars, producerVars
  <2> QED
    BY <2>1 DEF Quiet
<1> QED
  BY <1>1, <1>2, <1>3, <1>4, <1>5, <1>6 DEF Next

\* The payload that AppendEvent builds.
Event(s, kind) == [n |-> produced[s] + 1, seq |-> seq[s] + 1, kind |-> kind]

LEMMA FannedPushes ==
    ASSUME DeliveryInv, NEW s \in StreamIds, NEW kind \in Kinds, NEW r \in Readers,
           AppendEvent(s, kind), UNCHANGED readerVars, r \in subscribers[s]
    PROVE  /\ source[r] = s /\ UNCHANGED <<source[r], got[r], pc[r], subscribers>>
           /\ Pushed(Pending(r), Pending(r)', Event(s, kind))
<1>1. TypeOK /\ ReaderInv(r) /\ Event(s, kind) \in Payload
  BY EventType DEF DeliveryInv, TypeOK, Event
<1>2. UNCHANGED <<source[r], got[r], pc[r], backlog[r], subscribers>>
  BY DEF AppendEvent, readerVars
<1>3. queue'[r] = Append(queue[r], Event(s, kind))
  BY DEF AppendEvent, Receives, Event
<1>4. backlog[r] \in Seq(Payload) /\ queue[r] \in Seq(Payload)
  BY <1>1, PendingType
<1>5. Pushed(Pending(r), Pending(r)', Event(s, kind))
  BY <1>1, <1>2, <1>3, <1>4, ConcatAppend DEF Pending
<1> QED
  BY <1>1, <1>2, <1>5 DEF ReaderInv

\* An append, as it bears on the stream.
LEMMA AppendIs ==
    ASSUME TypeOK, NEW s \in StreamIds, NEW kind \in Kinds, AppendEvent(s, kind)
    PROVE  /\ s \in open /\ open' \subseteq open
           /\ produced'[s] = produced[s] + 1 /\ produced[s] \in Nat
           /\ done'[s] <=> (done[s] \/ kind \in TerminalKinds)
           /\ events[s] \in Seq(Payload) /\ Event(s, kind) \in Payload
           /\ events'[s] = PushWindow(events[s], Event(s, kind))
           /\ \A t \in StreamIds : t # s => UNCHANGED <<produced[t], events[t], done[t]>>
BY EventType, SurvivingSubset DEF AppendEvent, TypeOK, RuntimeTypeOK, IsTerminal, Event

LEMMA ProducedGrows ==
    ASSUME TypeOK, TypeOK', [Next]_vars, NEW s \in StreamIds
    PROVE  produced[s] \in Nat /\ produced'[s] \in Nat /\ produced[s] <= produced'[s]
<1>1. produced[s] \in Nat /\ produced'[s] \in Nat
  BY DEF TypeOK, RuntimeTypeOK
<1>2. CASE Quiet
  BY <1>1, <1>2 DEF Quiet
<1>3. ASSUME NEW t \in StreamIds, NEW kind \in Kinds, AppendEvent(t, kind)
      PROVE  produced[s] <= produced'[s]
  BY <1>1, <1>3, AppendIs
<1> QED
  BY <1>1, <1>2, <1>3, ProducesOrQuiet DEF Produce

LEMMA KnownStep ==
    ASSUME CompletionInv, DeliveryInv', [Next]_vars, NEW r \in Readers
    PROVE  Known(r)'
<1>0. /\ TypeOK /\ TypeOK' /\ Known(r) /\ WindowIsTail /\ Moved(r)
      /\ got[r] \in Seq(Received) /\ Pending(r) \in Seq(Payload)
  BY EveryReaderMoves, PendingType DEF CompletionInv, DeliveryInv, Pending
<1> DEFINE s == source'[r]
<1> SUFFICES ASSUME s \in StreamIds
             PROVE  AtMost(got'[r], produced'[s]) /\ AtMost(Pending(r)', produced'[s])
  BY DEF Known
<1>1. produced[s] \in Nat /\ produced'[s] \in Nat /\ produced[s] <= produced'[s]
  BY <1>0, ProducedGrows
<1> HIDE DEF s
<1>2. ASSUME source[r] = s
      PROVE  /\ \A i \in 1..Len(got[r]) : got[r][i].n \in Nat /\ got[r][i].n <= produced'[s]
             /\ \A i \in 1..Len(Pending(r)) :
                   Pending(r)[i].n \in Nat /\ Pending(r)[i].n <= produced'[s]
  BY <1>0, <1>1, <1>2, ReceivedAt, PendingAt DEF Known, AtMost
<1>3. CASE Kept(r)
  BY <1>2, <1>3 DEF Kept, AtMost, s
<1>4. CASE Ended(r)
  <2>1. AtMost(Pending(r)', produced'[s])
    BY <1>4, NothingOwed DEF Ended
  <2>2. ASSUME NEW i \in 1..Len(got'[r])
        PROVE  got'[r][i].n <= produced'[s]
    <3>1. i \in 1..Len(got[r]) /\ got'[r][i] = got[r][i]
      BY <1>0, <1>4, CutAt DEF Ended
    <3> QED
      BY <1>2, <1>4, <3>1 DEF Ended, s
  <2> QED
    BY <2>1, <2>2 DEF AtMost
<1>5. CASE Answered(r)
  <2>1. AtMost(Pending(r)', produced'[s])
    BY <1>5, NothingOwed DEF Answered
  <2> QED
    BY <1>1, <1>5, <2>1 DEF Answered, AtMost
<1>6. CASE Noted(r)
  <2>1. PICK x \in Received : x.n = 0 /\ got'[r] = Append(got[r], x)
    BY <1>6 DEF Noted
  <2>2. ASSUME NEW i \in 1..Len(got'[r])
        PROVE  got'[r][i].n <= produced'[s]
    <3>1. (i \in 1..Len(got[r]) /\ got'[r][i] = got[r][i]) \/ got'[r][i] = x
      BY <1>0, <2>1, GrownAt
    <3> QED
      BY <1>1, <1>2, <1>6, <2>1, <3>1 DEF Noted, s
  <2> QED
    BY <1>2, <1>6, <2>2 DEF AtMost, Noted, s
<1>7. CASE Took(r)
  <2>1. source[r] = s /\ Taken(Pending(r), Pending(r)')
    BY <1>7 DEF Took, s
  <2>2. /\ 1 \in 1..Len(Pending(r)) /\ Pending(r)[1] \in Received
        /\ \A i \in 1..Len(Pending(r)') :
              i + 1 \in 1..Len(Pending(r)) /\ Pending(r)'[i] = Pending(r)[i+1]
    BY <1>0, <2>1, TakenAt, ElementOfSeq, ReceivedTypes
  <2>3. ASSUME NEW i \in 1..Len(got'[r])
        PROVE  got'[r][i].n <= produced'[s]
    <3>1. (i \in 1..Len(got[r]) /\ got'[r][i] = got[r][i]) \/ got'[r][i] = Pending(r)[1]
      BY <1>0, <1>7, <2>2, GrownAt DEF Took
    <3> QED
      BY <1>2, <2>1, <2>2, <3>1
  <2> QED
    BY <1>2, <2>1, <2>2, <2>3 DEF AtMost
<1>8. CASE Started(r)
  <2>1. PICK i \in 0..Len(events[s]) :
          /\ s \in open /\ UNCHANGED got[r]
          /\ got[r] = <<>> \/ source[r] = s
          /\ Len(Pending(r)') = Len(events[s]) - i
          /\ \A j \in 1..Len(Pending(r)') : Pending(r)'[j] = events[s][i + j]
    BY <1>8 DEF Started, s
  <2>2. events[s] \in Seq(Payload) /\ Len(events[s]) \in Nat
    BY <1>0, LenProperties, s \in StreamIds DEF TypeOK, RuntimeTypeOK
  <2>3. ASSUME NEW j \in 1..Len(Pending(r)')
        PROVE  Pending(r)'[j].n <= produced'[s]
    <3>1. i + j \in 1..Len(events[s]) /\ Pending(r)'[j] = events[s][i + j]
      BY <2>1, <2>2
    <3>2. events[s][i + j].n = produced[s] - Len(events[s]) + (i + j)
      BY <1>0, <2>1, <3>1 DEF WindowIsTail
    <3>3. i + j <= Len(events[s]) /\ i + j \in Nat
      BY <2>2, <3>1
    <3> QED
      BY <1>1, <2>2, <3>1, <3>2, <3>3
  <2>4. AtMost(got'[r], produced'[s])
    <3>1. CASE got[r] = <<>>
      BY <2>1, <3>1, NothingOwed
    <3>2. CASE source[r] = s
      BY <1>2, <2>1, <3>2 DEF AtMost
    <3> QED
      BY <2>1, <3>1, <3>2
  <2> QED
    BY <2>3, <2>4 DEF AtMost
<1>9. CASE Fanned(r)
  <2>1. PICK t \in StreamIds, kind \in Kinds :
           AppendEvent(t, kind) /\ UNCHANGED readerVars /\ r \in subscribers[t]
    BY <1>9 DEF Fanned
  <2>2. /\ source[r] = t /\ UNCHANGED <<source[r], got[r]>>
        /\ Pushed(Pending(r), Pending(r)', Event(t, kind))
    BY <2>1, FannedPushes DEF CompletionInv
  <2>3. t = s /\ Event(t, kind).n = produced'[s]
    BY <1>0, <2>1, <2>2, AppendIs DEF Event, s
  <2>4. ASSUME NEW i \in 1..Len(Pending(r)')
        PROVE  Pending(r)'[i].n <= produced'[s]
    <3>1. \/ i \in 1..Len(Pending(r)) /\ Pending(r)'[i] = Pending(r)[i]
          \/ Pending(r)'[i] = Event(t, kind)
      BY <1>0, <2>2, PushedAt
    <3> QED
      BY <1>1, <1>2, <2>2, <2>3, <3>1
  <2> QED
    BY <1>2, <2>2, <2>3, <2>4 DEF AtMost
<1> QED
  BY <1>0, <1>3, <1>4, <1>5, <1>6, <1>7, <1>8, <1>9 DEF Moved

LEMMA RunEndsStep ==
    ASSUME CompletionInv, TypeOK', [Next]_vars, NEW s \in StreamIds
    PROVE  RunEnds(s)'
<1>0. TypeOK /\ RunEnds(s)
  BY DEF CompletionInv, DeliveryInv
<1>1. CASE Quiet
  BY <1>0, <1>1 DEF Quiet, RunEnds
<1>2. ASSUME NEW t \in StreamIds, NEW kind \in Kinds, NEW from, NEW to,
             Produce(t, from, kind, to), InOrder(t, from, kind, to)
      PROVE  RunEnds(s)'
  <2>1. AppendEvent(t, kind) /\ producer[t] = from /\ producer' = [producer EXCEPT ![t] = to]
    BY <1>2 DEF Produce
  <2>2. CASE s # t
    BY <1>0, <2>1, <2>2, AppendIs DEF RunEnds, TypeOK
  <2>3. CASE s = t
    <3>1. producer'[s] = to /\ producer[s] = from /\ s \in open
          /\ (done'[s] <=> (done[s] \/ kind \in TerminalKinds))
      BY <1>0, <2>1, <2>3, AppendIs DEF TypeOK
    <3> QED
      BY <1>0, <1>2, <2>3, <3>1 DEF RunEnds, InOrder
  <2> QED
    BY <2>2, <2>3
<1> QED
  BY <1>0, <1>1, <1>2, ProducesOrQuiet

(* A completed stream stays completed *)

\* The bounds of a mark, and what a client that receives x still owes.
LEMMA StopsGrown ==
    ASSUME NEW g \in Seq(Received), NEW x \in Received, NEW t,
           Stops(g, t), ~IsTerminal(x) => x.n < t
    PROVE  Stops(Append(g, x), t)
BY GrownAt DEF Stops

\* What a reader owes after a move that appends nothing to the stream.
LEMMA OwedStep ==
    ASSUME CompletionInv, DeliveryInv', NEW r \in Readers, NEW s \in StreamIds,
           s \in open, s \in open', done'[s], produced'[s] = produced[s],
           source'[r] = s, Moved(r), ~Fanned(r),
           NEW t \in 1..produced[s], CompletedAt(s, t)
    PROVE  Owed(r, s, t)'
<1>a. /\ TypeOK /\ TypeOK' /\ ReaderInv(r) /\ WindowIsTail
      /\ source[r] = s => Owed(r, s, t)
  BY DEF CompletionInv, DeliveryInv, CompletedAt
<1>b. /\ got[r] \in Seq(Received) /\ Pending(r) \in Seq(Payload)
      /\ produced[s] \in Nat
  BY <1>a, PendingType DEF Pending, TypeOK, RuntimeTypeOK
<1>c. t \in Nat /\ t > 0 /\ t <= produced[s]
  BY <1>b
<1>0. /\ TypeOK /\ TypeOK' /\ ReaderInv(r) /\ WindowIsTail
      /\ got[r] \in Seq(Received) /\ Pending(r) \in Seq(Payload)
      /\ produced[s] \in Nat /\ t \in Nat /\ t > 0 /\ t <= produced[s]
      /\ source[r] = s => Owed(r, s, t)
  BY <1>a, <1>b, <1>c
<1>1. CASE Kept(r)
  BY <1>0, <1>1 DEF Kept, SameSubscriptions, Owed
<1>2. CASE Ended(r)
  <2>1. EndsAt(Pending(r)', t) /\ AtMost(Pending(r)', t - 1) /\ pc'[r] \notin Reading
    BY <1>2, NothingOwed DEF Ended, Reading
  <2>2. Stops(got'[r], t)
    <3> SUFFICES ASSUME NEW i \in 1..Len(got'[r]), ~IsTerminal(got'[r][i])
                 PROVE  got'[r][i].n < t
      BY DEF Stops
    <3>1. i \in 1..Len(got[r]) /\ got'[r][i] = got[r][i]
      BY <1>0, <1>2, CutAt DEF Ended
    <3> QED
      BY <1>0, <1>2, <3>1 DEF Ended, Owed, Stops
  <2> QED
    BY <2>1, <2>2 DEF Owed
<1>3. CASE Answered(r)
  <2>1. EndsAt(Pending(r)', t) /\ AtMost(Pending(r)', t - 1)
    BY <1>3, NothingOwed DEF Answered
  <2>2. Stops(got'[r], t)
    BY <1>0, <1>3 DEF Answered, Stops
  <2>3. r \in subscribers'[s] => pc'[r] \notin Reading
    BY <1>3 DEF Answered
  <2> QED
    BY <2>1, <2>2, <2>3 DEF Owed
<1>4. CASE Noted(r)
  <2>1. PICK x \in Received : x.n = 0 /\ got'[r] = Append(got[r], x)
    BY <1>4 DEF Noted
  <2>2. Owed(r, s, t) /\ UNCHANGED Pending(r)
    BY <1>0, <1>4 DEF Noted
  <2>3. Stops(got'[r], t)
    BY <1>0, <2>1, <2>2, StopsGrown DEF Owed
  <2> QED
    BY <1>4, <2>2, <2>3 DEF Noted, SameSubscriptions, Owed
<1>5. CASE Took(r)
  <2> DEFINE x == Pending(r)[1]
  <2>1. /\ Owed(r, s, t) /\ Taken(Pending(r), Pending(r)')
        /\ got'[r] = Append(got[r], x)
        /\ r \in subscribers'[s] <=> r \in subscribers[s]
        /\ pc[r] \in Reading /\ (pc'[r] \in Reading => ~IsTerminal(x))
    BY <1>0, <1>5 DEF Took, SameSubscriptions
  <2>2. /\ Len(Pending(r)) \in Nat /\ Len(Pending(r)') \in Nat
        /\ Len(Pending(r)) = Len(Pending(r)') + 1
        /\ 1 \in 1..Len(Pending(r)) /\ x \in Received /\ x.n \in Nat
        /\ \A i \in 1..Len(Pending(r)') :
              i + 1 \in 1..Len(Pending(r)) /\ Pending(r)'[i] = Pending(r)[i+1]
    BY <1>0, <2>1, TakenAt, ElementOfSeq, PendingAt, ReceivedTypes DEF Taken
  <2>3. CASE r \in subscribers[s]
    <3>1. x.n = produced[s] - Len(Pending(r)) + 1
      <4>1. UpTo(got[r], Pending(r), produced[s])
        BY <1>0, <2>3 DEF ReaderInv, Pending
      <4> QED
        BY <2>2, <4>1 DEF UpTo
    <3>2. produced[s] - Len(Pending(r)) < t /\ EndsAt(Pending(r), t)
      BY <2>1, <2>3 DEF Owed
    <3>3. ~IsTerminal(x) => x.n < t
      <4>1. x.n <= t
        BY <1>0, <2>2, <3>1, <3>2
      <4>2. x.n = t => IsTerminal(x)
        BY <2>2, <3>2 DEF EndsAt
      <4> QED
        BY <1>0, <2>2, <4>1, <4>2
    <3>4. Stops(got'[r], t)
      BY <1>0, <2>1, <2>2, <3>3, StopsGrown DEF Owed
    <3>5. EndsAt(Pending(r)', t)
      BY <2>2, <3>2 DEF EndsAt
    <3>6. pc'[r] \in Reading => produced[s] - Len(Pending(r)') < t
      BY <1>0, <2>1, <2>2, <3>1, <3>3
    <3> QED
      BY <2>1, <2>3, <3>4, <3>5, <3>6 DEF Owed
  <2>4. CASE r \notin subscribers[s]
    <3>1. \A i \in 1..Len(Pending(r)) : Pending(r)[i].n <= t - 1
      BY <2>1, <2>4 DEF Owed, AtMost
    <3>2. x.n < t
      BY <1>0, <2>2, <3>1
    <3>3. Stops(got'[r], t)
      BY <1>0, <2>1, <2>2, <3>2, StopsGrown DEF Owed
    <3>4. AtMost(Pending(r)', t - 1)
      BY <2>2, <3>1 DEF AtMost
    <3> QED
      BY <2>1, <2>4, <3>3, <3>4 DEF Owed
  <2> QED
    BY <2>3, <2>4
<1>6. CASE Started(r)
  <2>1. PICK i \in 0..Len(events[s]) :
          /\ UNCHANGED got[r]
          /\ \/ i = 0 /\ got[r] = <<>> /\ s \in RunStreams
             \/ /\ i > 0 /\ got[r] # <<>> /\ ~Satisfied(r)
                /\ source[r] = s /\ got[r][Len(got[r])].n = events[s][i].n
          /\ Len(Pending(r)') = Len(events[s]) - i
          /\ \A j \in 1..Len(Pending(r)') : Pending(r)'[j] = events[s][i + j]
          /\ r \in subscribers'[s]
    BY <1>6 DEF Started
  <2>2. /\ events[s] \in Seq(Payload) /\ Len(events[s]) \in Nat
        /\ \A j \in 1..Len(events[s]) : events[s][j].n = produced[s] - Len(events[s]) + j
    BY <1>0, LenProperties DEF WindowIsTail, TypeOK, RuntimeTypeOK
  <2>3. EndsAt(Pending(r)', t)
    <3> SUFFICES ASSUME NEW j \in 1..Len(Pending(r)'), Pending(r)'[j].n = t
                 PROVE  IsTerminal(Pending(r)'[j])
      BY DEF EndsAt
    <3>1. i + j \in 1..Len(events[s]) /\ Pending(r)'[j] = events[s][i + j]
      BY <2>1, <2>2
    <3> QED
      BY <3>1 DEF CompletedAt, EndsAt
  <2>4. CASE i = 0 /\ got[r] = <<>> /\ s \in RunStreams
    <3>1. Stops(got'[r], t)
      BY <2>1, <2>4, EmptySeq DEF Stops
    <3>2. t = produced[s] /\ Len(events[s]) > 0
      BY <2>2, <2>4, EmptySeq DEF CompletedAt
    <3>3. produced[s] - Len(Pending(r)') < t
      BY <1>0, <2>1, <2>2, <2>4, <3>2
    <3> QED
      BY <2>1, <2>3, <3>1, <3>3 DEF Owed
  <2>5. CASE /\ i > 0 /\ got[r] # <<>> /\ ~Satisfied(r)
             /\ source[r] = s /\ got[r][Len(got[r])].n = events[s][i].n
    <3>1. Stops(got[r], t)
      BY <1>0, <2>5 DEF Owed
    <3>2. Len(got[r]) \in 1..Len(got[r])
      BY <1>0, <2>5, EmptySeq, LenProperties
    <3>3. got[r][Len(got[r])].n < t
      BY <2>5, <3>1, <3>2 DEF Stops, Satisfied
    <3>4. i \in 1..Len(events[s])
      BY <2>2, <2>5
    <3>5. produced[s] - Len(Pending(r)') = got[r][Len(got[r])].n
      <4>1. events[s][i].n = produced[s] - Len(events[s]) + i
        BY <2>2, <3>4
      <4>2. Len(Pending(r)') = Len(events[s]) - i
        BY <2>1
      <4>3. produced[s] - (Len(events[s]) - i) = produced[s] - Len(events[s]) + i
        BY <1>0, <2>2
      <4> QED
        BY <2>5, <4>1, <4>2, <4>3
    <3>6. produced'[s] - Len(Pending(r)') < t
      BY <3>3, <3>5
    <3> QED
      BY <2>1, <2>3, <2>5, <3>1, <3>6 DEF Owed
  <2> QED
    BY <2>1, <2>4, <2>5
<1> QED
  BY <1>1, <1>2, <1>3, <1>4, <1>5, <1>6 DEF Moved

\* An event that joins the window, as it bears on event t.
LEMMA WindowEnds ==
    ASSUME NEW w \in Seq(Payload), NEW x \in Payload, NEW t,
           EndsAt(w, t), x.n = t => IsTerminal(x)
    PROVE  EndsAt(PushWindow(w, x), t) /\ PushWindow(w, x) # <<>>
<1> DEFINE v == PushWindow(w, x)
<1>1. /\ v \in Seq(Payload) /\ Len(v) \in Nat \ {0} /\ Len(w) \in Nat
      /\ Len(w) + 1 - Len(v) \in {0, 1}
      /\ v[Len(v)] = x
      /\ \A i \in 1..(Len(v) - 1) : v[i] = w[i + (Len(w) + 1 - Len(v))]
  BY PushProperties, LenProperties
<1> HIDE DEF v
<1>2. v # <<>>
  BY <1>1, EmptySeq
<1>3. ASSUME NEW i \in 1..Len(v), v[i].n = t
      PROVE  IsTerminal(v[i])
  <2>1. CASE i = Len(v)
    BY <1>1, <1>3, <2>1
  <2>2. CASE i # Len(v)
    <3>1. i \in 1..(Len(v) - 1) /\ i + (Len(w) + 1 - Len(v)) \in 1..Len(w)
      BY <1>1, <2>2
    <3>2. v[i] = w[i + (Len(w) + 1 - Len(v))]
      BY <1>1, <3>1
    <3> QED
      BY <1>3, <3>1, <3>2 DEF EndsAt
  <2> QED
    BY <2>1, <2>2
<1> QED
  BY <1>2, <1>3 DEF EndsAt, v

\* Every event of the window is one of those produced.
LEMMA WindowBelow ==
    ASSUME TypeOK, WindowIsTail, NEW s \in open, NEW i \in 1..Len(events[s])
    PROVE  events[s][i].n <= produced[s]
<1>1. events[s] \in Seq(Payload) /\ Len(events[s]) \in Nat /\ produced[s] \in Nat
  BY LenProperties DEF TypeOK, RuntimeTypeOK
<1>2. events[s][i].n = produced[s] - Len(events[s]) + i /\ i <= Len(events[s]) /\ i \in Nat
  BY <1>1 DEF WindowIsTail
<1> QED
  BY <1>1, <1>2

\* An appended terminal event completes its stream, again or for the first time:
\* all that anybody holds is older.
LEMMA TerminalCompletes ==
    ASSUME CompletionInv, DeliveryInv', NEW s \in StreamIds, NEW kind \in TerminalKinds,
           AppendEvent(s, kind), UNCHANGED readerVars, NEW t \in Nat, t = produced[s] + 1
    PROVE  CompletedAt(s, t)'
<1> DEFINE x == Event(s, kind)
<1>0. TypeOK /\ WindowIsTail /\ kind \in Kinds
  BY DEF CompletionInv, DeliveryInv, Kinds, TerminalKinds
<1>1. /\ s \in open /\ produced'[s] = t /\ produced[s] \in Nat
      /\ events[s] \in Seq(Payload) /\ x \in Payload
      /\ events'[s] = PushWindow(events[s], x)
  BY <1>0, AppendIs
<1>2. IsTerminal(x) /\ x.n = t
  BY DEF IsTerminal, Event
<1>3. UNCHANGED <<source, got, pc, subscribers>>
  BY DEF AppendEvent, readerVars
<1> HIDE DEF x
<1>4. EndsAt(events[s], t)
  <2>1. ASSUME NEW i \in 1..Len(events[s])
        PROVE  events[s][i].n # t
    <3>1. events[s][i].n <= produced[s] /\ events[s][i].n \in Nat
      BY <1>0, <1>1, WindowBelow, PayloadAt
    <3> QED
      BY <1>1, <3>1
  <2> QED
    BY <2>1 DEF EndsAt
<1>5. EndsAt(events'[s], t) /\ events'[s] # <<>>
  BY <1>1, <1>2, <1>4, WindowEnds
<1>6. ASSUME NEW r \in Readers, source'[r] = s
      PROVE  /\ Stops(got'[r], t)
             /\ r \in subscribers'[s] =>
                   /\ EndsAt(Pending(r)', t)
                   /\ pc'[r] \in Reading => produced'[s] - Len(Pending(r)') < t
             /\ r \notin subscribers'[s] => AtMost(Pending(r)', t - 1)
  <2>1. /\ got[r] \in Seq(Received) /\ Pending(r) \in Seq(Payload)
        /\ AtMost(got[r], produced[s]) /\ AtMost(Pending(r), produced[s])
    BY <1>0, <1>3, <1>6, PendingType DEF CompletionInv, Known, Pending
  <2>2. /\ Len(Pending(r)) \in Nat
        /\ \A i \in 1..Len(got[r]) : got[r][i].n \in Nat
        /\ \A i \in 1..Len(Pending(r)) : Pending(r)[i].n \in Nat
    BY <2>1, ReceivedAt, PendingAt
  <2>3. Stops(got'[r], t)
    <3>1. ASSUME NEW i \in 1..Len(got[r])
          PROVE  got[r][i].n < t
      <4>1. got[r][i].n <= produced[s] /\ got[r][i].n \in Nat
        BY <2>1, <2>2 DEF AtMost
      <4> QED
        BY <1>1, <4>1
    <3> QED
      BY <1>3, <3>1 DEF Stops
  <2>4. CASE r \in subscribers[s]
    <3>1. Pushed(Pending(r), Pending(r)', x)
      BY <1>0, <2>4, FannedPushes DEF CompletionInv, x
    <3>2. Len(Pending(r)') = Len(Pending(r)) + 1
      BY <3>1 DEF Pushed
    <3>3. ASSUME NEW i \in 1..Len(Pending(r)'), Pending(r)'[i].n = t
          PROVE  IsTerminal(Pending(r)'[i])
      <4>1. (i \in 1..Len(Pending(r)) /\ Pending(r)'[i] = Pending(r)[i]) \/ Pending(r)'[i] = x
        BY <2>1, <3>1, PushedAt
      <4>2. CASE i \in 1..Len(Pending(r)) /\ Pending(r)'[i] = Pending(r)[i]
        <5>1. Pending(r)[i].n <= produced[s] /\ Pending(r)[i].n \in Nat
          BY <2>1, <2>2, <4>2 DEF AtMost
        <5> QED
          BY <1>1, <3>3, <4>2, <5>1
      <4> QED
        BY <1>2, <4>1, <4>2
    <3>4. produced'[s] - Len(Pending(r)') < t
      BY <1>1, <2>2, <3>2
    <3> QED
      BY <1>3, <2>3, <2>4, <3>3, <3>4 DEF EndsAt
  <2>5. CASE r \notin subscribers[s]
    <3>1. UNCHANGED Pending(r)
      BY <2>5 DEF Pending, AppendEvent, Receives, readerVars
    <3>2. AtMost(Pending(r), t - 1)
      BY <1>1, <2>1, <2>2 DEF AtMost
    <3> QED
      BY <1>3, <2>3, <2>5, <3>1, <3>2
  <2> QED
    BY <2>4, <2>5
<1> QED
  BY <1>1, <1>5, <1>6 DEF CompletedAt, Owed

\* A chat producer that goes on after stream_error leaves the completion as it is.
LEMMA MoreAfterError ==
    ASSUME CompletionInv, DeliveryInv', NEW s \in StreamIds, s \notin RunStreams,
           NEW kind \in Kinds, AppendEvent(s, kind), UNCHANGED readerVars,
           NEW t \in 1..produced[s], CompletedAt(s, t)
    PROVE  CompletedAt(s, t)'
<1> DEFINE x == Event(s, kind)
<1>0. TypeOK
  BY DEF CompletionInv, DeliveryInv
<1>1. /\ produced'[s] = produced[s] + 1 /\ produced[s] \in Nat
      /\ events[s] \in Seq(Payload) /\ x \in Payload
      /\ events'[s] = PushWindow(events[s], x)
  BY <1>0, AppendIs
<1>2. x.n # t /\ t \in Nat
  BY <1>1 DEF Event
<1>3. UNCHANGED <<source, got, pc, subscribers>>
  BY DEF AppendEvent, readerVars
<1> HIDE DEF x
<1>4. EndsAt(events'[s], t)
  BY <1>1, <1>2, WindowEnds DEF CompletedAt
<1>5. ASSUME NEW r \in Readers, source'[r] = s
      PROVE  Owed(r, s, t)'
  <2>1. Pending(r) \in Seq(Payload) /\ Owed(r, s, t)
    BY <1>0, <1>3, <1>5, PendingType DEF Pending, CompletedAt
  <2>2. CASE r \in subscribers[s]
    <3>1. Pushed(Pending(r), Pending(r)', x)
      BY <2>2, FannedPushes DEF CompletionInv, x
    <3>2. Len(Pending(r)') = Len(Pending(r)) + 1 /\ Len(Pending(r)) \in Nat
      BY <2>1, <3>1, LenProperties DEF Pushed
    <3>3. ASSUME NEW i \in 1..Len(Pending(r)'), Pending(r)'[i].n = t
          PROVE  IsTerminal(Pending(r)'[i])
      <4>1. i \in 1..Len(Pending(r)) /\ Pending(r)'[i] = Pending(r)[i]
        BY <1>2, <2>1, <3>1, <3>3, PushedAt
      <4> QED
        BY <2>1, <2>2, <3>3, <4>1 DEF Owed, EndsAt
    <3>4. pc[r] \in Reading => produced'[s] - Len(Pending(r)') < t
      <4>1. produced'[s] - Len(Pending(r)') = produced[s] - Len(Pending(r))
        BY <1>1, <3>2
      <4> QED
        BY <2>1, <2>2, <4>1 DEF Owed
    <3> QED
      BY <1>3, <2>1, <2>2, <3>3, <3>4 DEF Owed, EndsAt
  <2>3. CASE r \notin subscribers[s]
    <3>1. UNCHANGED Pending(r)
      BY <2>3 DEF Pending, AppendEvent, Receives, readerVars
    <3> QED
      BY <1>3, <2>1, <2>3, <3>1 DEF Owed
  <2> QED
    BY <2>2, <2>3
<1> QED
  BY <1>4, <1>5 DEF CompletedAt

LEMMA CompletedStep ==
    ASSUME CompletionInv, DeliveryInv', [Next]_vars, NEW s \in StreamIds
    PROVE  Completed(s)'
<1>0. /\ TypeOK /\ TypeOK' /\ Completed(s) /\ RunEnds(s)
      /\ \A r \in Readers : Moved(r)
  BY EveryReaderMoves DEF CompletionInv, DeliveryInv
<1> SUFFICES ASSUME s \in open', done'[s]
             PROVE  \E t \in 1..produced'[s] : CompletedAt(s, t)'
  BY DEF Completed
\* A step that appends nothing to s.
<1>1. ASSUME s \in open, done[s], UNCHANGED <<events[s], produced[s]>>,
             \A r \in Readers : source'[r] = s => ~Fanned(r)
      PROVE  \E t \in 1..produced'[s] : CompletedAt(s, t)'
  <2>1. PICK t \in 1..produced[s] : CompletedAt(s, t)
    BY <1>0, <1>1 DEF Completed
  <2>2. \A r \in Readers : source'[r] = s => Owed(r, s, t)'
    BY <1>0, <1>1, <2>1, OwedStep
  <2>3. CompletedAt(s, t)'
    BY <1>1, <2>1, <2>2 DEF CompletedAt
  <2> QED
    BY <1>1, <2>1, <2>3
<1>2. CASE Quiet
  <2>1. ASSUME NEW r \in Readers, Fanned(r)
        PROVE  FALSE
    <3>1. PICK u \in StreamIds, kind \in Kinds : AppendEvent(u, kind)
      BY <2>1 DEF Fanned
    <3>2. produced'[u] = produced[u] + 1 /\ produced[u] \in Nat
      BY <1>0, <3>1, AppendIs
    <3> QED
      BY <1>2, <3>2 DEF Quiet
  <2> QED
    BY <1>1, <1>2, <2>1 DEF Quiet
<1>3. ASSUME NEW u \in StreamIds, NEW kind \in Kinds, NEW from, NEW to \in ProducerStates,
             Produce(u, from, kind, to), InOrder(u, from, kind, to)
      PROVE  \E t \in 1..produced'[s] : CompletedAt(s, t)'
  <2>0. AppendEvent(u, kind) /\ UNCHANGED readerVars /\ producer[u] = from
    BY <1>3 DEF Produce
  <2>1. /\ u \in open /\ open' \subseteq open
        /\ produced'[u] = produced[u] + 1 /\ produced[u] \in Nat
        /\ done'[u] <=> (done[u] \/ kind \in TerminalKinds)
        /\ u # s => UNCHANGED <<produced[s], events[s], done[s]>>
    BY <1>0, <2>0, AppendIs
  <2>2. CASE u # s
    <3>1. ASSUME NEW r \in Readers, source'[r] = s, Fanned(r)
          PROVE  FALSE
      <4>1. PICK v \in StreamIds, k \in Kinds :
                AppendEvent(v, k) /\ UNCHANGED readerVars /\ r \in subscribers[v]
        BY <3>1 DEF Fanned
      <4>2. v = s
        BY <3>1, <4>1, FannedPushes DEF CompletionInv
      <4>3. produced'[s] = produced[s] + 1 /\ produced[s] \in Nat
        BY <1>0, <4>1, <4>2, AppendIs
      <4> QED
        BY <2>1, <2>2, <4>3
    <3> QED
      BY <1>1, <2>1, <2>2, <3>1
  <2>3. CASE u = s /\ kind \in TerminalKinds
    <3> DEFINE t == produced[s] + 1
    <3>1. t \in Nat /\ t \in 1..produced'[s]
      BY <2>1, <2>3
    <3>2. PICK n \in Nat : n = t
      BY <3>1
    <3>3. CompletedAt(s, n)'
      BY <2>0, <2>3, <3>2, TerminalCompletes
    <3> QED
      BY <3>1, <3>2, <3>3
  <2>4. CASE u = s /\ kind \notin TerminalKinds
    <3>1. done[s]
      BY <2>1, <2>4
    <3>2. s \notin RunStreams
      BY <1>0, <1>3, <2>0, <2>1, <2>4, <3>1 DEF RunEnds, InOrder
    <3>3. PICK t \in 1..produced[s] : CompletedAt(s, t)
      BY <1>0, <2>1, <2>4, <3>1 DEF Completed
    <3>4. CompletedAt(s, t)'
      BY <2>0, <2>4, <3>2, <3>3, MoreAfterError
    <3> QED
      BY <2>1, <2>4, <3>3, <3>4
  <2> QED
    BY <2>2, <2>3, <2>4
<1> QED
  BY <1>0, <1>2, <1>3, ProducesOrQuiet

LEMMA CompletionInvInit == Init => CompletionInv
<1> SUFFICES ASSUME Init
             PROVE  CompletionInv
  OBVIOUS
<1>1. DeliveryInv
  BY DeliveryInvInit
<1>2. open = {} /\ \A r \in Readers : source[r] = None /\ got[r] = <<>>
                                      /\ backlog[r] = <<>> /\ queue[r] = <<>>
  BY DEF Init, RuntimeInit
<1>3. \A s \in StreamIds : Completed(s) /\ RunEnds(s)
  BY <1>2 DEF Completed, RunEnds
<1>4. ASSUME NEW r \in Readers
      PROVE  Known(r)
  <2>1. <<>> \in Seq(Payload)
    BY EmptySeq
  <2>2. Pending(r) = <<>>
    BY <1>2, <2>1, ConcatEmptySeq DEF Pending
  <2> QED
    BY <1>2, <2>2, NothingOwed DEF Known
<1> QED
  BY <1>1, <1>3, <1>4 DEF CompletionInv

LEMMA CompletionInvStep ==
    ASSUME CompletionInv, [Next]_vars
    PROVE  CompletionInv'
<1>1. DeliveryInv'
  BY DeliveryInvStep DEF CompletionInv
<1>2. TypeOK'
  BY <1>1 DEF DeliveryInv
<1>3. \A s \in StreamIds : Completed(s)' /\ RunEnds(s)'
  BY <1>1, <1>2, CompletedStep, RunEndsStep
<1>4. \A r \in Readers : Known(r)'
  BY <1>1, KnownStep
<1> QED
  BY <1>1, <1>3, <1>4 DEF CompletionInv

LEMMA PendingHasTerminal ==
    ASSUME CompletionInv
    PROVE  TerminalPending
<1> SUFFICES ASSUME NEW r \in Readers, pc[r] = "live", source[r] \in open, done[source[r]],
                    r \in subscribers[source[r]]
             PROVE  \E i \in 1..Len(queue[r]) : IsTerminal(queue[r][i])
  BY DEF TerminalPending
<1> DEFINE s == source[r]
           p == queue[r]
<1>1. TypeOK /\ ReaderInv(r) /\ s \in StreamIds /\ Completed(s)
  BY DEF CompletionInv, DeliveryInv, TypeOK, RuntimeTypeOK
<1>2. p \in Seq(Payload) /\ Len(p) \in Nat /\ produced[s] \in Nat
  BY <1>1, LenProperties DEF TypeOK, RuntimeTypeOK
<1>3. Pending(r) = p /\ UpTo(got[r], p, produced[s])
  <2>1. backlog[r] = <<>>
    BY <1>1 DEF ReaderInv
  <2>2. backlog[r] \o queue[r] = p
    BY <1>2, <2>1, ConcatEmptySeq
  <2> QED
    BY <1>1, <2>2 DEF Pending, ReaderInv
<1>4. PICK t \in 1..produced[s] : CompletedAt(s, t)
  BY <1>1 DEF Completed
<1>5. EndsAt(p, t) /\ produced[s] - Len(p) < t
  BY <1>3, <1>4 DEF CompletedAt, Owed, Reading
<1> HIDE DEF s, p
<1>6. t - (produced[s] - Len(p)) \in 1..Len(p)
  BY <1>2, <1>4, <1>5
<1>7. PICK i \in 1..Len(p) : i = t - (produced[s] - Len(p))
  BY <1>6
<1>8. p[i].n = t
  <2>1. p[i].n = produced[s] - Len(p) + i
    BY <1>3 DEF UpTo
  <2> QED
    BY <1>2, <1>4, <1>7, <2>1
<1> QED
  BY <1>5, <1>8 DEF EndsAt, p

\* A stream that completed releases every reader: whoever waits on its queue has
\* a terminal event there, however often it reconnected and whatever the window
\* lost, and although a chat producer goes on after stream_error.
THEOREM ReadersSeeTheEnd == Spec => []TerminalPending
<1>1. Spec => []CompletionInv
  BY CompletionInvInit, CompletionInvStep, PTL DEF Spec
<1> QED
  BY <1>1, PendingHasTerminal, PTL
=============================================================================
