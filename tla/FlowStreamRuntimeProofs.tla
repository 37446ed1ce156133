---------------------- MODULE FlowStreamRuntimeProofs ----------------------
(***************************************************************************)
(* What one call of the stream runtime preserves, for every capacity, TTL, *)
(* set of streams and set of readers.  The components that use the runtime *)
(* cite these lemmas: their steps are RuntimeSteps.                        *)
(***************************************************************************)
EXTENDS FlowStreamRuntime, FiniteSetTheorems, SequenceTheorems, TLAPS

(***************************************************************************)
(* The steps a user of the runtime takes on its state: one method call, or *)
(* a generator taking from, or dropping, the queue it owns.                *)
(***************************************************************************)
TakeFromQueue(r) ==
    /\ queue[r] # <<>>
    /\ queue' = [queue EXCEPT ![r] = Tail(@)]
    /\ UNCHANGED <<open, done, seq, events, subscribers, idle, produced>>

DropQueue(r) ==
    /\ open' \in {open, Surviving}
    /\ queue' = [queue EXCEPT ![r] = <<>>]
    /\ UNCHANGED <<done, seq, events, subscribers, idle, produced>>

ReaderCall(r) ==
    \/ TakeFromQueue(r)
    \/ DropQueue(r)
    \/ \E s \in StreamIds : Subscribe(s, r) \/ Unsubscribe(s, r)

StreamCall(s) ==
    \/ CreateStream(s)
    \/ \E readers \in SUBSET Readers : AddStream(s, readers) /\ UNCHANGED <<queue, produced>>
    \/ \E kind \in Kinds : AppendEvent(s, kind)
    \/ TakeSeq(s)

RuntimeStep ==
    \/ \E r \in Readers : ReaderCall(r)
    \/ \E s \in StreamIds : StreamCall(s)
    \/ Lookup
    \/ Tick
    \/ UNCHANGED runtimeVars

-----------------------------------------------------------------------------
(* The registry *)

\* _gc only removes completed streams.
LEMMA SurvivingSubset ==
    /\ Surviving \subseteq open
    /\ \A s \in open : ~done[s] => s \in Surviving
BY DEF Surviving

\* What the registry may be after a step: with nothing added, or with one
\* stream added for which there was or was made room.
LEMMA RegistryAfterStep ==
    ASSUME RuntimeStep
    PROVE  \/ open' \subseteq open /\ Surviving \subseteq open'
           \/ \E s \in StreamIds, kept \in MakeRoom(Surviving) :
                 s \notin Surviving /\ open' = kept \cup {s}
<1>1. ASSUME NEW r \in Readers, ReaderCall(r)
      PROVE  open' \subseteq open /\ Surviving \subseteq open'
  BY <1>1, SurvivingSubset
     DEF ReaderCall, TakeFromQueue, DropQueue, Subscribe, Unsubscribe
<1>2. ASSUME NEW s \in StreamIds, StreamCall(s),
             ~(open' \subseteq open /\ Surviving \subseteq open')
      PROVE  s \notin Surviving /\ \E kept \in MakeRoom(Surviving) : open' = kept \cup {s}
  BY <1>2, SurvivingSubset
     DEF StreamCall, CreateStream, ReuseStream, AddStream, AppendEvent, TakeSeq
<1>3. Lookup \/ Tick \/ UNCHANGED runtimeVars
        => open' \subseteq open /\ Surviving \subseteq open'
  BY SurvivingSubset DEF Lookup, Tick, runtimeVars
<1> QED
  BY <1>1, <1>2, <1>3 DEF RuntimeStep

\* create_stream evicts before it adds: the registry stays within its limit.
LEMMA RegistryBoundedStep ==
    ASSUME RuntimeTypeOK, RegistryBounded, RuntimeStep
    PROVE  RegistryBounded'
<1>1. IsFiniteSet(open)
  BY RuntimeAssumption, FS_Subset DEF RuntimeTypeOK
<1>2. /\ IsFiniteSet(Surviving)
      /\ Cardinality(Surviving) \in Nat
      /\ Cardinality(Surviving) <= MaxActive
  BY <1>1, SurvivingSubset, FS_Subset, FS_CardinalityType, RuntimeAssumption
     DEF RegistryBounded
<1>3. CASE open' \subseteq open
  BY <1>1, <1>3, FS_Subset, FS_CardinalityType, RuntimeAssumption DEF RegistryBounded
<1>4. ASSUME NEW s \in StreamIds, NEW kept \in MakeRoom(Surviving),
             open' = kept \cup {s}
      PROVE  RegistryBounded'
  <2>1. IsFiniteSet(kept) /\ Cardinality(kept) \in Nat /\ Cardinality(kept) < MaxActive
    <3>1. CASE Cardinality(Surviving) < MaxActive
      BY <1>2, <3>1 DEF MakeRoom
    <3>2. CASE ~(Cardinality(Surviving) < MaxActive)
      <4>1. PICK x \in Surviving : kept = Surviving \ {x}
        BY <3>2 DEF MakeRoom, OldestCompleted
      <4>2. IsFiniteSet(kept) /\ Cardinality(kept) = Cardinality(Surviving) - 1
        BY <1>2, <4>1, FS_RemoveElement
      <4> QED
        BY <1>2, <4>2, FS_CardinalityType, RuntimeAssumption
    <3> QED
      BY <3>1, <3>2
  <2>2. Cardinality(kept \cup {s}) \in {Cardinality(kept), Cardinality(kept) + 1}
    <3>1. Cardinality(kept \cup {s}) = IF s \in kept THEN Cardinality(kept)
                                                     ELSE Cardinality(kept) + 1
      BY <2>1, FS_AddElement
    <3> QED
      BY <3>1
  <2>3. Cardinality(kept \cup {s}) \in Nat
    BY <2>1, FS_AddElement, FS_CardinalityType
  <2>4. Cardinality(open') <= MaxActive
    BY <1>4, <2>1, <2>2, <2>3, RuntimeAssumption
  <2> QED
    BY <2>4 DEF RegistryBounded
<1> QED
  BY <1>3, <1>4, RegistryAfterStep

\* Neither expiry nor eviction takes an active stream.
LEMMA ActiveKeptStep ==
    ASSUME RuntimeStep
    PROVE  ActiveKept
<1>1. CASE Surviving \subseteq open'
  BY <1>1, SurvivingSubset DEF ActiveKept
<1>2. ASSUME NEW s \in StreamIds, NEW kept \in MakeRoom(Surviving),
             open' = kept \cup {s}
      PROVE  ActiveKept
  <2>1. \A t \in Surviving : ~done[t] => t \in kept
    BY DEF MakeRoom, OldestCompleted
  <2> QED
    BY <1>2, <2>1, SurvivingSubset DEF ActiveKept
<1> QED
  BY <1>1, <1>2, RegistryAfterStep

-----------------------------------------------------------------------------
(* The replay window *)

\* An event built by AppendEvent is a payload.
LEMMA EventType ==
    ASSUME RuntimeTypeOK, NEW s \in StreamIds, NEW kind \in Kinds
    PROVE  [n |-> produced[s] + 1, seq |-> seq[s] + 1, kind |-> kind] \in Payload
BY DEF RuntimeTypeOK, Payload

\* What a sequence of payloads holds.
LEMMA PayloadAt ==
    ASSUME NEW window \in Seq(Payload), NEW i \in 1..Len(window)
    PROVE  window[i].n \in Nat /\ window[i].seq \in Nat
<1>1. window[i] \in Payload
  BY ElementOfSeq
<1> QED
  BY <1>1 DEF Payload

\* deque(maxlen): a push drops at most the oldest payload, puts the new one
\* last and stays within the limit.
LEMMA PushProperties ==
    ASSUME NEW window \in Seq(Payload), NEW p \in Payload
    PROVE  LET w == PushWindow(window, p)
               gone == Len(window) + 1 - Len(w)
           IN  /\ w \in Seq(Payload)
               /\ Len(w) \in Nat \ {0}
               /\ Len(window) <= MaxEvents => Len(w) <= MaxEvents
               /\ gone \in {0, 1}
               /\ w[Len(w)] = p
               /\ \A i \in 1..(Len(w) - 1) : w[i] = window[i + gone]
<1> DEFINE w == PushWindow(window, p)
           gone == Len(window) + 1 - Len(w)
<1>0. Len(window) \in Nat /\ MaxEvents \in Nat \ {0}
  BY LenProperties, RuntimeAssumption
<1>1. CASE Len(window) < MaxEvents
  <2>1. w = Append(window, p)
    BY <1>1 DEF PushWindow
  <2>2. /\ w \in Seq(Payload)
        /\ Len(w) = Len(window) + 1
        /\ \A i \in 1..Len(window) : w[i] = window[i]
        /\ w[Len(window) + 1] = p
    BY <2>1, AppendProperties
  <2> HIDE DEF w
  <2>3. gone = 0 /\ \A i \in 1..(Len(w) - 1) : w[i] = window[i + gone]
    BY <1>0, <2>2
  <2> QED
    BY <1>0, <1>1, <2>2, <2>3 DEF w
<1>2. CASE ~(Len(window) < MaxEvents)
  <2>1. window # <<>>
    BY <1>0, <1>2, EmptySeq
  <2>2. /\ Tail(window) \in Seq(Payload)
        /\ Len(Tail(window)) = Len(window) - 1
        /\ \A i \in 1..Len(Tail(window)) : Tail(window)[i] = window[i + 1]
    BY <2>1, HeadTailProperties
  <2>3. w = Append(Tail(window), p)
    BY <1>2 DEF PushWindow
  <2>4. /\ w \in Seq(Payload)
        /\ Len(w) = Len(Tail(window)) + 1
        /\ \A i \in 1..Len(Tail(window)) : w[i] = Tail(window)[i]
        /\ w[Len(Tail(window)) + 1] = p
    BY <2>2, <2>3, AppendProperties
  <2> HIDE DEF w
  <2>5. Len(w) = Len(window) /\ w[Len(w)] = p
    BY <1>0, <2>2, <2>4
  <2>6. gone = 1 /\ \A i \in 1..(Len(w) - 1) : w[i] = window[i + gone]
    BY <1>0, <2>2, <2>4, <2>5
  <2> QED
    BY <1>0, <1>2, <2>4, <2>5, <2>6 DEF w
<1> QED
  BY <1>1, <1>2

-----------------------------------------------------------------------------
(* The types *)

LEMMA RuntimeInitType == RuntimeInit => RuntimeTypeOK
BY RuntimeAssumption, EmptySeq DEF RuntimeInit, RuntimeTypeOK

LEMMA AppendType ==
    ASSUME RuntimeTypeOK, NEW s \in StreamIds, NEW kind \in Kinds, AppendEvent(s, kind)
    PROVE  RuntimeTypeOK'
<1> DEFINE p == [n |-> produced[s] + 1, seq |-> seq[s] + 1, kind |-> kind]
<1>1. p \in Payload
  BY EventType
<1>2. open' \subseteq StreamIds /\ done' \in [StreamIds -> BOOLEAN]
  BY SurvivingSubset DEF AppendEvent, Receives, RuntimeTypeOK, IsTerminal
<1>3. seq' \in [StreamIds -> Nat] /\ produced' \in [StreamIds -> Nat]
  BY DEF AppendEvent, Receives, RuntimeTypeOK
<1>4. events' \in [StreamIds -> Seq(Payload)]
  <2>1. events[s] \in Seq(Payload)
    BY DEF RuntimeTypeOK
  <2>2. PushWindow(events[s], p) \in Seq(Payload)
    BY <1>1, <2>1, PushProperties
  <2>3. events' = [events EXCEPT ![s] = PushWindow(events[s], p)]
    BY DEF AppendEvent, Receives
  <2> QED
    BY <2>2, <2>3 DEF RuntimeTypeOK
<1>5. subscribers' \in [StreamIds -> SUBSET Readers] /\ idle' \in [StreamIds -> 0..TTL]
  BY RuntimeAssumption DEF AppendEvent, Receives, RuntimeTypeOK
<1>6. queue' \in [Readers -> Seq(Payload)]
  <2>1. \A r \in Readers : queue[r] \in Seq(Payload) /\ Append(queue[r], p) \in Seq(Payload)
    BY <1>1, AppendProperties DEF RuntimeTypeOK
  <2>2. queue' = [r \in Readers |-> IF r \in subscribers[s] THEN Append(queue[r], p)
                                                         ELSE queue[r]]
    BY DEF AppendEvent, Receives
  <2> QED
    BY <2>1, <2>2
<1> QED
  BY <1>2, <1>3, <1>4, <1>5, <1>6 DEF RuntimeTypeOK

LEMMA CreateType ==
    ASSUME RuntimeTypeOK, NEW s \in StreamIds, NEW readers \in SUBSET Readers,
           ReuseStream(s) \/ AddStream(s, readers),
           UNCHANGED <<queue, produced>>
    PROVE  RuntimeTypeOK'
<1>1. 0 \in 0..TTL /\ <<>> \in Seq(Payload)
  BY RuntimeAssumption, EmptySeq
<1>2. CASE ReuseStream(s)
  <2>1. open' \subseteq StreamIds /\ idle' \in [StreamIds -> 0..TTL]
    BY <1>1, <1>2, SurvivingSubset DEF ReuseStream, RuntimeTypeOK
  <2>2. done' \in [StreamIds -> BOOLEAN] /\ seq' \in [StreamIds -> Nat]
    BY <1>2 DEF ReuseStream, RuntimeTypeOK
  <2>3. events' \in [StreamIds -> Seq(Payload)]
    BY <1>1, <1>2 DEF ReuseStream, RuntimeTypeOK
  <2>4. subscribers' \in [StreamIds -> SUBSET Readers]
    BY <1>2 DEF ReuseStream, RuntimeTypeOK
  <2> QED
    BY <2>1, <2>2, <2>3, <2>4 DEF RuntimeTypeOK
<1>3. CASE AddStream(s, readers)
  <2>1. open' \subseteq StreamIds
    BY <1>3, SurvivingSubset DEF AddStream, MakeRoom, OldestCompleted, RuntimeTypeOK
  <2>2. done' \in [StreamIds -> BOOLEAN] /\ seq' \in [StreamIds -> Nat]
    BY <1>3 DEF AddStream, RuntimeTypeOK
  <2>3. events' \in [StreamIds -> Seq(Payload)] /\ idle' \in [StreamIds -> 0..TTL]
    BY <1>1, <1>3 DEF AddStream, RuntimeTypeOK
  <2>4. subscribers' \in [StreamIds -> SUBSET Readers]
    BY <1>3 DEF AddStream, RuntimeTypeOK
  <2> QED
    BY <2>1, <2>2, <2>3, <2>4 DEF RuntimeTypeOK
<1> QED
  BY <1>2, <1>3

LEMMA ReaderCallType ==
    ASSUME RuntimeTypeOK, NEW r \in Readers, ReaderCall(r)
    PROVE  RuntimeTypeOK'
<1>1. ASSUME TakeFromQueue(r)
      PROVE  RuntimeTypeOK'
  <2>1. Tail(queue[r]) \in Seq(Payload)
    BY <1>1, HeadTailProperties DEF TakeFromQueue, RuntimeTypeOK
  <2> QED
    BY <1>1, <2>1 DEF TakeFromQueue, RuntimeTypeOK
<1>2. ASSUME DropQueue(r)
      PROVE  RuntimeTypeOK'
  BY <1>2, EmptySeq, SurvivingSubset DEF DropQueue, RuntimeTypeOK
<1>3. ASSUME NEW s \in StreamIds, Subscribe(s, r)
      PROVE  RuntimeTypeOK'
  <2>1. subscribers' \in [StreamIds -> SUBSET Readers]
    BY <1>3 DEF Subscribe, RuntimeTypeOK
  <2> QED
    BY <1>3, <2>1, EmptySeq, SurvivingSubset, RuntimeAssumption DEF Subscribe, RuntimeTypeOK
<1>4. ASSUME NEW s \in StreamIds, Unsubscribe(s, r)
      PROVE  RuntimeTypeOK'
  <2>1. subscribers' \in [StreamIds -> SUBSET Readers]
    BY <1>4 DEF Unsubscribe, RuntimeTypeOK
  <2>2. open' \subseteq StreamIds
    BY <1>4, SurvivingSubset DEF Unsubscribe, RuntimeTypeOK
  <2>3. idle' \in [StreamIds -> 0..TTL]
    <3>1. idle' = IF s \in open THEN [idle EXCEPT ![s] = 0] ELSE idle
      BY <1>4 DEF Unsubscribe
    <3>2. idle \in [StreamIds -> 0..TTL] /\ 0 \in 0..TTL
      BY RuntimeAssumption DEF RuntimeTypeOK
    <3> QED
      BY <3>1, <3>2
  <2>4. queue' \in [Readers -> Seq(Payload)]
    BY <1>4, EmptySeq DEF Unsubscribe, RuntimeTypeOK
  <2> QED
    BY <1>4, <2>1, <2>2, <2>3, <2>4 DEF Unsubscribe, RuntimeTypeOK
<1> QED
  BY <1>1, <1>2, <1>3, <1>4 DEF ReaderCall

LEMMA RuntimeTypeStep ==
    ASSUME RuntimeTypeOK, RuntimeStep
    PROVE  RuntimeTypeOK'
<1>1. ASSUME NEW s \in StreamIds, StreamCall(s)
      PROVE  RuntimeTypeOK'
  <2>1. CASE TakeSeq(s)
    BY <2>1, SurvivingSubset DEF TakeSeq, RuntimeTypeOK
  <2> QED
    BY <1>1, <2>1, AppendType, CreateType DEF StreamCall, CreateStream
<1>2. CASE Lookup
  BY <1>2, SurvivingSubset DEF Lookup, RuntimeTypeOK
<1>3. CASE Tick
  BY <1>3, RuntimeAssumption DEF Tick, RuntimeTypeOK
<1>4. CASE UNCHANGED runtimeVars
  BY <1>4 DEF runtimeVars, RuntimeTypeOK
<1> QED
  BY <1>1, <1>2, <1>3, <1>4, ReaderCallType DEF RuntimeStep

-----------------------------------------------------------------------------
(* The window holds the newest events *)

\* WindowIsTail, stream by stream.
IsTailOf(window, last, top) ==
    /\ Len(window) <= MaxEvents
    /\ \A i \in 1..Len(window) :
          /\ window[i].n = last - Len(window) + i
          /\ window[i].seq <= top
          /\ i > 1 => window[i-1].seq < window[i].seq

LEMMA WindowByStream ==
    WindowIsTail <=> \A s \in open : IsTailOf(events[s], produced[s], seq[s])
BY DEF WindowIsTail, IsTailOf

\* An empty window, and a window whose counter has moved on, stay tails.
LEMMA EmptyIsTail ==
    ASSUME NEW last, NEW top
    PROVE  IsTailOf(<<>>, last, top)
BY RuntimeAssumption DEF IsTailOf

LEMMA TailWithLargerCounter ==
    ASSUME NEW window \in Seq(Payload), NEW last, NEW top \in Nat, NEW more \in Nat,
           IsTailOf(window, last, top), top <= more
    PROVE  IsTailOf(window, last, more)
<1>1. \A i \in 1..Len(window) : window[i].seq \in Nat
  BY PayloadAt
<1> QED
  BY <1>1 DEF IsTailOf

\* Pushing the next event on a tail makes a tail.
LEMMA PushIsTail ==
    ASSUME NEW window \in Seq(Payload), NEW last \in Nat, NEW top \in Nat,
           IsTailOf(window, last, top),
           NEW p \in Payload, p.n = last + 1, p.seq = top + 1
    PROVE  IsTailOf(PushWindow(window, p), last + 1, top + 1)
<1> DEFINE w == PushWindow(window, p)
           gone == Len(window) + 1 - Len(w)
<1>1. Len(window) \in Nat
  BY LenProperties
<1>2. /\ Len(w) \in Nat \ {0}
      /\ Len(w) <= MaxEvents
      /\ gone \in {0, 1}
      /\ w[Len(w)] = p
      /\ \A i \in 1..(Len(w) - 1) : w[i] = window[i + gone]
  BY PushProperties DEF IsTailOf
<1>3. \A i \in 1..Len(window) : window[i].n \in Nat /\ window[i].seq \in Nat
  BY PayloadAt
<1> HIDE DEF w
<1>4. ASSUME NEW i \in 1..Len(w)
      PROVE  /\ w[i].n = (last + 1) - Len(w) + i
             /\ w[i].seq <= top + 1
             /\ i > 1 => w[i-1].seq < w[i].seq
  <2>1. CASE i = Len(w)
    <3>1. w[i].n = (last + 1) - Len(w) + i /\ w[i].seq <= top + 1
      BY <1>2, <2>1
    <3>2. ASSUME i > 1
          PROVE  w[i-1].seq < w[i].seq
      <4>1. w[i-1] = window[i - 1 + gone] /\ i - 1 + gone \in 1..Len(window)
        BY <1>1, <1>2, <2>1, <3>2
      <4>2. window[i - 1 + gone].seq <= top /\ window[i - 1 + gone].seq \in Nat
        BY <1>3, <4>1 DEF IsTailOf
      <4>3. w[i].seq = top + 1
        BY <1>2, <2>1
      <4>4. w[i-1].seq \in Nat /\ w[i-1].seq <= top
        BY <4>1, <4>2
      <4> QED
        BY <4>3, <4>4
    <3> QED
      BY <3>1, <3>2
  <2>2. CASE i # Len(w)
    <3>1. w[i] = window[i + gone] /\ i + gone \in 1..Len(window)
      BY <1>1, <1>2, <2>2
    <3>2. window[i + gone].n = last - Len(window) + (i + gone) /\ window[i + gone].seq <= top
      BY <3>1 DEF IsTailOf
    <3>3. ASSUME i > 1
          PROVE  w[i-1].seq < w[i].seq
      <4>1. w[i-1] = window[i - 1 + gone] /\ i - 1 + gone = (i + gone) - 1 /\ i + gone > 1
        BY <1>1, <1>2, <2>2, <3>3
      <4> QED
        BY <3>1, <4>1 DEF IsTailOf
    <3>4. w[i].n = (last + 1) - Len(w) + i
      <4>1. w[i].n = last - Len(window) + (i + gone)
        BY <3>1, <3>2
      <4>2. Len(w) \in Nat /\ Len(w) = Len(window) + 1 - gone /\ gone \in Nat
        BY <1>1, <1>2
      <4> HIDE DEF gone
      <4> QED
        BY <1>1, <4>1, <4>2
    <3>5. w[i].seq <= top + 1
      <4>1. w[i].seq \in Nat /\ w[i].seq <= top
        BY <1>3, <3>1, <3>2
      <4> QED
        BY <4>1
    <3> QED
      BY <3>3, <3>4, <3>5
  <2> QED
    BY <2>1, <2>2
<1> QED
  BY <1>2, <1>4 DEF IsTailOf, w

\* Steps that add no stream and no event.
LEMMA WindowUntouched ==
    ASSUME RuntimeTypeOK, RuntimeTypeOK', WindowIsTail,
           open' \subseteq open, UNCHANGED <<events, produced>>,
           \A s \in StreamIds : seq[s] <= seq'[s]
    PROVE  WindowIsTail'
<1> SUFFICES ASSUME NEW s \in open'
             PROVE  IsTailOf(events[s], produced[s], seq'[s])
  BY WindowByStream DEF WindowIsTail, IsTailOf
<1>1. s \in StreamIds /\ IsTailOf(events[s], produced[s], seq[s])
  BY WindowByStream DEF RuntimeTypeOK
<1>2. events[s] \in Seq(Payload) /\ seq[s] \in Nat /\ seq'[s] \in Nat
  BY <1>1 DEF RuntimeTypeOK
<1> QED
  BY <1>1, <1>2, TailWithLargerCounter

LEMMA WindowIsTailStep ==
    ASSUME RuntimeTypeOK, WindowIsTail, RuntimeStep
    PROVE  WindowIsTail'
<1>1. RuntimeTypeOK'
  BY RuntimeTypeStep
<1>2. \A s \in StreamIds : seq[s] \in Nat /\ seq[s] <= seq[s]
  BY DEF RuntimeTypeOK
<1>3. ASSUME NEW r \in Readers, ReaderCall(r)
      PROVE  WindowIsTail'
  <2>1. open' \subseteq open /\ UNCHANGED <<events, produced, seq>>
    BY <1>3, SurvivingSubset
       DEF ReaderCall, TakeFromQueue, DropQueue, Subscribe, Unsubscribe
  <2> QED
    BY <1>1, <1>2, <2>1, WindowUntouched
<1>4. CASE Lookup \/ Tick \/ UNCHANGED runtimeVars
  <2>1. open' \subseteq open /\ UNCHANGED <<events, produced, seq>>
    BY <1>4, SurvivingSubset DEF Lookup, Tick, runtimeVars
  <2> QED
    BY <1>1, <1>2, <2>1, WindowUntouched
<1>5. ASSUME NEW s \in StreamIds, TakeSeq(s)
      PROVE  WindowIsTail'
  <2>1. open' \subseteq open /\ UNCHANGED <<events, produced>>
    BY <1>5, SurvivingSubset DEF TakeSeq
  <2>2. \A t \in StreamIds : seq[t] <= seq'[t]
    BY <1>2, <1>5 DEF TakeSeq, RuntimeTypeOK
  <2> QED
    BY <1>1, <2>1, <2>2, WindowUntouched
<1>6. ASSUME NEW s \in StreamIds, NEW readers \in SUBSET Readers, UNCHANGED produced,
             ReuseStream(s) \/ AddStream(s, readers)
      PROVE  WindowIsTail'
  <2> SUFFICES ASSUME NEW t \in open'
               PROVE  IsTailOf(events'[t], produced[t], seq'[t])
    BY <1>6, WindowByStream DEF WindowIsTail, IsTailOf
  <2>1. t \in StreamIds
    BY <1>1 DEF RuntimeTypeOK
  <2>2. \/ events'[t] = <<>>
        \/ t \in open /\ events'[t] = events[t] /\ seq'[t] = seq[t]
    BY <1>6, <2>1, SurvivingSubset
       DEF ReuseStream, AddStream, MakeRoom, OldestCompleted, RuntimeTypeOK
  <2> QED
    BY <2>2, EmptyIsTail, WindowByStream
<1>7. ASSUME NEW s \in StreamIds, NEW kind \in Kinds, AppendEvent(s, kind)
      PROVE  WindowIsTail'
  <2> DEFINE p == [n |-> produced[s] + 1, seq |-> seq[s] + 1, kind |-> kind]
  <2>1. /\ s \in open /\ open' \subseteq open
        /\ events' = [events EXCEPT ![s] = PushWindow(events[s], p)]
        /\ produced' = [produced EXCEPT ![s] = produced[s] + 1]
        /\ seq' = [seq EXCEPT ![s] = seq[s] + 1]
    BY <1>7, SurvivingSubset DEF AppendEvent, Receives
  <2>2. p \in Payload
    BY EventType
  <2>3. IsTailOf(PushWindow(events[s], p), produced[s] + 1, seq[s] + 1)
    <3>1. IsTailOf(events[s], produced[s], seq[s])
      BY <2>1, WindowByStream
    <3>2. events[s] \in Seq(Payload) /\ produced[s] \in Nat /\ seq[s] \in Nat
      BY DEF RuntimeTypeOK
    <3> QED
      BY <2>2, <3>1, <3>2, PushIsTail
  <2> HIDE DEF p
  <2> SUFFICES ASSUME NEW t \in open'
               PROVE  IsTailOf(events'[t], produced'[t], seq'[t])
    BY WindowByStream DEF WindowIsTail, IsTailOf
  <2>4. t \in StreamIds /\ IsTailOf(events[t], produced[t], seq[t])
    BY <2>1, WindowByStream DEF RuntimeTypeOK
  <2>5. CASE t = s
    BY <2>1, <2>3, <2>5 DEF RuntimeTypeOK
  <2>6. CASE t # s
    BY <2>1, <2>4, <2>6 DEF RuntimeTypeOK
  <2> QED
    BY <2>5, <2>6
<1>8. ASSUME NEW s \in StreamIds, StreamCall(s)
      PROVE  WindowIsTail'
  BY <1>5, <1>6, <1>7, <1>8 DEF StreamCall, CreateStream
<1> QED
  BY <1>3, <1>4, <1>8 DEF RuntimeStep

=============================================================================
