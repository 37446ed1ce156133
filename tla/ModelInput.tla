----------------------------- MODULE ModelInput -----------------------------
(***************************************************************************)
(* What a turn sends to its model: uploads, the files of the messages      *)
(* (FileService, ChatInputService.prepare_user_input), the boundary of a   *)
(* summary, the rounds that are kept, the plan of the context and the trim *)
(* behind it (llm_runtime/stream_input.py, context.py, context_planner.py, *)
(* messages.py).                                                           *)
(*                                                                         *)
(* A text is its size in tokens, an upload is its number.  A picture is    *)
(* found by the place of its message and its name.  Retrieval, tools and   *)
(* the interruption of a turn by a compression are ChatTurn's and          *)
(* TurnTools'; temporary and regenerated turns, and text files, are left  *)
(* out.                                                                    *)
(***************************************************************************)
EXTENDS Integers, Sequences, FiniteSets, SequencesExt, FiniteSetsExt

CONSTANTS None,
          Names,                \* of pictures
          Setups,               \* what a turn is given, see Allowance and Plan
          Sizes,                \* of questions, answers and summaries
          MaxUploads, MaxAsks,  \* bounds: uploads, questions
          MaxChanges            \* bound: deletions, boundaries, branches and copies

VARIABLES uploads,  \* the names they were uploaded under
          temp,     \* per name: the upload in the temporary directory, or 0
          files,    \* per place and name: the upload that is kept there, or 0
          log,      \* the messages of the session
          asks,     \* the turns
          moves,    \* history: the files moved, with the one that was meant
          changes,
          sent      \* what the last turn sent, and of what

vars == <<uploads, temp, files, log, asks, moves, changes, sent>>

Asks == 1..MaxAsks
Places == 0..(2 * MaxAsks + MaxChanges)
NoFiles == [at \in Places \X Names |-> 0]
NoTemp == [name \in Names |-> 0]

\* begun, a history, is the number of messages when its turn began.
Message(role, size, begun, pictures) ==
    [role |-> role, size |-> size, begun |-> begun, pictures |-> pictures]

-----------------------------------------------------------------------------
(* The budget and the plan *)

Share(n, percent) == (n * percent) \div 100

\* get_context_limit: the profile of the model, its configuration, or 4096.
Allowance(s) ==
    IF s.profile > 0 THEN s.profile - Share(s.profile, 5)
    ELSE LET length == IF s.length > 0 THEN s.length ELSE 4096
         IN  length - Max({1024, Min({32000, Share(length, 25)})})

Optional == <<"memory", "rag", "webpage", "search", "sources">>
Ratio == [memory |-> 16, rag |-> 18, webpage |-> 10, search |-> 10, sources |-> 8]
Least(name) == IF name = "sources" THEN 32 ELSE 24

\* _plan_segment: the size that a part gets.
Segment(name, size, room, required) ==
    IF size = 0 \/ (room < Least(name) /\ ~required) THEN 0 ELSE Min({size, room})

SizeOf(messages) == FoldFunction(+, 0, [i \in DOMAIN messages |-> messages[i].size])

\* The part of the budget that the history keeps, first a faulty one.
NoFloor(budget, history) == 0
Floor(budget, history) == Min({history, Max({128, Share(budget, 35)})})

\* ContextPlanner.plan: the sizes of all parts in their order, and the floor.
Plan(s, summary, messages) ==
    LET budget == Max({1, Allowance(s)})
        floor == Floor(budget, SizeOf(messages))
        short == Segment("summary", summary, Max({32, Share(budget, 15)}), TRUE)
        Given(n) == s.context[Optional[n]]
        Room(n, left) == Min({left, Max({24, Share(budget, Ratio[Optional[n]])})})
        left[n \in 0..Len(Optional)] ==
            IF n = 0 THEN Max({0, budget - s.system - short - floor})
            ELSE LET before == left[n - 1]
                 IN  before - Segment(Optional[n], Given(n), Room(n, before), FALSE)
        sizes == <<s.system, short>> \o [n \in DOMAIN Optional |-> left[n - 1] - left[n]]
    IN  [floor |-> floor, sizes |-> sizes,
         given |-> <<s.system, summary>> \o [n \in DOMAIN Optional |-> Given(n)]]

-----------------------------------------------------------------------------
(* From the session to the prompt *)

\* filter_messages_by_context_boundary.
Boundary(messages) ==
    Max({0} \cup {i \in DOMAIN messages : messages[i].role \in {"summary", "separator"}})
Recent(messages) == SubSeq(messages, Boundary(messages) + 1, Len(messages))
Summary(messages) ==
    LET b == Boundary(messages)
    IN  IF b > 0 /\ messages[b].role = "summary" THEN messages[b].size ELSE 0

\* _truncate_messages_by_rounds.
LastRounds(messages, rounds) ==
    LET users == {i \in DOMAIN messages : messages[i].role = "user"}
    IN  IF rounds <= 0 \/ Cardinality(users) <= rounds THEN messages
        ELSE LET start == CHOOSE i \in users : Cardinality({j \in users : j >= i}) = rounds
             IN  SubSeq(messages, start, Len(messages))

\* convert_to_langchain_messages: files are looked for by the place among these messages.
Converted(messages) ==
    [i \in DOMAIN messages |->
        [role |-> messages[i].role, size |-> messages[i].size,
         pictures |-> {[name |-> p.name, meant |-> p.meant, begun |-> messages[i].begun,
                        at |-> i - 1, got |-> files[<<i - 1, p.name>>]] :
                       p \in messages[i].pictures}]]

System(sizes) ==
    SelectSeq([n \in DOMAIN sizes |-> [role |-> "system", size |-> sizes[n], pictures |-> {}]],
              LAMBDA m : m.size > 0)

\* trim_messages of langchain, which counts 3 more for a message: the first message if it is
\* a system message, and the last ones that fit, from a user's on.
Cost(messages) == SizeOf(messages) + 3 * Len(messages)
Trimmed(messages, limit) ==
    LET leads == messages # <<>> /\ messages[1].role = "system"
        first == IF leads THEN <<messages[1]>> ELSE <<>>
        rest == SubSeq(messages, Len(first) + 1, Len(messages))
        From(i) == SubSeq(rest, i, Len(rest))
        starts == {i \in DOMAIN rest : rest[i].role = "user"
                                       /\ Cost(From(i)) <= limit - Cost(first)}
    IN  IF starts = {} THEN first ELSE first \o From(Min(starts))

\* prepare_stream_input; told is context_truncated, first a faulty one.
ToldOfPlan(recent, chosen, plan, all, parts) ==
    Len(chosen) < Len(recent) \/ plan.sizes # plan.given
Told(recent, chosen, plan, all, parts) ==
    Len(chosen) < Len(recent) \/ plan.sizes # plan.given \/ Len(parts) < Len(all)

Prepared(s) ==
    LET recent == Recent(log)
        chosen == LastRounds(recent, s.rounds)
        plan == Plan(s, Summary(log), chosen)
        all == System(plan.sizes) \o Converted(chosen)
        parts == Trimmed(all, Allowance(s))
    IN  [setup |-> s, recent |-> recent, plan |-> plan, all |-> all, parts |-> parts,
         told |-> Told(recent, chosen, plan, all, parts)]

-----------------------------------------------------------------------------
(* Uploads and turns *)

\* upload_file: the latest upload under a name is kept.
Upload(name) ==
    /\ Len(uploads) < MaxUploads
    /\ uploads' = Append(uploads, name)
    /\ temp' = [temp EXCEPT ![name] = Len(uploads) + 1]
    /\ UNCHANGED <<files, log, asks, moves, changes, sent>>

Attached == UNION {ToSet(asks[a].meant) : a \in Asks}

\* prepare_user_input begins with the number of messages; first a faulty one.
PlaceAfter(messages) == Len(messages) + 1
Place(messages) == Len(messages)

Begin(a, pictures) ==
    /\ asks[a].at = "idle" /\ \A b \in 1..(a - 1) : asks[b].at # "idle"
    /\ asks' = [asks EXCEPT ![a] = [at |-> "moving", begun |-> Len(log), place |-> Place(log),
                                    meant |-> pictures, left |-> pictures]]
    /\ UNCHANGED <<uploads, temp, files, log, moves, changes, sent>>

\* move_to_permanent, of one file after the other; the turn fails if one is gone.
Move(a) ==
    LET turn == asks[a]
        upload == Head(turn.left)
        name == uploads[upload]
    IN  /\ turn.at = "moving" /\ turn.left # <<>>
        /\ \/ /\ temp[name] # 0
              /\ temp' = [temp EXCEPT ![name] = 0]
              /\ files' = [files EXCEPT ![<<turn.place, name>>] = temp[name]]
              /\ moves' = moves \cup {[begun |-> turn.begun, name |-> name, meant |-> upload,
                                       got |-> temp[name]]}
              /\ asks' = [asks EXCEPT ![a].left = Tail(@)]
           \/ /\ temp[name] = 0 /\ asks' = [asks EXCEPT ![a].at = "failed"]
              /\ UNCHANGED <<temp, files, moves>>
        /\ UNCHANGED <<uploads, log, changes, sent>>

\* append_message.
Ask(a, size) ==
    LET turn == asks[a]
        pictures == {[name |-> uploads[u], meant |-> u] : u \in ToSet(turn.meant)}
    IN  /\ turn.at = "moving" /\ turn.left = <<>>
        /\ log' = Append(log, Message("user", size, turn.begun, pictures))
        /\ asks' = [asks EXCEPT ![a].at = "asked"]
        /\ UNCHANGED <<uploads, temp, files, moves, changes, sent>>

\* call_llm_stream, up to the answer.
Send(a, s, size) ==
    /\ asks[a].at = "asked"
    /\ sent' = Prepared(s)
    /\ log' = Append(log, Message("assistant", size, None, {}))
    /\ asks' = [asks EXCEPT ![a].at = "done"]
    /\ UNCHANGED <<uploads, temp, files, moves, changes>>

-----------------------------------------------------------------------------
(* What else changes the session *)

Change == changes < MaxChanges /\ changes' = changes + 1 /\ UNCHANGED <<uploads, moves, sent>>

Delete(i) == Change /\ log' = RemoveAt(log, i) /\ UNCHANGED <<temp, files, asks>>

Mark(role, size) ==
    Change /\ log' = Append(log, Message(role, size, None, {})) /\ UNCHANGED <<temp, files, asks>>

Quiet == \A a \in Asks : asks[a].at \in {"idle", "done", "failed"}

\* copy_session takes the files of the messages along, branch_session takes none.
Copy == Quiet /\ Change /\ temp' = NoTemp /\ UNCHANGED <<files, log, asks>>
Branch(i) ==
    /\ Quiet /\ Change
    /\ log' = [j \in 1..i |-> [log[j] EXCEPT !.begun = None]]
    /\ files' = NoFiles /\ temp' = NoTemp
    /\ UNCHANGED asks

Init ==
    /\ uploads = <<>> /\ temp = NoTemp /\ files = NoFiles /\ log = <<>>
    /\ asks = [a \in Asks |-> [at |-> "idle", begun |-> None, place |-> None, meant |-> <<>>,
                               left |-> <<>>]]
    /\ moves = {} /\ changes = 0 /\ sent = None

\* Up to two pictures that were not attached before.
Pictures ==
    LET free == (DOMAIN uploads) \ Attached
    IN  {pictures \in BoundedSeq(free, 2) : IsInjective(pictures)}

Next ==
    \/ \E name \in Names : Upload(name)
    \/ \E a \in Asks :
          \/ \E pictures \in Pictures : Begin(a, pictures)
          \/ Move(a)
          \/ \E size \in Sizes : Ask(a, size) \/ \E s \in Setups : Send(a, s, size)
    \/ \E i \in DOMAIN log : Delete(i) \/ Branch(i)
    \/ Mark("separator", 0) \/ \E size \in Sizes : Mark("summary", size)
    \/ Copy

Spec == Init /\ [][Next]_vars

-----------------------------------------------------------------------------
(* Properties *)

TypeOK ==
    /\ uploads \in Seq(Names) /\ Len(uploads) <= MaxUploads
    /\ temp \in [Names -> 0..MaxUploads] /\ files \in [Places \X Names -> 0..MaxUploads]
    /\ changes \in 0..MaxChanges
    /\ \A a \in Asks : asks[a].at \in {"idle", "moving", "asked", "done", "failed"}

(***************************************************************************)
(* A picture reaches the model with the message that it was attached to,   *)
(* and with no other.  The exceptions are messages that are not at the     *)
(* place any more where they were asked (one before was deleted, a         *)
(* boundary or the limit of rounds hides some, another was appended        *)
(* meanwhile, the session is a branch), uploads that replaced each other   *)
(* in the temporary directory, and two turns that began at one place with  *)
(* pictures of one name (prepare_user_input, move_to_permanent,            *)
(* convert_to_langchain_messages).                                         *)
(***************************************************************************)
PicturesAreTheirs ==
    sent # None =>
        \A i \in DOMAIN sent.parts : \A p \in sent.parts[i].pictures :
            \/ p.got = p.meant
            \/ p.begun # p.at
            \/ \E m \in moves : m.begun = p.begun /\ m.name = p.name
                                /\ (m.meant # p.meant \/ m.got # m.meant)

(***************************************************************************)
(* Unless the user is told that the context was truncated, the model gets  *)
(* every message since the last boundary, and the summary and every        *)
(* segment whole (is_context_plan_truncated, trim_to_context_limit).       *)
(***************************************************************************)
MissingIsTold ==
    sent # None /\ ~sent.told =>
        /\ Len(sent.parts) = Len(System(sent.plan.given)) + Len(sent.recent)
        /\ SizeOf(sent.parts) = SizeOf(System(sent.plan.given)) + SizeOf(sent.recent)

(***************************************************************************)
(* The question reaches the model, last, whatever else is given, if it     *)
(* fits beside the first segment; and the messages before it are those     *)
(* directly before it, from a user's on (trim_messages, start_on).         *)
(***************************************************************************)
QuestionArrives ==
    sent # None =>
        LET all == sent.all
            parts == sent.parts
            question == all[Len(all)]
            talk == SelectSeq(parts, LAMBDA m : m.role # "system")
        IN  /\ all # <<>> /\ question.role = "user"
                 /\ Cost(<<all[1]>>) + Cost(<<question>>) <= Allowance(sent.setup)
               => parts # <<>> /\ parts[Len(parts)] = question
            /\ talk # <<>> => talk[1].role = "user" /\ IsSuffix(talk, all)

(***************************************************************************)
(* The optional segments never take what the instructions, the summary and *)
(* the history keep: with them these fit, whatever is given (the reserved  *)
(* tokens and the remaining pool of plan).                                 *)
(***************************************************************************)
HistoryKeepsItsFloor ==
    sent # None =>
        LET sizes == sent.plan.sizes
            talk == SelectSeq(sent.all, LAMBDA m : m.role # "system")
            kept == Min({SizeOf(talk), Max({128, Share(Allowance(sent.setup), 35)})})
            optional == SizeOf(System(SubSeq(sizes, 3, Len(sizes))))
        IN  optional > 0 =>
              optional + sizes[1] + sizes[2] + kept <= Max({1, Allowance(sent.setup)})

InputWhole == PicturesAreTheirs /\ MissingIsTold /\ QuestionArrives /\ HistoryKeepsItsFloor
=============================================================================
