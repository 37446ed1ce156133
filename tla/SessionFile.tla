---------------------------- MODULE SessionFile ----------------------------
(***************************************************************************)
(* The messages of one session as lines of its Markdown file: how          *)
(* ConversationStorage (infrastructure/storage/conversation_storage.py)    *)
(* writes them, finds them again, and writes them anew after an edit or a  *)
(* deletion; the Markdown export and the imports of Markdown and ChatGPT.  *)
(*                                                                         *)
(* A line is [is, of].  Lines that begin a message are of the kind of its  *)
(* role, comments of the kind of what they tell, the other kinds are text. *)
(* `of' is the message a line was first written for, for a line "id" the   *)
(* id.  The id that a message gets from its place is ByPlace(place).       *)
(* Whoever writes a message may write any line.  Operations that overlap   *)
(* are ConversationStorage's; titles and totals of usage are left out.     *)
(***************************************************************************)
EXTENDS Naturals, Sequences, FiniteSets, SequencesExt, FiniteSetsExt

CONSTANTS None,
          Shapes,         \* per role: the kinds of the lines that a message may have
          Edits,          \* those that a message may get later
          Conversations,  \* exported by ChatGPT: [nodes, current]
          MaxActs         \* bound: operations

Roles == {"user", "assistant", "summary", "separator"}
Comments == {"id", "member", "attachment", "usage", "cost", "sources", "meta"}
Headings == {"a user", "an assistant"}   \* "## User", not followed by a time

VARIABLES body,  \* the lines of the file
          step,  \* current_step
          view,  \* what a client was shown: its messages, or None
          log,   \* history: the messages there should be, but for those that fall apart
          acts,
          split,  \* history: a text was written that the file takes for several messages
          misled  \* history: another message than the one meant was changed

vars == <<body, step, view, log, acts, split, misled>>

Line(kind, n) == [is |-> kind, of |-> n]
Blank == Line("blank", 0)
Text(shape, n) == [i \in DOMAIN shape |-> Line(shape[i], n)]

-----------------------------------------------------------------------------
(* Reading *)

\* str.strip(), of a content and by frontmatter of the whole.
Stripped(lines) ==
    LET full == {i \in DOMAIN lines : lines[i].is # "blank"}
    IN  IF full = {} THEN <<>> ELSE SubSeq(lines, Min(full), Max(full))

\* Of most comments the last counts.
Told(extras, line) ==
    Append(IF line.is = "attachment" THEN extras
           ELSE SelectSeq(extras, LAMBDA e : e.is # line.is), line)

\* What a line adds to the messages before it.
Read(messages, line) ==
    LET last == Len(messages) IN
    CASE line.is \in Roles ->
            Append(messages, [role |-> line.is, text |-> <<>>, id |-> 0, extras |-> <<>>])
      [] line.is \notin Roles /\ messages = <<>> -> <<>>
      [] line.is = "id" /\ messages # <<>> -> [messages EXCEPT ![last].id = line.of]
      [] line.is \in Comments \ {"id"} /\ messages # <<>> ->
            [messages EXCEPT ![last].extras = Told(@, line)]
      [] OTHER -> [messages EXCEPT ![last].text = Append(@, line)]

\* The id of a message that has none; first a faulty one.
ByPlaceLast(place) == 100
ByPlace(place) == 100 + place

\* _parse_messages.
Parsed(lines) ==
    LET after[n \in 0..Len(lines)] == IF n = 0 THEN <<>> ELSE Read(after[n - 1], lines[n])
        messages == after[Len(lines)]
    IN  [i \in DOMAIN messages |->
            [messages[i] EXCEPT !.text = Stripped(@),
                                !.id = IF @ = 0 THEN ByPlace(i) ELSE @]]

Current == Parsed(body)
Answers(messages) == Cardinality({i \in DOMAIN messages : messages[i].role = "assistant"})

\* The number that list_sessions shows.
Listed(lines) ==
    Cardinality({i \in DOMAIN lines : lines[i].is \in {"user", "assistant"} \cup Headings})

\* The message a text was first written for.
Meant(message) == IF message.text = <<>> THEN 0 ELSE message.text[1].of

\* The place of the first message with this id, or none.
PlaceOf(messages, id) == {i \in DOMAIN messages : messages[i].id = id
                                                  /\ \A j \in 1..(i - 1) : messages[j].id # id}

-----------------------------------------------------------------------------
(* Writing *)

Written(message) ==
    <<Line(message.role, 0)>> \o message.text \o <<Blank>>
        \o (IF message.id = 0 THEN <<>> ELSE <<Line("id", message.id)>>) \o message.extras

\* What survives when all messages are written anew; first without their ids.
RewrittenUnnamed(messages, kinds) ==
    FlattenSeq([i \in DOMAIN messages |->
        Written([messages[i] EXCEPT !.id = 0, !.extras = SelectSeq(@, LAMBDA e : e.is \in kinds)])])
Rewritten(messages, kinds) ==
    FlattenSeq([i \in DOMAIN messages |->
        Written([messages[i] EXCEPT !.extras = SelectSeq(@, LAMBDA e : e.is \in kinds)])])

Survive == {"attachment", "usage", "cost", "meta"}
Carried == {"attachment", "usage", "cost"}   \* by set_messages, to another session

\* What goes with a message when it is appended.
Extras(role, n) ==
    CASE role = "user"      -> <<Line("attachment", n)>>
      [] role = "assistant" -> Text(<<"member", "usage", "cost", "sources">>, n)
      [] role = "summary"   -> <<Line("meta", n)>>
      [] OTHER              -> <<>>

-----------------------------------------------------------------------------
(* The history *)

FallsApart(text) == \E i \in DOMAIN text : text[i].is \in Roles
Expected(text) == Stripped(SelectSeq(text, LAMBDA l : l.is \notin Comments))
Record(role, text, id, extras) ==
    IF FallsApart(text) THEN <<>>
    ELSE <<[role |-> role, text |-> Expected(text), id |-> id, extras |-> ToSet(extras)]>>
Kept(entries, kinds) ==
    [i \in DOMAIN entries |-> [entries[i] EXCEPT !.extras = {e \in @ : e.is \in kinds}]]
Among(entries, messages) ==
    SelectSeq(entries, LAMBDA e : \E i \in DOMAIN messages : Meant(messages[i]) = Meant(e))

Acts == acts < MaxActs /\ acts' = acts + 1

-----------------------------------------------------------------------------
(* The operations *)

\* append_message, append_separator and append_summary; the last leaves the step alone.
AppendMessage(role, shape) ==
    LET n == acts + 1
        text == Text(shape, n)
    IN  /\ Acts
        /\ body' = Stripped(body)
               \o Written([role |-> role, text |-> text, id |-> n, extras |-> Extras(role, n)])
        /\ step' = IF role = "assistant" THEN step + 1 ELSE step
        /\ log' = log \o Record(role, text, n, Extras(role, n))
        /\ split' = (split \/ FallsApart(text))
        /\ UNCHANGED <<view, misled>>

\* get_session, by a client that looks once at each session.
Show == view = None /\ view' = Current /\ UNCHANGED <<body, step, log, acts, split, misled>>

\* truncate_messages_after: the first k stay.
Truncate(k) ==
    LET rest == SubSeq(Current, 1, k)
    IN  /\ Acts
        /\ body' = Rewritten(rest, Survive) /\ step' = Answers(rest)
        /\ log' = Kept(Among(log, rest), Survive)
        /\ UNCHANGED <<view, split, misled>>

Mistakes(message, shown) == Meant(message) # Meant(shown)

\* delete_message_by_id, of a message that the client was shown.
DeleteMessage(k) ==
    LET messages == Current IN
    \E place \in PlaceOf(messages, view[k].id) :
        LET rest == RemoveAt(messages, place)
        IN  /\ Acts
            /\ body' = Rewritten(rest, Survive) /\ step' = Answers(rest)
            /\ log' = Kept(SelectSeq(log, LAMBDA e : Meant(e) # Meant(view[k])), Survive)
            /\ misled' = (misled \/ Mistakes(messages[place], view[k]))
            /\ UNCHANGED <<view, split>>

\* update_message_content.
UpdateMessage(k, shape) ==
    LET messages == Current IN
    \E place \in PlaceOf(messages, view[k].id) :
        LET text == Text(shape, Meant(view[k]))
            edited(e) == Meant(e) = Meant(view[k])
        IN  /\ Acts /\ Meant(view[k]) # 0
            /\ body' = Rewritten([messages EXCEPT ![place].text = text], Survive)
            /\ log' = Kept(
                  IF FallsApart(text) THEN SelectSeq(log, LAMBDA e : ~edited(e))
                  ELSE [i \in DOMAIN log |-> IF edited(log[i])
                                             THEN [log[i] EXCEPT !.text = Expected(text)]
                                             ELSE log[i]], Survive)
            /\ misled' = (misled \/ Mistakes(messages[place], view[k]))
            /\ split' = (split \/ FallsApart(text))
            /\ UNCHANGED <<step, view>>

\* clear_all_messages.
Clear == Acts /\ body' = <<>> /\ step' = 0 /\ log' = <<>> /\ UNCHANGED <<view, split, misled>>

\* branch_session and duplicate_session; from here on it is about the other session.
Branch(k) ==
    LET messages == Current IN
    \E place \in PlaceOf(messages, view[k].id) :
        LET first == SubSeq(messages, 1, place)
        IN  /\ Acts
            /\ body' = Rewritten(first, Carried) /\ step' = Answers(first) /\ view' = None
            /\ log' = Kept(Among(log, first), Carried)
            /\ misled' = (misled \/ Mistakes(messages[place], view[k]))
            /\ UNCHANGED split

-----------------------------------------------------------------------------
(* Export and import *)

\* Thinking is shown before the rest of an answer.
Shown(message) ==
    LET thinks == {i \in DOMAIN message.text : message.text[i].is = "think"}
    IN  IF message.role # "assistant" \/ thinks = {} THEN message.text
        ELSE <<Line("details", Meant(message)), Blank>>
                 \o Stripped(SelectSeq(message.text, LAMBDA l : l.is # "think"))

\* _build_core_markdown, but for the title.
Exported(messages) ==
    FlattenSeq([i \in DOMAIN messages |->
        CASE messages[i].role = "user" ->
                <<Line("rule", 0), Line("a user", 0), Blank>> \o Shown(messages[i]) \o <<Blank>>
          [] messages[i].role = "assistant" ->
                <<Line("rule", 0), Line("an assistant", 0), Blank>>
                    \o Shown(messages[i]) \o <<Blank>>
          [] OTHER -> <<>>])

\* _detect_role_heading: any heading that mentions one of them.
Heading(line) ==
    CASE line.is \in {"user", "a user"}           -> "user"
      [] line.is \in {"assistant", "an assistant"} -> "assistant"
      [] OTHER                                     -> None

Gather(messages, line) ==
    CASE Heading(line) # None -> Append(messages, [role |-> Heading(line), text |-> <<>>])
      [] Heading(line) = None /\ (messages = <<>> \/ line.is = "rule") -> messages
      [] OTHER -> [messages EXCEPT ![Len(messages)].text = Append(@, line)]

\* _parse_markdown; messages without a text are dropped.
FromMarkdown(lines) ==
    LET after[n \in 0..Len(lines)] == IF n = 0 THEN <<>> ELSE Gather(after[n - 1], lines[n])
        found == after[Len(lines)]
        messages == [i \in DOMAIN found |->
                        [role |-> found[i].role, text |-> Stripped(found[i].text), id |-> 0,
                         extras |-> <<>>]]
    IN  SelectSeq(messages, LAMBDA m : m.text # <<>>)

\* Texts that come back from an export as they went.
Plain(text) == \A i \in DOMAIN text : text[i].is \in {"text", "blank"}

\* A title, which may mention a user, is followed by the messages.
ExportAndImport(title) ==
    LET messages == FromMarkdown(<<title>> \o Exported(Current))
        back == SelectSeq(log, LAMBDA e : e.role \in {"user", "assistant"} /\ Plain(e.text))
    IN  /\ Acts /\ messages # <<>>
        /\ body' = Rewritten(messages, Carried) /\ step' = Answers(messages) /\ view' = None
        /\ log' = [i \in DOMAIN back |-> [back[i] EXCEPT !.id = 0, !.extras = {}]]
        /\ split' = (split \/ \E i \in DOMAIN Current : ~Plain(Current[i].text))
        /\ UNCHANGED misled

\* _extract_messages: from the current node, or the latest one, up to the root.
Latest(nodes) ==
    LET timed == {i \in DOMAIN nodes : nodes[i].role # None /\ nodes[i].time > 0}
    IN  IF timed = {} THEN 0
        ELSE CHOOSE i \in timed : \A j \in timed :
                 nodes[j].time < nodes[i].time \/ (nodes[j].time = nodes[i].time /\ i <= j)
Start(c) == IF c.current \in DOMAIN c.nodes THEN c.current ELSE Latest(c.nodes)

PathTo(nodes, leaf) ==
    LET up[n \in 0..Len(nodes)] ==   \* after n steps, the root first
          IF n = 0 THEN <<>>
          ELSE LET at == IF n = 1 THEN leaf
                         ELSE IF up[n - 1] = <<>> THEN 0 ELSE nodes[Head(up[n - 1])].parent
               IN  IF at \notin DOMAIN nodes \/ at \in ToSet(up[n - 1]) THEN up[n - 1]
                   ELSE <<at>> \o up[n - 1]
    IN  up[Len(nodes)]

Visible(node) ==
    node.role \in {"user", "assistant"} /\ ~node.hidden /\ Stripped(node.text) # <<>>
FromChatGPT(c) ==
    LET path == SelectSeq(PathTo(c.nodes, Start(c)), LAMBDA n : Visible(c.nodes[n]))
    IN  [i \in DOMAIN path |->
            [role |-> c.nodes[path[i]].role, text |-> c.nodes[path[i]].text,
             id |-> path[i] + 50, extras |-> <<>>]]

-----------------------------------------------------------------------------
\* A new session, or one that was imported from ChatGPT.
Init ==
    /\ \E messages \in {<<>>} \cup {FromChatGPT(c) : c \in Conversations} :
          /\ body = Rewritten(messages, Carried) /\ step = Answers(messages)
          /\ log = FlattenSeq([i \in DOMAIN messages |->
                       Record(messages[i].role, messages[i].text, messages[i].id, <<>>)])
    /\ view = None /\ acts = 0 /\ split = FALSE /\ misled = FALSE

Next ==
    \/ \E role \in {"user", "assistant"} : \E shape \in Shapes[role] : AppendMessage(role, shape)
    \/ AppendMessage("summary", <<"text">>) \/ AppendMessage("separator", <<"rule">>)
    \/ Show \/ Clear
    \/ \E k \in 0..Len(Current) : Truncate(k)
    \/ \E k \in (IF view = None THEN {} ELSE DOMAIN view) :
          \/ DeleteMessage(k) \/ Branch(k)
          \/ \E shape \in Edits : UpdateMessage(k, shape)
    \/ \E title \in {Line("title", 0), Line("a user", 0)} : ExportAndImport(title)

Spec == Init /\ [][Next]_vars

-----------------------------------------------------------------------------
(* Properties *)

TypeOK == Len(log) <= Len(body) /\ step \in 0..(MaxActs + Len(body)) /\ acts \in 0..MaxActs

(***************************************************************************)
(* Whatever the messages say, and however often they are written anew:     *)
(* every message is read back as it was written or edited last, in its     *)
(* place, with its id and with what survives, but for lines that look like *)
(* a comment, which are swallowed.  Unless one falls apart there are no    *)
(* others, the step counts the answers, and so many messages are listed,   *)
(* headings in the texts aside (_parse_messages, and the five operations   *)
(* that write all messages anew).                                          *)
(***************************************************************************)
WrittenIsRead ==
    LET messages == Current
        mine == Among(messages, log)
        spoken == {i \in DOMAIN messages : messages[i].role \in {"user", "assistant"}}
        headings == {i \in DOMAIN messages : \E l \in ToSet(messages[i].text) : l.is \in Headings}
    IN  ~misled =>
        /\ Len(mine) = Len(log)
        /\ \A i \in DOMAIN log :
              /\ mine[i].role = log[i].role /\ mine[i].text = log[i].text
              /\ log[i].id # 0 => mine[i].id = log[i].id
              /\ log[i].extras \subseteq ToSet(mine[i].extras)
        /\ ~split =>
              /\ mine = messages /\ step = Answers(messages)
              /\ headings = {} => Listed(body) = Cardinality(spoken)

(***************************************************************************)
(* Who deletes, edits or branches at a message that was shown, long ago    *)
(* maybe, gets that message or none, also where ids come from the places   *)
(* of messages, unless a text fell apart: its pieces may take the id of    *)
(* another message (delete_message_by_id, update_message_content).         *)
(***************************************************************************)
MisledOnlyByPieces == misled => split

\* What is imported from ChatGPT is one branch of the conversation, from its root on, once.
OneBranch ==
    \A c \in Conversations :
        LET path == PathTo(c.nodes, Start(c))
        IN  /\ IsInjective(path)
            /\ \A i \in 2..Len(path) : c.nodes[path[i]].parent = path[i - 1]
            /\ path # <<>> => path[Len(path)] = Start(c)
            /\ path # <<>> => c.nodes[path[1]].parent \notin (DOMAIN c.nodes) \ ToSet(path)
=============================================================================
