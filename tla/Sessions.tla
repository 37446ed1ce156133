------------------------------ MODULE Sessions ------------------------------
(***************************************************************************)
(* The sessions as a whole: what api/routers/sessions.py and folders.py,   *)
(* SessionApplicationService, the two import services and the title        *)
(* generation do to them, a call of ConversationStorage at a time.  A call *)
(* is one step here; ConversationStorage takes the calls on one file       *)
(* apart, and ChatTurn the turns.                                          *)
(*                                                                         *)
(* A session is [place, temp, folder, title, msgs, assistant, model]:      *)
(* where its file lies, the flag of a temporary session, how its title     *)
(* reads and whose it is, the ids of its messages, the assistant it is for *)
(* or Absent, and whether it names a model.  Models stay enabled; groups,  *)
(* overrides and attachments are left out.                                 *)
(***************************************************************************)
EXTENDS Naturals, Sequences, FiniteSets

CONSTANTS Absent,      \* no session, folder, assistant or message list
          Workers,     \* requests of several steps that run at the same time
          Assistants, Default,
          Folders,     \* folders there are at first
          Histories,   \* messages the first session may have
          Imports,     \* the conversations of an export, each its messages
          TitleTexts,  \* how the titles of users, questions, models and exports may read
          MaxSessions, \* bound: sessions ever made
          MaxCalls     \* bound: requests

VARIABLES sess,       \* per id: the session, or Absent
          used,       \* how many ids have been given out
          folders,    \* folders there are
          assistants, \* per assistant: on, off or gone
          work,       \* per worker: the request it works on
          titles,     \* title generations under way
          requests,   \* how many requests so far
          promise,    \* history: messages a client was told a session has, until it changes
          named,      \* history: sessions with a plain title of the user's and no generation under way
          late        \* history: sessions that were in a folder too late for its deletion

chatsVars == <<sess, used, folders, assistants, work, titles, requests, promise, named, late>>

Ids == 1..MaxSessions
Places == {"chat", "project"}
Idle == [pc |-> "idle"]

\* What the code tells apart of a title's text: "New Conversation", "New Chat", the other
\* default titles, one with "..." in it, any other.  Anybody's title may read like any.
Looks == {"new", "chat", "default", "dots", "plain"}
Title == [look : Looks, by : {"user", "program"}]
ByUser(look) == [look |-> look, by |-> "user"]
ByProgram(look) == [look |-> look, by |-> "program"]

SessionRecords ==
    [place : Places, temp : BOOLEAN, folder : Folders \cup {Absent},
     title : Title, msgs : Seq(Nat), assistant : Assistants \cup {Absent}, model : BOOLEAN]

\* Messages are numbers, an export has a conversation, there may be a session, and Absent
\* is no assistant, folder, session, list of messages or title.
ASSUME ChatsAssumption ==
    /\ Histories \subseteq Seq(Nat) /\ Imports \in Seq(Seq(Nat)) /\ Imports # <<>>
    /\ TitleTexts \subseteq Looks /\ MaxSessions \in Nat \ {0} /\ MaxCalls \in Nat
    /\ Absent \notin Assistants \cup Folders \cup {"model"} /\ "model" \notin Assistants
    /\ Default \in Assistants \cup {"model"}
    /\ Absent \notin Seq(Nat) /\ Absent \notin SessionRecords \cup Looks

New(place, temp, assistant) ==
    [place |-> place, temp |-> temp, folder |-> Absent, title |-> ByProgram("new"), msgs |-> <<>>,
     assistant |-> assistant, model |-> TRUE]

ChatsInit ==
    /\ \E place \in Places, temp \in BOOLEAN, f \in Folders \cup {Absent}, msgs \in Histories,
          a \in Assistants \cup {Absent} :
          sess = [s \in Ids |-> IF s = 1
                    THEN [New(place, temp, a) EXCEPT
                             !.folder = IF place = "chat" THEN f ELSE Absent, !.msgs = msgs,
                             !.title = ByProgram(IF msgs = <<>> THEN "new" ELSE "dots")]
                    ELSE Absent]
    /\ used = 1 /\ folders = Folders
    /\ assistants = [a \in Assistants |-> "on"]
    /\ work = [t \in Workers |-> Idle] /\ titles = {} /\ requests = 0
    /\ promise = [s \in Ids |-> Absent] /\ named = {} /\ late = {}

\* _find_session_file in the directory of a context.
Finds(s, place) == s \in Ids /\ sess[s] # Absent /\ sess[s].place = place

-----------------------------------------------------------------------------
(* Targets *)

\* resolve_target: an assistant or a model that is enabled, or the default assistant.  First
\* a faulty one that leaves the assistant's model out.
Enabled(wanted) == wanted \in {"model"} \cup {a \in Assistants : assistants[a] = "on"}
Targets(wanted) == IF wanted = Absent THEN Default ELSE wanted
ResolvedWithoutModel(wanted) ==
    LET to == Targets(wanted)
    IN  [assistant |-> IF to = "model" THEN Absent ELSE to, model |-> to = "model"]
Resolved(wanted) ==
    LET to == Targets(wanted)
    IN  [assistant |-> IF to = "model" THEN Absent ELSE to, model |-> TRUE]
Wanted(session) == IF session.assistant = Absent THEN "model" ELSE session.assistant

\* get_session: a session whose assistant is gone becomes one for its model.
Orphaned(session) == session.assistant # Absent /\ assistants[session.assistant] = "gone"
Opens(session) == (session.assistant = Absent \/ Orphaned(session)) => session.model
OnceOpened(session) == IF Orphaned(session) THEN [session EXCEPT !.assistant = Absent] ELSE session

-----------------------------------------------------------------------------
(* Requests of one call *)

Request == requests < MaxCalls /\ requests' = requests + 1

\* A faulty or finished request leaves its task.
Ends(t) == work' = [work EXCEPT ![t] = Idle]

Adds(session) ==
    /\ used < MaxSessions /\ used' = used + 1
    /\ sess' = [sess EXCEPT ![used + 1] = session]

Made(place, temp, wanted) ==
    LET to == Resolved(wanted)
    IN  [New(place, temp, to.assistant) EXCEPT !.model = to.model]

Create(place, temp, wanted) ==
    /\ Request /\ Enabled(Targets(wanted)) /\ Adds(Made(place, temp, wanted))
    /\ UNCHANGED <<folders, assistants, work, titles, promise, named, late>>

\* A change of one session, to which the promise made about its messages still applies.
Changes(s, session) ==
    /\ Request /\ sess' = [sess EXCEPT ![s] = session]
    /\ UNCHANGED <<used, folders, assistants, work, titles, promise>>

Save(s, place) ==
    /\ Finds(s, place)
    /\ Changes(s, [sess[s] EXCEPT !.temp = FALSE])
    /\ UNCHANGED <<named, late>>

UpdateTarget(s, place, wanted) ==
    LET to == Resolved(wanted) IN
    /\ Finds(s, place) /\ wanted # Absent /\ Enabled(wanted)
    /\ Changes(s, [sess[s] EXCEPT !.assistant = to.assistant, !.model = to.model])
    /\ UNCHANGED <<named, late>>

Titling(s) == \E job \in titles : job.s = s

UpdateTitle(s, place, look) ==
    /\ Finds(s, place)
    /\ Changes(s, [sess[s] EXCEPT !.title = ByUser(look)])
    /\ named' = IF look = "plain" /\ ~Titling(s) THEN named \cup {s} ELSE named \ {s}
    /\ UNCHANGED late

Deleting(f) == f # Absent /\ (f \notin folders \/ \E t \in Workers :
                               work[t].pc = "clearing" /\ work[t].folder = f)

\* The folder is taken as it comes.
UpdateFolder(s, place, f) ==
    /\ Finds(s, place)
    /\ Changes(s, [sess[s] EXCEPT !.folder = f])
    /\ late' = IF Deleting(f) THEN late \cup {s} ELSE late \ {s}
    /\ UNCHANGED named

Move(s, place, target) ==
    /\ Finds(s, place) /\ place # target
    /\ Changes(s, [sess[s] EXCEPT !.place = target])
    /\ UNCHANGED <<named, late>>

Delete(s, place) ==
    /\ Request /\ Finds(s, place)
    /\ sess' = [sess EXCEPT ![s] = Absent]
    /\ promise' = [promise EXCEPT ![s] = Absent]
    /\ UNCHANGED <<used, folders, assistants, work, titles, named, late>>

\* The suffix of a copy makes a default title look like a good one, but dots stay.
Suffixed(title) == ByProgram(IF title.look = "dots" THEN "dots" ELSE "plain")

Copy(s, place, target) ==
    /\ Request /\ Finds(s, place)
    /\ Adds([sess[s] EXCEPT !.place = target, !.temp = FALSE, !.title = Suffixed(@)])
    /\ promise' = [promise EXCEPT ![used + 1] = sess[s].msgs]
    /\ late' = IF Deleting(sess[s].folder) THEN late \cup {used + 1} ELSE late
    /\ UNCHANGED <<folders, assistants, work, titles, named>>

-----------------------------------------------------------------------------
(* Branches and duplicates *)

\* The messages up to the one asked for; first a faulty one that stops before it.
UptoBefore(msgs, k) == SubSeq(msgs, 1, k - 1)
Upto(msgs, k) == SubSeq(msgs, 1, k)

\* branch_session at the k-th message, duplicate_session with all: the session is opened ...
ReadSource(t, s, place, k) ==
    /\ work[t].pc = "idle" /\ Request /\ Finds(s, place) /\ Opens(sess[s])
    /\ sess' = [sess EXCEPT ![s] = OnceOpened(sess[s])]
    /\ work' = [work EXCEPT ![t] =
                  [pc |-> "create", place |-> place, wanted |-> Wanted(OnceOpened(sess[s])),
                   title |-> Suffixed(sess[s].title), msgs |-> Upto(sess[s].msgs, k),
                   meant |-> [i \in 1..k |-> sess[s].msgs[i]], new |-> Absent]]
    /\ UNCHANGED <<used, folders, assistants, titles, promise, named, late>>

Branch(t, s, place) == Finds(s, place) /\ \E k \in DOMAIN sess[s].msgs : ReadSource(t, s, place, k)
Duplicate(t, s, place) == Finds(s, place) /\ ReadSource(t, s, place, Len(sess[s].msgs))

\* ... another one made, unless its assistant has been disabled or deleted meanwhile ...
MakeCopy(t) ==
    /\ work[t].pc = "create"
    /\ IF Enabled(work[t].wanted)
       THEN /\ Adds(Made(work[t].place, FALSE, work[t].wanted))
            /\ work' = [work EXCEPT ![t].pc = "title", ![t].new = used + 1]
       ELSE Ends(t) /\ UNCHANGED <<sess, used>>
    /\ UNCHANGED <<folders, assistants, titles, requests, promise, named, late>>

\* ... named, and filled; somebody may have deleted or moved it before.
TitleCopy(t) ==
    LET new == work[t].new IN
    /\ work[t].pc = "title"
    /\ IF Finds(new, work[t].place)
       THEN /\ sess' = [sess EXCEPT ![new].title = work[t].title]
            /\ IF work[t].msgs = <<>> THEN Ends(t)
               ELSE work' = [work EXCEPT ![t].pc = "fill"]
       ELSE Ends(t) /\ UNCHANGED sess
    /\ named' = named \ {new}
    /\ UNCHANGED <<used, folders, assistants, titles, requests, promise, late>>

FillCopy(t) ==
    LET new == work[t].new IN
    /\ work[t].pc = "fill" /\ Ends(t)
    /\ IF Finds(new, work[t].place)
       THEN /\ sess' = [sess EXCEPT ![new].msgs = work[t].msgs]
            /\ promise' = [promise EXCEPT ![new] = work[t].meant]
       ELSE UNCHANGED <<sess, promise>>
    /\ UNCHANGED <<used, folders, assistants, titles, requests, named, late>>

-----------------------------------------------------------------------------
(* Imports *)

Import(t, place) ==
    /\ work[t].pc = "idle" /\ Request
    /\ work' = [work EXCEPT ![t] = [pc |-> "import", place |-> place, at |-> 1, new |-> Absent]]
    /\ UNCHANGED <<sess, used, folders, assistants, titles, promise, named, late>>

\* On to the next conversation; its error is reported, or it was skipped or imported.
NextImport(t) ==
    IF work[t].at = Len(Imports) THEN Ends(t)
    ELSE work' = [work EXCEPT ![t].pc = "import", ![t].at = @ + 1]

ImportCreate(t) ==
    /\ work[t].pc = "import"
    /\ IF Imports[work[t].at] # <<>> /\ Enabled(Default)
       THEN /\ Adds(Made(work[t].place, FALSE, Absent))
            /\ work' = [work EXCEPT ![t].pc = "importFill", ![t].new = used + 1]
       ELSE NextImport(t) /\ UNCHANGED <<sess, used>>
    /\ UNCHANGED <<folders, assistants, titles, requests, promise, named, late>>

ImportFill(t) ==
    LET new == work[t].new IN
    /\ work[t].pc = "importFill"
    /\ IF Finds(new, work[t].place)
       THEN /\ sess' = [sess EXCEPT ![new].msgs = Imports[work[t].at]]
            /\ work' = [work EXCEPT ![t].pc = "importTitle"]
            /\ promise' = [promise EXCEPT ![new] = Imports[work[t].at]]
       ELSE NextImport(t) /\ UNCHANGED <<sess, promise>>
    /\ UNCHANGED <<used, folders, assistants, titles, requests, named, late>>

\* The title of the export, or of its first question, which may be cut.
ImportTitle(t, look) ==
    LET new == work[t].new IN
    /\ work[t].pc = "importTitle" /\ NextImport(t)
    /\ sess' = IF Finds(new, work[t].place) THEN [sess EXCEPT ![new].title = ByProgram(look)] ELSE sess
    /\ named' = named \ {new}
    /\ UNCHANGED <<used, folders, assistants, titles, requests, promise, late>>

-----------------------------------------------------------------------------
(* Folders *)

\* delete_folder lists the sessions of the chat context, temporary ones left out; first a
\* faulty one that deletes the folder before it clears the sessions.
InFolder(f) == {s \in Ids : Finds(s, "chat") /\ ~sess[s].temp /\ sess[s].folder = f}
WithoutFolderFirst(f) == folders \ {f}
WithoutFolder(f) == folders

DeleteFolder(t, f) ==
    /\ work[t].pc = "idle" /\ Request
    /\ work' = [work EXCEPT ![t] = [pc |-> "clearing", folder |-> f, todo |-> InFolder(f)]]
    /\ folders' = WithoutFolder(f)
    /\ late' = late \cup {s \in Ids \ InFolder(f) : sess[s] # Absent /\ sess[s].folder = f}
    /\ UNCHANGED <<sess, used, assistants, titles, promise, named>>

\* A session that cannot be cleared is logged and left.
ClearFolder(t, s) ==
    /\ work[t].pc = "clearing" /\ s \in work[t].todo
    /\ work' = [work EXCEPT ![t].todo = @ \ {s}]
    /\ IF Finds(s, "chat")
       THEN sess' = [sess EXCEPT ![s].folder = Absent] /\ UNCHANGED late
       ELSE late' = late \cup {s} /\ UNCHANGED sess
    /\ UNCHANGED <<used, folders, assistants, titles, requests, promise, named>>

DropFolder(t) ==
    /\ work[t].pc = "clearing" /\ work[t].todo = {} /\ Ends(t)
    /\ folders' = folders \ {work[t].folder}
    /\ UNCHANGED <<sess, used, assistants, titles, requests, promise, named, late>>

-----------------------------------------------------------------------------
(* Turns and titles *)

\* The first question makes a title.  After a turn, a title that reads like a default or like
\* one that was cut has another one generated, whoever gave it, unless the session is
\* temporary; first a faulty check that takes any title.
Questioned(title) ==
    IF title.look \in {"new", "chat"} THEN {ByProgram(look) : look \in TitleTexts} ELSE {title}
ShouldGenerateAny(look) == look \in Looks
ShouldGenerate(look) == look \in {"new", "default", "dots"}

\* requests counts the request itself, so that it tells the jobs of a session apart.
Job(s) == [s |-> s, request |-> requests + 1, asked |-> FALSE]

\* A turn adds a question and an answer.  Titles may be switched off, or the turns too few.
Turn(s, place) ==
    LET n == Len(sess[s].msgs)
        opened == OnceOpened(sess[s])
    IN
    /\ Request /\ Finds(s, place) /\ Opens(sess[s])
    /\ \E title \in Questioned(sess[s].title) :
          /\ sess' = [sess EXCEPT ![s] = [opened EXCEPT !.msgs = @ \o <<n + 1, n + 2>>,
                                                        !.title = title]]
          /\ \/ titles' = titles
             \/ ~sess[s].temp /\ ShouldGenerate(title.look) /\ titles' = titles \cup {Job(s)}
    /\ promise' = [promise EXCEPT ![s] = Absent]
    /\ UNCHANGED <<used, folders, assistants, work, named, late>>

\* Messages are deleted; a session that has none left is called New Chat again.
Shorten(s, place, msgs) ==
    /\ Request /\ Finds(s, place)
    /\ sess' = [sess EXCEPT ![s].msgs = msgs,
                            ![s].title = IF msgs = <<>> THEN ByProgram("chat") ELSE @]
    /\ promise' = [promise EXCEPT ![s] = Absent]
    /\ named' = IF msgs = <<>> THEN named \ {s} ELSE named
    /\ UNCHANGED <<used, folders, assistants, work, titles, late>>

WithoutMessage(msgs, k) == SubSeq(msgs, 1, k - 1) \o SubSeq(msgs, k + 1, Len(msgs))
DeleteMessage(s, place) ==
    Finds(s, place) /\ \E k \in DOMAIN sess[s].msgs : Shorten(s, place, WithoutMessage(sess[s].msgs, k))
ClearMessages(s, place) == Shorten(s, place, <<>>)

\* The user asks for a title, whatever the session is called.
GenerateTitle(s) ==
    /\ Request /\ s <= used
    /\ titles' = titles \cup {Job(s)}
    /\ named' = named \ {s}
    /\ UNCHANGED <<sess, used, folders, assistants, work, promise, late>>

\* generate_title_async looks for the session among the chats ...
AskTitle(job) ==
    /\ ~job.asked
    /\ titles' = (titles \ {job})
                   \cup (IF Finds(job.s, "chat") /\ sess[job.s].msgs # <<>>
                         THEN {[job EXCEPT !.asked = TRUE]} ELSE {})
    /\ sess' = IF Finds(job.s, "chat") THEN [sess EXCEPT ![job.s] = OnceOpened(@)] ELSE sess
    /\ UNCHANGED <<used, folders, assistants, work, requests, promise, named, late>>

\* ... asks the model, which may be late, fail or say nothing, and stores the answer.
TakeTitle(job, look) ==
    /\ job.asked
    /\ titles' = titles \ {job}
    /\ sess' = IF look # Absent /\ Finds(job.s, "chat")
               THEN [sess EXCEPT ![job.s].title = ByProgram(look)] ELSE sess
    /\ UNCHANGED <<used, folders, assistants, work, requests, promise, named, late>>

-----------------------------------------------------------------------------
(* What happens around *)

ChangeAssistant(a, status) ==
    /\ assistants[a] \notin {"gone", status} /\ Request
    /\ assistants' = [assistants EXCEPT ![a] = status]
    /\ UNCHANGED <<sess, used, folders, work, titles, promise, named, late>>

\* The process ends with all it was doing; cleanup_temporary_sessions runs when it starts.
Restart ==
    /\ Request
    /\ work' = [t \in Workers |-> Idle] /\ titles' = {}
    /\ sess' = [s \in Ids |-> IF sess[s] # Absent /\ sess[s].temp THEN Absent ELSE sess[s]]
    /\ UNCHANGED <<used, folders, assistants, promise, named, late>>

ChatsNext ==
    \/ \E place \in Places :
          \/ \E temp \in BOOLEAN, wanted \in Assistants \cup {Absent, "model"} :
                Create(place, temp, wanted)
          \/ \E s \in Ids :
                \/ Save(s, place) \/ Delete(s, place)
                \/ \E look \in TitleTexts : UpdateTitle(s, place, look)
                \/ \E wanted \in Assistants \cup {"model"} : UpdateTarget(s, place, wanted)
                \/ \E f \in Folders \cup {Absent} : UpdateFolder(s, place, f)
                \/ \E target \in Places : Move(s, place, target) \/ Copy(s, place, target)
                \/ Turn(s, place) \/ DeleteMessage(s, place) \/ ClearMessages(s, place)
          \/ \E t \in Workers :
                \/ Import(t, place)
                \/ \E s \in Ids : Branch(t, s, place) \/ Duplicate(t, s, place)
    \/ \E t \in Workers :
          \/ MakeCopy(t) \/ TitleCopy(t) \/ FillCopy(t)
          \/ ImportCreate(t) \/ ImportFill(t)
          \/ \E look \in TitleTexts : ImportTitle(t, look)
          \/ \E f \in Folders : DeleteFolder(t, f)
          \/ \E s \in Ids : ClearFolder(t, s)
          \/ DropFolder(t)
    \/ \E s \in Ids : GenerateTitle(s)
    \/ \E job \in titles : AskTitle(job) \/ \E look \in TitleTexts \cup {Absent} : TakeTitle(job, look)
    \/ \E a \in Assistants, status \in {"on", "off", "gone"} : ChangeAssistant(a, status)
    \/ Restart

ChatsSpec == ChatsInit /\ [][ChatsNext]_chatsVars

-----------------------------------------------------------------------------
(* Properties *)

\* Every session opens, whatever has become of the assistant it was made for, and so does
\* every copy of it: get_session can fall back on a model.
SessionsOpen == \A s \in Ids : sess[s] # Absent => Opens(sess[s])

\* A branch, duplicate, copy or import whose request succeeded has the messages it was
\* asked for and outlives the process, until somebody writes to it or deletes it.
CopiesWhole ==
    \A s \in Ids : promise[s] # Absent =>
        sess[s] # Absent /\ sess[s].msgs = promise[s] /\ ~sess[s].temp

\* No chat is in a folder that is gone, so that it is shown nowhere, unless it came into
\* the folder, or into the chats, while the folder was deleted or afterwards, was temporary
\* or away at the time.
FoldersEmptied ==
    \A s \in Ids : Finds(s, "chat") /\ sess[s].folder \notin folders \cup {Absent} => s \in late

\* A title the user gave stays until the user gives another one, asks for one or deletes all
\* messages, if it does not read like one of the program's own: those are taken for
\* unfinished ones.  A generation, a copy or an import under way still sets its title.
TitlesKept == \A s \in named : sess[s] # Absent => sess[s].title.by = "user"

\* Sessions can be opened, copies are whole, deleted folders are empty, titles stay.
SessionsKept == SessionsOpen /\ CopiesWhole /\ FoldersEmptied /\ TitlesKept
=============================================================================
