---------------------------- MODULE ProjectFiles ----------------------------
(***************************************************************************)
(* The files of a project: ProjectService (infrastructure/config) behind   *)
(* api/routers/projects.py, the other writers of a project's files         *)
(* (workflow artifacts, confirmed patches), and the page that edits one    *)
(* (modules/projects: ProjectExplorer, useFileContent, FileViewer).        *)
(*                                                                         *)
(* The service does not wait anywhere once it has the project, so each of  *)
(* its operations is one step; the page's requests are under way while the *)
(* user goes on, and are served and answered in any order; one that only   *)
(* reads is as good as served when it is asked.  A file is what it says,   *)
(* Dir marks a directory; the hash of a text is the text.  Sizes,          *)
(* encodings, access rights and the file beside the target that a write    *)
(* goes through are left out.                                              *)
(***************************************************************************)
EXTENDS Naturals, Sequences, FiniteSets, SequencesExt

CONSTANTS Unset, Dir,
          Paths,       \* relative paths, one or two names long
          FileTexts,   \* what a file may say
          OpenFiles,   \* <<path, text>> the page may have open at first
          Roots,       \* directories a project may lie in
          Hits,        \* per text: how many of its lines a search matches
          ScanLimit, MaxResults, \* _TEXT_SEARCH_MAX_FILES, max_results
          MaxUserActs, \* bound: what the user of the page does
          MaxOthers    \* bound: what others do to the project

\* Unset is none of the answers.
ASSUME EditorAssumption == Unset \notin {"missing", "mismatch"}

VARIABLES root,     \* where the project lies, Unset when it is deleted
          tree,     \* per root: what is at the paths that exist
          page,     \* the page: selected, content, value, original, conflict, busy
          calls,    \* its requests under way
          seen,     \* history: <<path, text>> the page was told
          blind,    \* history: a save replaced what the page had not been told
          mistaken, \* history: an answer about one file came when another was shown
          steps, others

editorVars == <<root, tree, page, calls, seen, blind, mistaken, steps, others>>

\* The page has opened a file that every root has.
EditorInit ==
    /\ \E opened \in OpenFiles :
       LET p == opened[1]
           text == opened[2]
       IN /\ root \in Roots
          /\ tree = [r \in Roots |-> [q \in {p} \cup {<<p[1]>>} |->
                                        IF q = p THEN text ELSE Dir]]
          /\ page = [selected |-> p, content |-> p, value |-> text, original |-> text,
                     conflict |-> Unset, busy |-> FALSE]
          /\ seen = {<<p, text>>}
    /\ calls = {} /\ blind = FALSE /\ mistaken = FALSE /\ steps = 0 /\ others = 0

-----------------------------------------------------------------------------
(* The service *)

Here == IF root = Unset THEN <<>> ELSE tree[root]
Exists(p) == p \in DOMAIN Here
IsFile(p) == Exists(p) /\ Here[p] # Dir
IsDir(p) == p = <<>> \/ (Exists(p) /\ Here[p] = Dir)
Inside(p, d) == IsStrictPrefix(d, p)
Files == {p \in DOMAIN Here : IsFile(p)}

Without(gone) == [p \in DOMAIN Here \ gone |-> Here[p]]
With(p, entry) == [q \in DOMAIN Here \cup {p} |-> IF q = p THEN entry ELSE Here[q]]

\* create_file and create_directory: not where something is, nor where nothing could be.
CanCreate(p) == root # Unset /\ ~Exists(p) /\ IsDir(Front(p))

\* rename_path: the target is free and lies in a directory, not in the source itself.
CanRename(p, q) == CanCreate(q) /\ Exists(p) /\ ~Inside(q, p)
Renamed(p, q) ==
    LET moved == {r \in DOMAIN Here : r = p \/ Inside(r, p)}
        to(r) == q \o SubSeq(r, Len(p) + 1, Len(r))
    IN  [r \in (DOMAIN Here \ moved) \cup {to(s) : s \in moved} |->
            IF \E s \in moved : to(s) = r THEN Here[CHOOSE s \in moved : to(s) = r] ELSE Here[r]]
Fits(p, q) == DOMAIN Renamed(p, q) \subseteq Paths

\* delete_file and delete_directory, which may be asked to take all that is inside.
CanDelete(p, recursive) ==
    /\ Exists(p)
    /\ IsDir(p) /\ ~recursive => ~\E q \in DOMAIN Here : Inside(q, p)

\* write_file makes the directories the file lies in, unless a file is in the way.
CanWrite(p) == root # Unset /\ ~IsDir(p) /\ (Len(p) = 2 => ~IsFile(Front(p)))
Written(p, text) ==
    LET made == {p} \cup (IF Len(p) = 2 THEN {Front(p)} ELSE {})
    IN  [q \in DOMAIN Here \cup made |-> IF q = p THEN text
                                       ELSE IF q \in made THEN Dir ELSE Here[q]]

\* A faulty Refused: the file only has to be there.
RefusedIfMissing(p, expected) == IF ~IsFile(p) THEN "missing" ELSE Unset

\* The check of expected_hash: FILE_MISSING, HASH_MISMATCH, or Unset.
Refused(p, expected) ==
    IF ~IsFile(p) THEN "missing" ELSE IF Here[p] # expected THEN "mismatch" ELSE Unset

\* A faulty Visit: a full page counts as cut only if the last file had more lines.
VisitToTheFull(found, p) ==
    IF found.limited \/ found.results >= MaxResults THEN found
    ELSE IF found.scanned >= ScanLimit THEN [found EXCEPT !.limited = TRUE]
    ELSE LET room == MaxResults - found.results
             lines == IF Hits[Here[p]] < room THEN Hits[Here[p]] ELSE room
         IN  [found EXCEPT !.scanned = @ + 1, !.results = @ + lines,
                           !.truncated = lines < Hits[Here[p]]]

\* search_project_text over the files in the order they are walked.
Visit(found, p) ==
    IF found.truncated \/ found.limited THEN found
    ELSE IF found.scanned >= ScanLimit THEN [found EXCEPT !.limited = TRUE]
    ELSE LET room == MaxResults - found.results
             lines == IF Hits[Here[p]] < room THEN Hits[Here[p]] ELSE room
         IN  [found EXCEPT !.scanned = @ + 1, !.results = @ + lines,
                           !.truncated = lines = room]
Search(walk) ==
    FoldLeft(Visit, [scanned |-> 0, results |-> 0, truncated |-> FALSE, limited |-> FALSE], walk)

-----------------------------------------------------------------------------
(* What others do: other pages, workflows, the file system *)

Others(new) ==
    /\ others < MaxOthers /\ root # Unset
    /\ tree' = [tree EXCEPT ![root] = new]
    /\ others' = others + 1
    /\ UNCHANGED <<root, page, calls, seen, blind, mistaken, steps>>

CreateFile(p, text) == CanCreate(p) /\ Others(With(p, text))
CreateDirectory(p) == CanCreate(p) /\ Others(With(p, Dir))
RenamePath(p, q) == CanRename(p, q) /\ Fits(p, q) /\ Others(Renamed(p, q))
DeletePath(p, recursive) ==
    CanDelete(p, recursive) /\ Others(Without({q \in DOMAIN Here : q = p \/ Inside(q, p)}))

\* An artifact node writes without a hash, onto nothing in the mode "create".
WriteArtifact(p, text, mode) ==
    /\ mode = "create" => ~IsFile(p)
    /\ CanWrite(p)
    /\ Others(Written(p, text))

\* A confirmed patch changes a file that still says what the patch was made for.
ApplyPatch(p, text) == IsFile(p) /\ text # Here[p] /\ Others(Written(p, text))

\* The project is moved to another directory, or forgotten; its files stay.
Config(r) ==
    /\ others < MaxOthers /\ root # Unset /\ r # root
    /\ root' = r /\ others' = others + 1
    /\ UNCHANGED <<tree, page, calls, seen, blind, mistaken, steps>>
UpdateProject(r) == Config(r)
DeleteProject == Config(Unset)

-----------------------------------------------------------------------------
(* The page asks *)

\* Call: what it says and expects, or where to; the reply is Unset as long as it was not
\* served, then "ok", "missing", "mismatch" or "error", also when the answer got lost.
Call(kind, p, text, reply) ==
    [kind |-> kind, path |-> p, text |-> text, expected |-> Unset, to |-> Unset,
     selected |-> page.selected, id |-> IF \E c \in calls : c.id = 1 THEN 2 ELSE 1,
     reply |-> reply]

\* read_file
Reads(kind, p) ==
    {Call(kind, p, Unset, "error")}
        \cup (IF IsFile(p) THEN {Call(kind, p, Here[p], "ok")} ELSE {})

User(newPage, newCalls) ==
    /\ steps < MaxUserActs /\ Cardinality(calls) < 2
    /\ steps' = steps + 1
    /\ page' = newPage
    /\ calls' = calls \cup newCalls
    /\ UNCHANGED <<root, tree, seen, blind, mistaken, others>>

Select(p) ==
    /\ p # page.selected
    /\ \E read \in Reads("load", p) : User([page EXCEPT !.selected = p], {read})

\* Refresh, or the event project-file-updated after a patch.
Refresh ==
    page.selected # Unset /\ \E read \in Reads("load", page.selected) : User(page, {read})

Type(text) ==
    page.content # Unset /\ text # page.value /\ User([page EXCEPT !.value = text], {})

\* saveCurrentFile, also by its key while an earlier save is under way.
SaveFile ==
    /\ page.content # Unset /\ page.value # page.original
    /\ User([page EXCEPT !.conflict = Unset],
            {[Call("save", page.content, page.value, Unset) EXCEPT !.expected = page.original]})

Cancel ==
    /\ page.content # Unset /\ page.value # page.original
    /\ User([page EXCEPT !.value = page.original, !.conflict = Unset], {})

LoadLatest ==
    /\ page.conflict # Unset /\ ~page.busy
    /\ \E read \in Reads("latest", page.content) : User([page EXCEPT !.busy = TRUE], {read})

RestoreDraft ==
    /\ page.conflict # Unset /\ page.conflict.loaded
    /\ User([page EXCEPT !.value = page.conflict.draft, !.conflict.loaded = FALSE], {})

\* The tree's menus; what was selected then decides what is selected afterwards.
AskRename(p, q) ==
    Exists(p) /\ p # q /\ User(page, {[Call("rename", p, Unset, Unset) EXCEPT !.to = q]})
AskDelete(p) == Exists(p) /\ User(page, {Call("delete", p, Unset, Unset)})

-----------------------------------------------------------------------------
(* The service answers *)

\* The answer, or an error in its place.
Answer(c, reply) ==
    \E r \in {reply, "error"} : calls' = (calls \ {c}) \cup {[c EXCEPT !.reply = r]}

ServeSave(c) ==
    /\ c.kind = "save"
    /\ \/ /\ root = Unset \/ (Refused(c.path, c.expected) = Unset /\ ~CanWrite(c.path))
          /\ Answer(c, "error") /\ UNCHANGED <<tree, blind>>
       \/ /\ root # Unset /\ Refused(c.path, c.expected) # Unset
          /\ Answer(c, Refused(c.path, c.expected)) /\ UNCHANGED <<tree, blind>>
       \/ /\ Refused(c.path, c.expected) = Unset /\ CanWrite(c.path)
          /\ Answer(c, "ok")
          /\ tree' = [tree EXCEPT ![root] = Written(c.path, c.text)]
          /\ blind' = (blind \/ (IsFile(c.path) /\ <<c.path, Here[c.path]>> \notin seen))

Allowed(c) == IF c.kind = "rename" THEN CanRename(c.path, c.to) /\ Fits(c.path, c.to)
              ELSE CanDelete(c.path, TRUE)
ServeTree(c) ==
    /\ c.kind \in {"rename", "delete"}
    /\ IF Allowed(c)
       THEN /\ Answer(c, "ok")
            /\ tree' = [tree EXCEPT ![root] =
                  IF c.kind = "rename" THEN Renamed(c.path, c.to)
                  ELSE Without({q \in DOMAIN Here : q = c.path \/ Inside(q, c.path)})]
       ELSE Answer(c, "error") /\ UNCHANGED tree
    /\ UNCHANGED blind

\* The request never arrives.
Lost(c) == calls' = (calls \ {c}) \cup {[c EXCEPT !.reply = "error"]} /\ UNCHANGED <<tree, blind>>

Serve(c) ==
    /\ c.reply = Unset
    /\ ServeSave(c) \/ ServeTree(c) \/ Lost(c)
    /\ UNCHANGED <<root, page, seen, mistaken, steps, others>>

-----------------------------------------------------------------------------
(* The page takes the answers *)

\* A text the page shows now as what is stored in the file it has open.
Shows(p, text) ==
    /\ seen' = seen \cup {<<p, text>>}
    /\ mistaken' = (mistaken \/ p # page.content)

TakeLoad(c) ==
    /\ c.kind = "load"
    /\ IF c.reply = "ok"
       THEN /\ page' = [page EXCEPT !.content = c.path, !.value = c.text,
                                    !.original = c.text, !.conflict = Unset, !.busy = FALSE]
            /\ seen' = seen \cup {<<c.path, c.text>>}
       ELSE UNCHANGED <<page, seen>>
    /\ UNCHANGED mistaken

TakeSave(c) ==
    /\ c.kind = "save"
    /\ CASE c.reply = "ok" ->
              /\ page' = [page EXCEPT !.original = c.text, !.conflict = Unset]
              /\ Shows(c.path, c.text)
         [] c.reply \in {"missing", "mismatch"} ->
              /\ page' = [page EXCEPT !.conflict = [draft |-> c.text, loaded |-> FALSE]]
              /\ UNCHANGED <<seen, mistaken>>
         [] OTHER -> UNCHANGED <<page, seen, mistaken>>

TakeLatest(c) ==
    /\ c.kind = "latest"
    /\ IF c.reply = "ok"
       THEN /\ page' = [page EXCEPT !.value = c.text, !.original = c.text, !.busy = FALSE,
                                    !.conflict = IF @ = Unset THEN @
                                                 ELSE [@ EXCEPT !.loaded = TRUE]]
            /\ Shows(c.path, c.text)
       ELSE page' = [page EXCEPT !.busy = FALSE] /\ UNCHANGED <<seen, mistaken>>

\* The selection follows a rename and is given up with what is deleted.
TakeTree(c) ==
    /\ c.kind \in {"rename", "delete"}
    /\ LET hit == /\ c.reply = "ok" /\ c.selected # Unset
                  /\ c.selected = c.path \/ Inside(c.selected, c.path)
       IN  page' = IF ~hit THEN page
                   ELSE IF c.kind = "rename"
                   THEN [page EXCEPT !.selected =
                            c.to \o SubSeq(c.selected, Len(c.path) + 1, Len(c.selected))]
                   ELSE [page EXCEPT !.selected = Unset, !.content = Unset]
    /\ UNCHANGED <<seen, mistaken>>

\* What is selected anew is loaded.
Take(c) ==
    /\ c.reply # Unset
    /\ TakeLoad(c) \/ TakeSave(c) \/ TakeLatest(c) \/ TakeTree(c)
    /\ \E read \in IF page'.selected \in {page.selected, Unset} THEN {{}}
                   ELSE {{[r EXCEPT !.id = c.id]} : r \in Reads("load", page'.selected)} :
          calls' = (calls \ {c}) \cup read
    /\ UNCHANGED <<root, tree, blind, steps, others>>

EditorNext ==
    \/ \E p \in Paths, text \in FileTexts :
          \/ CreateFile(p, text) \/ ApplyPatch(p, text)
          \/ \E mode \in {"create", "overwrite"} : WriteArtifact(p, text, mode)
    \/ \E p \in Paths : CreateDirectory(p) \/ Select(p) \/ AskDelete(p)
    \/ \E p \in Paths, b \in BOOLEAN : DeletePath(p, b)
    \/ \E p, q \in Paths : RenamePath(p, q) \/ AskRename(p, q)
    \/ \E r \in Roots : UpdateProject(r)
    \/ \E text \in FileTexts : Type(text)
    \/ DeleteProject \/ Refresh \/ SaveFile \/ Cancel \/ LoadLatest \/ RestoreDraft
    \/ \E c \in calls : Serve(c) \/ Take(c)

EditorSpec == EditorInit /\ [][EditorNext]_editorVars

-----------------------------------------------------------------------------
(* Properties *)

(***************************************************************************)
(* Nobody's work disappears under a save: what a save replaces is a text   *)
(* the page was told for that very file, whoever has written, moved,       *)
(* deleted or re-created it meanwhile and whatever got lost; and the text  *)
(* the page takes for stored was stored in the file it shows - unless an   *)
(* answer about one file came in when another was shown                    *)
(* (write_file with expected_hash, saveCurrentFile,                        *)
(* handleLoadLatestAfterConflict).                                         *)
(***************************************************************************)
SavesAreInformed ==
    ~mistaken =>
        ~blind /\ (page.content # Unset => <<page.content, page.original>> \in seen)

(***************************************************************************)
(* A text search that does not say that it stopped early has found every   *)
(* line there is, in whatever order the files are walked                   *)
(* (search_project_text).                                                  *)
(***************************************************************************)
SearchTellsAll ==
    \A walk \in SetToSeqs(Files) :
        LET found == Search(walk)
        IN  found.truncated \/ found.limited
            \/ found.results = FoldLeft(LAMBDA n, p : n + Hits[Here[p]], 0, walk)
=============================================================================
